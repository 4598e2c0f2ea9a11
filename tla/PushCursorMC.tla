---------------------------- MODULE PushCursorMC ----------------------------
(* PushCursor on two branches: one with a webhook, two pushes and a package *)
(* that both change, and one whose only push rewrites its history.          *)
EXTENDS PushCursor

CONSTANTS main, side, a, b, c

TwoAndOne  == [br \in Branches |-> IF br = main THEN <<{a}, {a, b}>> ELSE <<{c}>>]
OnSide     == {<<side, 1>>}
=============================================================================
