---------------------------- MODULE MCRunControl ----------------------------
(* One or two handlers and the operations they serve.                        *)
EXTENDS RunControl

CONSTANTS h1, h2

OneHandler == {h1}
TwoHandlers == {h1, h2}
StartStop == {"start", "stop"}
StartStopUnmount == {"start", "stop", "unmount"}
=============================================================================
