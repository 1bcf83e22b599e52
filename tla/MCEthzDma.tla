----------------------------- MODULE MCEthzDma ------------------------------
EXTENDS EthzDma, TLC

CONSTANTS r0, r1

\* Two lines of one slice, two slices from the middle of the first line, and two
\* slices on the other resource.
MCTransfers == (r0 :> {<<0, 4>>, <<1, 5>>}) @@ (r1 :> {<<6, 4>>})
=============================================================================
