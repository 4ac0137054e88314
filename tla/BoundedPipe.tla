---------------------------- MODULE BoundedPipe ----------------------------
(***************************************************************************)
(* What one direction of a stream promises its two applications: a byte    *)
(* pipe that never holds more than Capacity bytes.  Data comes out in the  *)
(* order it went in, so the contents are two counters.                     *)
(***************************************************************************)
EXTENDS Integers

CONSTANTS
    Capacity,   \* most bytes the pipe holds
    Limit       \* bytes the writer has to write

VARIABLES written, taken

Init == written = 0 /\ taken = 0

\* The writer puts in some bytes the pipe has room for.
Write ==
    /\ \E n \in 1..(Limit - written) :
         /\ written + n - taken <= Capacity
         /\ written' = written + n
    /\ UNCHANGED taken

\* The reader takes some bytes that were written.
Take ==
    /\ \E n \in 1..(written - taken) : taken' = taken + n
    /\ UNCHANGED written

Next == Write \/ Take

Spec == Init /\ [][Next]_<<written, taken>>
=============================================================================
