------------------------------ MODULE MCLedger ------------------------------
(***************************************************************************)
(* Instances of LedgerStore for TLC.                                       *)
(***************************************************************************)
EXTENDS LedgerStore

CONSTANTS c1, c2, c3, c4

CapsuleSymmetry == Permutations(Capsule)

Events(stop, power, fault, save, move, rebuild) ==
    [stop |-> stop, power |-> power, fault |-> fault, save |-> save, move |-> move,
     rebuild |-> rebuild]

Sub(consequential, mode, embedded, offered) ==
    [consequential |-> consequential, mode |-> mode, embedded |-> embedded, offered |-> offered]

SignedNow == Sub(TRUE, "signed", FALSE, TRUE)
SignedEmbedded == Sub(FALSE, "signed", TRUE, FALSE)
Unsigned == Sub(FALSE, "unsigned", FALSE, FALSE)
UnsignedEmbedded == Sub(FALSE, "unsigned", TRUE, FALSE)

\* Crashes and power losses; segments that are archived; and both, with a second
\* failed save.
CrashAndArchive ==
    {[submissions |-> {SignedNow, SignedEmbedded}, events |-> Events(2, 1, 1, 1, 0, 1)],
     [submissions |-> {SignedNow, Unsigned}, events |-> Events(1, 0, 1, 1, 3, 1)],
     [submissions |-> {SignedNow}, events |-> Events(1, 1, 1, 2, 2, 0)]}
ArchiveOnce == {[submissions |-> {SignedNow}, events |-> Events(0, 0, 0, 0, 1, 0)]}
EnvelopeIgnored == {[submissions |-> {UnsignedEmbedded}, events |-> Events(0, 0, 0, 0, 0, 0)]}
=============================================================================
