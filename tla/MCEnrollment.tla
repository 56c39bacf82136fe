---------------------------- MODULE MCEnrollment ----------------------------
\* Enrollment with two labels and two devices, which are interchangeable.
EXTENDS Enrollment, TLC

CONSTANTS l1, l2, d1, d2

MCLabel == {l1, l2}
MCDevice == {d1, d2}

Interchangeable == Permutations(MCLabel) \cup Permutations(MCDevice)
=============================================================================
