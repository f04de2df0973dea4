---------------------------- MODULE MCFFISnapshot ----------------------------
EXTENDS FFISnapshot, TLC

\* Callers are interchangeable.
Symmetry == Permutations(Caller)
==============================================================================
