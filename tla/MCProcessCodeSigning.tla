-------------------------- MODULE MCProcessCodeSigning --------------------------
(* Model-checking instance of ProcessCodeSigning: every kernel the code    *)
(* distinguishes, and those around them.                                   *)
EXTENDS ProcessCodeSigning

MCVersions == {<<15, 6>>, <<16, 0>>, <<17, 7>>, <<18, 0>>, <<19, 2>>, <<19, 3>>, <<20, 0>>}
=============================================================================
