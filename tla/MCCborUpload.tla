---------------------------- MODULE MCCborUpload ----------------------------
(* Instances of CborUpload for TLC: 32-bit counts are scaled to 7 bits. *)
EXTENDS CborUploadProps

\* Around the limits: no member, up to one too many, the least length whose
\* double has the top bit, and lengths that have it themselves.
MCMapLengths == {0, 1, 2, 5, 6, MinIndetLen \div 2, MinIndetLen, MinIndetLen + 1}
=============================================================================
