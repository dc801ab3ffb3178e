--------------------------- MODULE MCSecureSession ---------------------------
(***************************************************************************)
(* Small instances of SecureSession for TLC.                               *)
(***************************************************************************)
EXTENDS SecureSession, TLC

Agents  == [mode : Modes, secure : BOOLEAN, key : {"k1"}, trusted : BOOLEAN]
Servers == [mode : Modes, secure : BOOLEAN, key : {"k1", "k2"}, trusted : BOOLEAN]

=============================================================================
