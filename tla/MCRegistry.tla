----------------------------- MODULE MCRegistry -----------------------------
(* A network of eight addresses, 8 to 15, with the server at 9. *)
EXTENDS Registry

Text(value, plain) == [value |-> value, plain |-> plain]

(* Two clients, one of them also with leading zeros; the server's address in  *)
(* both forms.                                                                *)
MCNames == {Text(10, TRUE), Text(11, TRUE), Text(10, FALSE), Text(9, TRUE), Text(9, FALSE)}

MCInitial == {{[name |-> Text(10, TRUE), fingerprint |-> f, login |-> "none"] : f \in Foreign}}
=============================================================================
