--------------------------- MODULE MCSessionTable ---------------------------
(* Small instances of SessionTable. *)
EXTENDS SessionTable

CONSTANTS p1, p2, p3, p4, ip1, ip2, ip3, a1, a2, f1, f2, l1

(* p1 and p2 share an address. *)
MCIpOf == [p \in Peers |-> CASE p \in {p1, p2} -> ip1 [] p = p3 -> ip2 [] OTHER -> ip3]

Entry(fa1, la1) ==
  [bindings |-> [a \in Addresses |-> IF a = a1 THEN fa1 ELSE f2],
   logins   |-> [a \in Addresses |-> IF a = a1 THEN la1 ELSE NoLogin]]

(* a1 may require a login and may be revoked; a2 stays as it is. *)
MCConfigs == {Entry(f1, l1), Entry(f1, NoLogin), Entry(NoFingerprint, NoLogin)}

(* One configuration throughout: reloads run and change nothing. *)
FixedConfig == {Entry(f1, l1)}
=============================================================================
