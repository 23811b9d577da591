------------------------------ MODULE SessionVec ------------------------------
(***************************************************************************)
(* SessionTable with the order of the Vec<Session>.                        *)
(*                                                                         *)
(* The code removes sessions by index: `swap_remove` moves the last        *)
(* session into the hole, `retain` keeps the order.  The order decides     *)
(* which of two authenticated sessions of one address the decrypt worker   *)
(* drops.  Each action is the one of SessionTable with what the code does  *)
(* to the Vec, so that every behaviour here is one of SessionTable.        *)
(***************************************************************************)
EXTENDS SessionTable, SequencesExt

CONSTANT NoPeer   \* no peer has authenticated yet

VARIABLES
  order,      \* the peers of the Vec, by index
  arrivals,   \* pending peers by last_activity, set once when they are created
  latest      \* history: for each VPN address, the peer authenticated last

vecVars == <<sessions, config, decrypt, control, reloads, order, arrivals, latest>>

-----------------------------------------------------------------------------
(* Operations on the Vec *)

(* Vec::swap_remove *)
SwapRemove(list, index) == Front(ReplaceAt(list, index, Last(list)))

(* Vec::retain; kept[n] is what is left of the first n elements. *)
RetainOnly(list, keep) ==
  LET kept[n \in 0..Len(list)] ==
        IF n = 0 THEN <<>>
        ELSE IF list[n] \in keep THEN Append(kept[n - 1], list[n]) ELSE kept[n - 1]
  IN  kept[Len(list)]

(* A scan from the front that swap_removes the peers in `gone` and looks at  *)
(* the same index again after each removal; scan[n] is the state after n     *)
(* rounds of the loop.                                                       *)
ScanRemove(list, gone) ==
  LET Visit(s) == IF s.index <= Len(s.list) /\ s.list[s.index] \in gone
                  THEN [list |-> SwapRemove(s.list, s.index), index |-> s.index]
                  ELSE [list |-> s.list, index |-> s.index + 1]
      scan[n \in 0..Len(list)] ==
        IF n = 0 THEN [list |-> list, index |-> 1] ELSE Visit(scan[n - 1])
  IN  scan[Len(list)].list

(* Mutant of RemoveCollected: from the first to the last, skipping indices    *)
(* past the end.                                                              *)
RemoveForward(list, gone) ==
  LET left[n \in 0..Len(list)] ==
        IF n = 0 THEN list
        ELSE IF list[n] \in gone /\ n <= Len(left[n - 1])
             THEN SwapRemove(left[n - 1], n) ELSE left[n - 1]
  IN  left[Len(list)]

(* The indices of `gone` in `list`, collected first and swap_removed from    *)
(* the last to the first; left[n] is what is left after the last n indices.  *)
RemoveCollected(list, gone) ==
  LET left[n \in 0..Len(list)] ==
        IF n = 0 THEN list
        ELSE IF list[Len(list) - n + 1] \in gone
             THEN SwapRemove(left[n - 1], Len(list) - n + 1) ELSE left[n - 1]
  IN  left[Len(list)]

(* Authenticated sessions with another of the same address behind them. *)
Replaced ==
  {order[i] : i \in {i \in 1..Len(order) :
     /\ order[i] \in Authenticated(sessions)
     /\ \E j \in (i + 1)..Len(order) :
          /\ order[j] \in Authenticated(sessions)
          /\ sessions[order[j]].address = sessions[order[i]].address}}

-----------------------------------------------------------------------------
(* Pending sessions stay in the order of their creation; of sessions that    *)
(* authenticate in one drain the later in the Vec is the later one.          *)
Record(created) ==
  LET authenticated(a) == {p \in Authenticated(sessions') \ Authenticated(sessions) :
                             sessions'[p].address = a}
  IN  /\ arrivals' = RetainOnly(arrivals \o created, Pending(sessions'))
      /\ latest' = [a \in Addresses |->
           IF authenticated(a) = {} THEN latest[a]
           ELSE Last(RetainOnly(order', authenticated(a)))]

VecDrain(tried, accepted) ==
  /\ Drain(tried, accepted)
  /\ order' = order
  /\ Record(<<>>)

VecTunWriteFails(tried, accepted) ==
  /\ TunWriteFails(tried, accepted)
  /\ order' = order
  /\ Record(<<>>)

VecDedupe ==
  /\ Dedupe(Replaced)
  /\ order' = RetainOnly(order, Live(sessions'))
  /\ Record(<<>>)

VecKnownPeer(p) ==
  /\ KnownPeer(p)
  /\ order' = ScanRemove(order, Live(sessions) \ Live(sessions'))
  /\ Record(<<>>)

VecBanPeer(p) ==
  /\ BanPeer(p)
  /\ order' = RetainOnly(order, Live(sessions'))
  /\ Record(<<>>)

(* The pending session with the least last_activity makes room. *)
Oldest == IF Len(arrivals) >= MaxPendingHandshakes THEN {Head(arrivals)} ELSE {}

VecAdmitPeer(p) ==
  /\ AdmitPeer(p, Oldest)
  /\ order' = ScanRemove(Append(ScanRemove(order, Oldest), p),
                         ({p} \cup Live(sessions)) \ (Live(sessions') \cup Oldest))
  /\ Record(<<p>>)

VecAcceptorFails(p) ==
  /\ AcceptorFails(p, Oldest)
  /\ order' = ScanRemove(order, Oldest)
  /\ Record(<<>>)

VecUdpWriteError(gone) ==
  /\ UdpWriteError(gone)
  /\ order' = RemoveCollected(order, gone)
  /\ Record(<<>>)

VecTick(kicked, failed, expired, reload) ==
  /\ Tick(kicked, failed, expired, reload)
  /\ LET stay == {p \in Live(sessions) :
                    ~(p \in Established(sessions) /\ sessions[p].address \in kicked)}
     IN  order' = RetainOnly(ScanRemove(RetainOnly(order, stay), failed), Peers \ expired)
  /\ Record(<<>>)

VecFilterSessions ==
  /\ FilterSessions
  /\ order' = RetainOnly(order, Live(sessions'))
  /\ Record(<<>>)

(* Steps that leave the table alone. *)
VecOther ==
  /\ \/ Adopt
     \/ Wake
     \/ \E pending_session_input \in BOOLEAN : ReceiveEmpty(pending_session_input)
     \/ \E p \in Peers : RefusePeer(p)
     \/ NoReload
     \/ ParseConfig
     \/ RejectConfig
     \/ SendReload
     \/ NotifyDecrypt
     \/ ReloadAcked
     \/ ReloadTimeout
     \/ DatagramArrives
     \/ DecryptStops
     \/ ControlStops
     \/ \E c \in Configs : EditConfig(c)
  /\ UNCHANGED <<order, arrivals, latest>>

VecInit ==
  /\ Init
  /\ order = <<>>
  /\ arrivals = <<>>
  /\ latest = [a \in Addresses |-> NoPeer]

VecNext ==
  \/ \E tried \in SUBSET Established(sessions) : \E accepted \in SUBSET tried :
       VecDrain(tried, accepted) \/ VecTunWriteFails(tried, accepted)
  \/ VecDedupe
  \/ \E p \in Peers : VecKnownPeer(p) \/ VecBanPeer(p) \/ VecAdmitPeer(p) \/ VecAcceptorFails(p)
  \/ \E gone \in SUBSET Live(sessions) : VecUdpWriteError(gone)
  \/ \E kicked \in SUBSET Addresses, failed \in SUBSET Pending(sessions),
        expired \in SUBSET Live(sessions), reload \in BOOLEAN :
       VecTick(kicked, failed, expired, reload)
  \/ VecFilterSessions
  \/ VecOther

VecSpec == VecInit /\ [][VecNext]_vecVars

-----------------------------------------------------------------------------
(* Properties *)

(* Removal by index removes the sessions meant: after every section the Vec  *)
(* holds exactly the peers of the table, each once.  Indices collected before *)
(* a swap_remove, or not looked at again after one, would break this.        *)
OrderIsTable ==
  /\ ToSet(order) = Live(sessions)
  /\ Len(order) = Cardinality(Live(sessions))
  /\ ToSet(arrivals) = Pending(sessions)
  /\ Len(arrivals) = Cardinality(Pending(sessions))

=============================================================================
