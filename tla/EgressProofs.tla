---------------------------- MODULE EgressProofs ----------------------------
(***************************************************************************)
(* No worker of the send path sleeps over work, for any number of sessions *)
(* and every capacity of tun_read_queue.                                   *)
(***************************************************************************)
EXTENDS Egress, SequenceTheorems, TLAPS

(* The encrypt worker found nothing and is about to sleep, or sleeps. *)
EncryptIdle == At("wait") \/ (At("flushed") /\ ~encrypt.pending)

(* It has then been notified of what came since, or will be before the mutex *)
(* of the table is released.                                                 *)
EncryptInv ==
  EncryptIdle /\ (raw # {} \/ tun > 0) => encrypt.changed \/ "queue" \in Due

-----------------------------------------------------------------------------
(* Sections *)

Within(notes, n) == \E i \in 1..Len(notes) : notes[i] = n

(* What is in either of two sequences is in their concatenation. *)
LEMMA WithinConcat ==
  ASSUME NEW s \in Seq(Note), NEW t \in Seq(Note)
  PROVE  /\ s \o t \in Seq(Note)
         /\ \A n : Within(s, n) \/ Within(t, n) => Within(s \o t, n)
<1>1. /\ s \o t \in Seq(Note)
      /\ Len(s \o t) = Len(s) + Len(t)
      /\ \A i \in 1..(Len(s) + Len(t)) :
           (s \o t)[i] = IF i <= Len(s) THEN s[i] ELSE t[i - Len(s)]
  BY ConcatProperties
<1>2. Len(s) \in Nat /\ Len(t) \in Nat
  OBVIOUS
<1>3. ASSUME NEW n, NEW i \in 1..Len(s), s[i] = n PROVE Within(s \o t, n)
  <2>1. i \in 1..Len(s \o t) /\ (s \o t)[i] = n
    BY <1>1, <1>2, <1>3
  <2> QED
    BY <2>1 DEF Within
<1>4. ASSUME NEW n, NEW i \in 1..Len(t), t[i] = n PROVE Within(s \o t, n)
  <2>1. i + Len(s) \in 1..Len(s \o t) /\ (s \o t)[i + Len(s)] = n
    BY <1>1, <1>2, <1>4
  <2> QED
    BY <2>1 DEF Within
<1> QED
  BY <1>1, <1>3, <1>4 DEF Within

(* The sequences of notes that sections are made of. *)
LEMMA NoteSequences ==
  /\ <<>> \in Seq(Note)
  /\ <<"signal">> \in Seq(Note)
  /\ <<"queue">> \in Seq(Note)
  /\ <<"signal", "retry", "queue">> \in Seq(Note)
<1>1. <<>> \in Seq(Note)
  OBVIOUS
<1>2. <<"signal">> \in Seq(Note)
  BY DEF Note
<1>3. <<"queue">> \in Seq(Note)
  BY DEF Note
<1>4. <<"signal", "retry", "queue">> \in Seq(Note)
  BY DEF Note
<1> QED
  BY <1>1, <1>2, <1>3, <1>4

(* The notes of dtls_send. *)
LEMMA EmittedNotes ==
  ASSUME NEW sent
  PROVE  Emitted(sent) \in Seq(Note) /\ (sent # {} => Within(Emitted(sent), "signal"))
<1>2. Within(<<"signal">>, "signal")
  <2>1. 1 \in 1..Len(<<"signal">>) /\ <<"signal">>[1] = "signal"
    OBVIOUS
  <2> QED
    BY <2>1 DEF Within
<1> QED
  BY <1>2, NoteSequences DEF Emitted

(* A step of a handshake tells of its flight and of its answer. *)
LEMMA HandshakeNotes ==
  ASSUME NEW sent, NEW completed
  PROVE  LET notes == Emitted(sent) \o IF completed THEN <<"queue">> ELSE <<>>
         IN  /\ notes \in Seq(Note)
             /\ sent # {} => Within(notes, "signal")
             /\ completed => Within(notes, "queue")
<1> DEFINE answer == IF completed THEN <<"queue">> ELSE <<>>
<1>1. answer \in Seq(Note)
  BY NoteSequences
<1>2. completed => Within(answer, "queue")
  <2>1. 1 \in 1..Len(<<"queue">>) /\ <<"queue">>[1] = "queue"
    OBVIOUS
  <2> QED
    BY <2>1 DEF Within
<1> HIDE DEF answer
<1>3. /\ Emitted(sent) \o answer \in Seq(Note)
      /\ sent # {} => Within(Emitted(sent) \o answer, "signal")
      /\ completed => Within(Emitted(sent) \o answer, "queue")
  BY <1>1, <1>2, EmittedNotes, WithinConcat
<1> QED
  BY <1>3 DEF answer

(* A record that is read is told to both workers. *)
LEMMA ReadNotes ==
  ASSUME NEW sent, NEW answered
  PROVE  LET notes == Emitted(sent) \o <<"signal", "retry", "queue">>
                        \o IF answered = {} THEN <<>> ELSE <<"queue">>
         IN  notes \in Seq(Note) /\ Within(notes, "signal") /\ Within(notes, "queue")
<1> DEFINE told == <<"signal", "retry", "queue">>
           answer == IF answered = {} THEN <<>> ELSE <<"queue">>
<1>1. told \in Seq(Note) /\ answer \in Seq(Note)
  BY NoteSequences
<1>2. Within(told, "signal") /\ Within(told, "queue")
  <2>1. /\ 1 \in 1..Len(told) /\ told[1] = "signal"
        /\ 3 \in 1..Len(told) /\ told[3] = "queue"
    OBVIOUS
  <2> HIDE DEF told
  <2> QED
    BY <2>1 DEF Within
<1> HIDE DEF told, answer
<1>3. /\ Emitted(sent) \o told \in Seq(Note)
      /\ Within(Emitted(sent) \o told, "signal")
      /\ Within(Emitted(sent) \o told, "queue")
  BY <1>1, <1>2, EmittedNotes, WithinConcat
<1>4. /\ (Emitted(sent) \o told) \o answer \in Seq(Note)
      /\ Within((Emitted(sent) \o told) \o answer, "signal")
      /\ Within((Emitted(sent) \o told) \o answer, "queue")
  BY <1>1, <1>3, WithinConcat
<1> QED
  BY <1>4 DEF told, answer

(* A section begins with nothing due. *)
LEMMA SectionType ==
  ASSUME TypeOK, NEW who \in {"encrypt", "decrypt", "control", "writer"},
         NEW notes \in Seq(Note), Section(who, notes), who = "writer" => notes = <<>>
  PROVE  /\ SectionOK'
         /\ Due = {}
         /\ \A n : n \in Due' <=> Within(notes, n)
<1>1. owed = <<>>
  BY DEF Section, TypeOK, SectionOK
<1>2. owed' = notes
  BY DEF Section
<1>3. holder' = IF notes = <<>> THEN "none" ELSE who
  BY DEF Section
<1>4. Due = {}
  BY <1>1 DEF Due
<1>5. \A n : n \in Due' <=> Within(notes, n)
  BY <1>2 DEF Due, Within
<1> QED
  BY <1>2, <1>3, <1>4, <1>5 DEF SectionOK

(* Giving a notification takes it off what is due. *)
LEMMA AnnounceDue ==
  ASSUME TypeOK, Announce
  PROVE  /\ Head(owed) \in Note /\ owed' \in Seq(Note)
         /\ \A n : n \in Due => n = Head(owed) \/ n \in Due'
<1>1. owed \in Seq(Note) /\ owed # <<>>
  BY DEF Announce, TypeOK, SectionOK
<1>2. /\ Head(owed) \in Note /\ owed' \in Seq(Note) /\ Head(owed) = owed[1]
      /\ Len(owed') = Len(owed) - 1
      /\ \A i \in 1..Len(owed') : owed'[i] = owed[i + 1]
  BY <1>1 DEF Announce
<1>3. ASSUME NEW i \in 1..Len(owed)
      PROVE  owed[i] = Head(owed) \/ owed[i] \in Due'
  <2>1. CASE i = 1
    BY <1>2, <2>1
  <2>2. CASE i # 1
    <3>1. i - 1 \in 1..Len(owed') /\ owed'[i - 1] = owed[i]
      BY <1>1, <1>2, <2>2
    <3> QED
      BY <3>1 DEF Due
  <2> QED
    BY <2>1, <2>2
<1> QED
  BY <1>2, <1>3 DEF Due

-----------------------------------------------------------------------------
(* Type correctness *)

(* A section of the encrypt worker keeps the types of the queues. *)
LEMMA DrainType ==
  ASSUME TypeOK, NEW queued \in SUBSET live, NEW S, NEW left, NEW sent,
         DrainPlain(queued, S, left, sent), UNCHANGED live
  PROVE  raw' \subseteq live' /\ enc' \subseteq live' /\ SectionOK'
<1>1. raw' \subseteq live' /\ enc' \subseteq live'
  BY DEF DrainPlain, TypeOK
<1>2. Section("encrypt", Emitted(sent))
  BY DEF DrainPlain
<1>3. Emitted(sent) \in Seq(Note)
  BY EmittedNotes
<1>4. SectionOK'
  BY <1>2, <1>3, SectionType
<1> QED
  BY <1>1, <1>4

(* Every step of the encrypt worker keeps the types. *)
LEMMA EncryptType == ASSUME TypeOK, EncryptNext PROVE TypeOK'
<1>0. ASSUME UNCHANGED <<holder, owed>> PROVE SectionOK'
  BY <1>0 DEF TypeOK, SectionOK
<1>1. CASE EncryptLoop \/ EncryptObserve
  BY <1>1, <1>0 DEF EncryptLoop, EncryptObserve, Goto, TypeOK, WorkersOK
<1>2. CASE Discard
  BY <1>2, <1>0, EgressAssumption DEF Discard, TypeOK, WorkersOK
<1>3. ASSUME NEW targets, NEW S, NEW left, NEW sent, Route(targets, S, left, sent)
      PROVE  TypeOK'
  <2>1. tun' \in 0..TunCapacity
    BY <1>3, EgressAssumption DEF Route, TypeOK
  <2>2. raw \cup targets \in SUBSET live
    BY <1>3 DEF Route, TypeOK
  <2>3. DrainPlain(raw \cup targets, S, left, sent) /\ UNCHANGED live
    BY <1>3 DEF Route
  <2>4. raw' \subseteq live' /\ enc' \subseteq live' /\ SectionOK'
    BY <2>2, <2>3, DrainType
  <2> QED
    BY <1>3, <2>1, <2>4 DEF Route, Goto, TypeOK, WorkersOK
<1>4. CASE NotifyRouted
  BY <1>4, <1>0 DEF NotifyRouted, Goto, TypeOK, WorkersOK
<1>5. CASE TakeRetry
  BY <1>5, <1>0 DEF TakeRetry, Goto, TypeOK, WorkersOK
<1>6. ASSUME NEW left, NEW sent, Reflush(left, sent) PROVE TypeOK'
  <2>1. raw \in SUBSET live /\ DrainPlain(raw, live, left, sent) /\ UNCHANGED live
    BY <1>6 DEF Reflush, TypeOK
  <2>2. raw' \subseteq live' /\ enc' \subseteq live' /\ SectionOK'
    BY <2>1, DrainType
  <2> QED
    BY <1>6, <2>2 DEF Reflush, Goto, TypeOK, WorkersOK
<1>7. ASSUME NEW left, NEW sent, FlushPending(left, sent) PROVE TypeOK'
  <2>1. raw \in SUBSET live /\ DrainPlain(raw, live, left, sent) /\ UNCHANGED live
    BY <1>7 DEF FlushPending, TypeOK
  <2>2. raw' \subseteq live' /\ enc' \subseteq live' /\ SectionOK'
    BY <2>1, DrainType
  <2> QED
    BY <1>7, <2>2 DEF FlushPending, TypeOK, WorkersOK
<1>8. CASE NotifyFlushed
  BY <1>8, <1>0 DEF NotifyFlushed, Goto, TypeOK, WorkersOK
<1>9. CASE EncryptWakes
  BY <1>9, <1>0 DEF EncryptWakes, Goto, TypeOK, WorkersOK
<1> QED
  BY <1>1, <1>2, <1>3, <1>4, <1>5, <1>6, <1>7, <1>8, <1>9 DEF EncryptNext

(* Every step of the UDP write worker keeps the types. *)
LEMMA WriterType == ASSUME TypeOK, WriterNext PROVE TypeOK'
<1>0. ASSUME UNCHANGED <<holder, owed>> PROVE SectionOK'
  BY <1>0 DEF TypeOK, SectionOK
<1>1. CASE WriterLoop \/ WriterObserve \/ WriterRecheck
  BY <1>1, <1>0 DEF WriterLoop, WriterObserve, WriterRecheck, WriterGoto, TypeOK, WorkersOK
<1>2. ASSUME NEW blocked, NEW failed, WriterDrain(blocked, failed) PROVE TypeOK'
  <2>1. Section("writer", <<>>)
    BY <1>2 DEF WriterDrain
  <2>2. SectionOK'
    BY <2>1, SectionType, NoteSequences
  <2> QED
    BY <1>2, <2>2 DEF WriterDrain, WriterGoto, TypeOK, WorkersOK
<1>3. CASE WriterPolls
  BY <1>3, <1>0 DEF WriterPolls, WriterGoto, TypeOK, WorkersOK
<1>4. CASE RequestRetry
  BY <1>4, <1>0 DEF RequestRetry, WriterGoto, TypeOK, WorkersOK
<1>5. CASE RouseEncrypt
  BY <1>5, <1>0 DEF RouseEncrypt, WriterGoto, TypeOK, WorkersOK
<1>6. CASE WriterCheck
  <2>1. Section("writer", <<>>)
    BY <1>6 DEF WriterCheck
  <2>2. SectionOK'
    BY <2>1, SectionType, NoteSequences
  <2> QED
    BY <1>6, <2>2 DEF WriterCheck, WriterGoto, TypeOK, WorkersOK
<1>7. CASE WriterWakes
  BY <1>7, <1>0 DEF WriterWakes, WriterGoto, TypeOK, WorkersOK
<1> QED
  BY <1>1, <1>2, <1>3, <1>4, <1>5, <1>6, <1>7 DEF WriterNext

(* Every variable of the send path keeps its type: in particular only        *)
(* sessions of the table have queues, and the mutex is held exactly while a  *)
(* notification is due.                                                      *)
THEOREM EgressTypeCorrect == Spec => []TypeOK
<1>1. Init => TypeOK
  <2> SUFFICES ASSUME Init PROVE TypeOK
    OBVIOUS
  <2>1. SectionOK
    BY NoteSequences DEF Init, SectionOK
  <2>2. WorkersOK
    BY DEF Init, WorkersOK
  <2>3. tun \in 0..TunCapacity
    BY EgressAssumption DEF Init
  <2> QED
    BY <2>1, <2>2, <2>3 DEF Init, TypeOK
<1>2. TypeOK /\ [Next]_vars => TypeOK'
  <2> SUFFICES ASSUME TypeOK, [Next]_vars PROVE TypeOK'
    OBVIOUS
  <2>0. ASSUME UNCHANGED <<holder, owed>> PROVE SectionOK'
    BY <2>0 DEF TypeOK, SectionOK
  <2>1. CASE Announce
    <3>1. SectionOK'
      BY <2>1, AnnounceDue DEF Announce, TypeOK, SectionOK
    <3>2. WorkersOK'
      BY <2>1 DEF Announce, TypeOK, WorkersOK
    <3> QED
      BY <2>1, <3>1, <3>2 DEF Announce, TypeOK
  <2>2. CASE EncryptNext
    BY <2>2, EncryptType
  <2>3. CASE WriterNext
    BY <2>3, WriterType
  <2>4. CASE MainNext
    <3>1. tun' \in 0..TunCapacity
      BY <2>4, EgressAssumption
         DEF MainNext, Cleanup, CleanupNotify, CleanupClose, CloseTunQueue, TypeOK
    <3>2. WorkersOK'
      BY <2>4 DEF MainNext, Cleanup, CleanupNotify, CleanupClose, CloseTunQueue, TypeOK, WorkersOK
    <3> QED
      BY <2>4, <2>0, <3>1, <3>2
         DEF MainNext, Cleanup, CleanupNotify, CleanupClose, CloseTunQueue, TypeOK
  <2>5. ASSUME NEW s \in Sessions, NEW sent, NEW answered, DecryptRead(s, sent, answered)
        PROVE  TypeOK'
    <3> DEFINE notes == Emitted(sent) \o <<"signal", "retry", "queue">>
                          \o IF answered = {} THEN <<>> ELSE <<"queue">>
    <3>1. Section("decrypt", notes)
      BY <2>5 DEF DecryptRead
    <3>2. notes \in Seq(Note)
      BY ReadNotes
    <3> HIDE DEF notes
    <3>3. SectionOK'
      BY <3>1, <3>2, SectionType
    <3> QED
      BY <2>5, <3>3 DEF DecryptRead, TypeOK, WorkersOK
  <2>6. ASSUME NEW s \in Sessions, NEW sent, NEW completed \in BOOLEAN,
               Handshake(s, sent, completed)
        PROVE  TypeOK'
    <3> DEFINE notes == Emitted(sent) \o IF completed THEN <<"queue">> ELSE <<>>
    <3>1. Section("decrypt", notes)
      BY <2>6 DEF Handshake
    <3>2. notes \in Seq(Note)
      BY HandshakeNotes
    <3> HIDE DEF notes
    <3>3. SectionOK'
      BY <3>1, <3>2, SectionType
    <3> QED
      BY <2>6, <3>3 DEF Handshake, TypeOK, WorkersOK
  <2>7. ASSUME NEW s \in Sessions, Retransmit(s) PROVE TypeOK'
    <3>1. Section("control", Emitted({s}))
      BY <2>7 DEF Retransmit
    <3>2. Emitted({s}) \in Seq(Note)
      BY EmittedNotes
    <3>3. SectionOK'
      BY <3>1, <3>2, SectionType
    <3> QED
      BY <2>7, <3>3 DEF Retransmit, TypeOK, WorkersOK
  <2>8. ASSUME NEW s \in Sessions, RemoveSession(s) PROVE TypeOK'
    <3>1. Section("control", <<>>)
      BY <2>8 DEF RemoveSession
    <3>2. SectionOK'
      BY <3>1, SectionType, NoteSequences
    <3> QED
      BY <2>8, <3>2 DEF RemoveSession, TypeOK, WorkersOK
  <2>9. CASE TunPacket
    <3>1. tun' \in 0..TunCapacity
      BY <2>9, EgressAssumption DEF TunPacket, TypeOK
    <3>2. WorkersOK'
      BY <2>9 DEF TunPacket, TypeOK, WorkersOK
    <3> QED
      BY <2>9, <2>0, <3>1, <3>2 DEF TunPacket, TypeOK
  <2>10. CASE UdpReceived \/ Deactivate
    BY <2>10, <2>0 DEF UdpReceived, Deactivate, TypeOK, WorkersOK
  <2>11. CASE TunReaderCloses
    <3>1. tun' \in 0..TunCapacity
      BY <2>11, EgressAssumption DEF TunReaderCloses, CloseTunQueue, TypeOK
    <3>2. WorkersOK'
      BY <2>11 DEF TunReaderCloses, CloseTunQueue, TypeOK, WorkersOK
    <3> QED
      BY <2>11, <2>0, <3>1, <3>2 DEF TunReaderCloses, CloseTunQueue, TypeOK
  <2>12. CASE UNCHANGED vars
    BY <2>12, <2>0 DEF vars, TypeOK, WorkersOK
  <2> QED
    BY <2>1, <2>2, <2>3, <2>4, <2>5, <2>6, <2>7, <2>8, <2>9, <2>10, <2>11, <2>12 DEF Next
<1> QED
  BY <1>1, <1>2, PTL DEF Spec

-----------------------------------------------------------------------------
(* No worker sleeps over work *)

LEMMA DueKept == ASSUME UNCHANGED owed PROVE Due' = Due
  BY DEF Due

(* The sections of decrypt and control: what is due before and after. *)
LEMMA ReadSection ==
  ASSUME TypeOK, NEW s, NEW sent, NEW answered, DecryptRead(s, sent, answered)
  PROVE  Due = {} /\ "signal" \in Due' /\ "queue" \in Due'
<1> DEFINE notes == Emitted(sent) \o <<"signal", "retry", "queue">>
                      \o IF answered = {} THEN <<>> ELSE <<"queue">>
<1>1. Section("decrypt", notes)
  BY DEF DecryptRead
<1>2. notes \in Seq(Note) /\ Within(notes, "signal") /\ Within(notes, "queue")
  BY ReadNotes
<1> HIDE DEF notes
<1> QED
  BY <1>1, <1>2, SectionType

LEMMA HandshakeSection ==
  ASSUME TypeOK, NEW s, NEW sent, NEW completed \in BOOLEAN, Handshake(s, sent, completed)
  PROVE  /\ Due = {}
         /\ sent # {} => "signal" \in Due'
         /\ completed => "queue" \in Due'
<1> DEFINE notes == Emitted(sent) \o IF completed THEN <<"queue">> ELSE <<>>
<1>1. Section("decrypt", notes)
  BY DEF Handshake
<1>2. /\ notes \in Seq(Note)
      /\ sent # {} => Within(notes, "signal")
      /\ completed => Within(notes, "queue")
  BY HandshakeNotes
<1> HIDE DEF notes
<1> QED
  BY <1>1, <1>2, SectionType

LEMMA EmittedSection ==
  ASSUME TypeOK, NEW who \in {"encrypt", "control"}, NEW sent, Section(who, Emitted(sent))
  PROVE  Due = {} /\ (sent # {} => "signal" \in Due')
<1>1. Emitted(sent) \in Seq(Note) /\ (sent # {} => Within(Emitted(sent), "signal"))
  BY EmittedNotes
<1> QED
  BY <1>1, SectionType

LEMMA QuietSection ==
  ASSUME TypeOK, NEW who \in {"control", "writer"}, Section(who, <<>>)
  PROVE  Due = {}
<1>1. <<>> \in Seq(Note)
  BY NoteSequences
<1> QED
  BY <1>1, SectionType

(* Every step keeps the encrypt worker informed. *)
LEMMA EncryptStep ==
  ASSUME TypeOK, EncryptInv, [Next]_vars
  PROVE  EncryptInv'
<1> USE DEF EncryptInv, EncryptIdle, At
<1>0. WorkersOK
  BY DEF TypeOK
<1>1. CASE Announce
  <2>1. \A n : n \in Due => n = Head(owed) \/ n \in Due'
    BY <1>1, AnnounceDue
  <2> QED
    BY <1>1, <2>1, <1>0 DEF Announce, WorkersOK
<1>2. CASE EncryptNext
  <2>1. CASE EncryptLoop \/ EncryptObserve
    BY <1>0, <2>1 DEF EncryptLoop, EncryptObserve, Goto, WorkersOK
  <2>2. CASE Discard
    <3>1. encrypt.pc = "pop"
      BY <2>2 DEF Discard
    <3> QED
      BY <2>2, <3>1 DEF Discard
  <2>3. ASSUME NEW targets, NEW S, NEW left, NEW sent, Route(targets, S, left, sent)
        PROVE  EncryptInv'
    BY <1>0, <2>3 DEF Route, Goto, WorkersOK
  <2>4. CASE NotifyRouted
    BY <1>0, <2>4 DEF NotifyRouted, Goto, WorkersOK
  <2>5. CASE TakeRetry
    BY <1>0, <2>5 DEF TakeRetry, Goto, WorkersOK
  <2>6. ASSUME NEW left, NEW sent, Reflush(left, sent) PROVE EncryptInv'
    BY <1>0, <2>6 DEF Reflush, Goto, WorkersOK
  <2>7. ASSUME NEW left, NEW sent, FlushPending(left, sent) PROVE EncryptInv'
    <3>1. raw' = left /\ ~(tun' > 0)
      BY <2>7 DEF FlushPending, DrainPlain, TypeOK
    <3>2. encrypt'.pc = "flushed" /\ (left = {} \/ encrypt'.pending)
      BY <1>0, <2>7 DEF FlushPending, WorkersOK
    <3> QED
      BY <3>1, <3>2
  <2>8. CASE NotifyFlushed
    <3>1. Due' = Due
      BY <2>8, DueKept DEF NotifyFlushed
    <3> QED
      BY <1>0, <2>8, <3>1 DEF NotifyFlushed, Goto, WorkersOK
  <2>9. CASE EncryptWakes
    BY <1>0, <2>9 DEF EncryptWakes, Goto, WorkersOK
  <2> QED
    BY <1>2, <2>1, <2>2, <2>3, <2>4, <2>5, <2>6, <2>7, <2>8, <2>9 DEF EncryptNext
<1>3. CASE WriterNext
  <2>1. CASE RouseEncrypt
    BY <1>0, <2>1 DEF RouseEncrypt, WorkersOK
  <2>2. ASSUME NEW blocked, NEW failed, WriterDrain(blocked, failed) PROVE EncryptInv'
    <3>1. Due = {}
      BY <2>2, QuietSection DEF WriterDrain
    <3> QED
      BY <2>2, <3>1 DEF WriterDrain
  <2>3. CASE WriterCheck
    <3>1. Due = {}
      BY <2>3, QuietSection DEF WriterCheck
    <3> QED
      BY <2>3, <3>1 DEF WriterCheck
  <2>4. CASE WriterLoop \/ WriterObserve \/ WriterPolls \/ RequestRetry \/ WriterRecheck \/ WriterWakes
    <3>1. UNCHANGED <<raw, tun, owed, encrypt>>
      BY <2>4 DEF WriterLoop, WriterObserve, WriterPolls, RequestRetry, WriterRecheck, WriterWakes
    <3> QED
      BY <3>1, DueKept
  <2> QED
    BY <1>3, <2>1, <2>2, <2>3, <2>4 DEF WriterNext
<1>4. CASE MainNext
  <2>1. Due' = Due
    BY <1>4, DueKept DEF MainNext, Cleanup, CleanupNotify, CleanupClose
  <2> QED
    BY <1>0, <1>4, <2>1
       DEF MainNext, Cleanup, CleanupNotify, CleanupClose, CloseTunQueue, WorkersOK
<1>5. ASSUME NEW s, NEW sent, NEW answered, DecryptRead(s, sent, answered)
      PROVE  EncryptInv'
  BY <1>5, ReadSection
<1>6. ASSUME NEW s, NEW sent, NEW completed \in BOOLEAN, Handshake(s, sent, completed)
      PROVE  EncryptInv'
  <2>1. Due = {} /\ (completed => "queue" \in Due')
    BY <1>6, HandshakeSection
  <2> QED
    BY <1>6, <2>1 DEF Handshake
<1>7. ASSUME NEW s, Retransmit(s) PROVE EncryptInv'
  <2>1. Due = {}
    BY <1>7, EmittedSection DEF Retransmit
  <2> QED
    BY <1>7, <2>1 DEF Retransmit
<1>8. ASSUME NEW s, RemoveSession(s) PROVE EncryptInv'
  <2>1. Due = {}
    BY <1>8, QuietSection DEF RemoveSession
  <2> QED
    BY <1>8, <2>1 DEF RemoveSession
<1>9. CASE TunPacket
  BY <1>0, <1>9 DEF TunPacket, WorkersOK
<1>10. CASE UdpReceived \/ Deactivate \/ UNCHANGED vars
  <2>1. UNCHANGED <<raw, tun, owed, encrypt>>
    BY <1>10 DEF UdpReceived, Deactivate, vars
  <2> QED
    BY <2>1, DueKept
<1>11. CASE TunReaderCloses
  BY <1>0, <1>11 DEF TunReaderCloses, CloseTunQueue, WorkersOK
<1> QED
  BY <1>1, <1>2, <1>3, <1>4, <1>5, <1>6, <1>7, <1>8, <1>9, <1>10, <1>11 DEF Next

(* The encrypt worker never sleeps over a packet of tun_read_queue or over a *)
(* record of a raw_tx_queue, whoever put it there and whenever (EncryptInv   *)
(* also covers the moment between its last look and its sleep).              *)
THEOREM EncryptNeverOversleeps == Spec => []EncryptAwake
<1>1. Init => EncryptInv
  BY DEF Init, EncryptInv, EncryptIdle, At
<1>2. TypeOK /\ EncryptInv /\ [Next]_vars => EncryptInv'
  BY EncryptStep
<1>3. EncryptInv => EncryptAwake
  BY DEF EncryptInv, EncryptIdle, EncryptAwake
<1> QED
  BY <1>1, <1>2, <1>3, EgressTypeCorrect, PTL DEF Spec

(* From the moment the UDP write worker found every enc_tx_queue empty, while  *)
(* it looks at the flag and when it sleeps, a new datagram is announced to it. *)
WriterInv ==
  writer.pc \in {"recheck", "wait"} /\ enc # {} => writer.changed \/ "signal" \in Due

(* Every step keeps the UDP write worker informed. *)
LEMMA WriterStep ==
  ASSUME TypeOK, WriterInv, [Next]_vars
  PROVE  WriterInv'
<1> USE DEF WriterInv, WriterAt
<1>0. WorkersOK
  BY DEF TypeOK
<1>1. CASE Announce
  <2>1. \A n : n \in Due => n = Head(owed) \/ n \in Due'
    BY <1>1, AnnounceDue
  <2> QED
    BY <1>1, <2>1, <1>0 DEF Announce, WorkersOK
<1>2. CASE EncryptNext
  <2>1. CASE NotifyRouted \/ NotifyFlushed
    BY <1>0, <2>1 DEF NotifyRouted, NotifyFlushed, WorkersOK
  <2>2. CASE EncryptLoop \/ EncryptObserve \/ Discard \/ TakeRetry \/ EncryptWakes
    <3>1. UNCHANGED <<enc, owed, writer>>
      BY <2>2 DEF EncryptLoop, EncryptObserve, Discard, TakeRetry, EncryptWakes
    <3> QED
      BY <3>1, DueKept
  <2>3. ASSUME NEW queued, NEW S, NEW left, NEW sent,
               DrainPlain(queued, S, left, sent), UNCHANGED writer
        PROVE  WriterInv'
    <3>1. Due = {} /\ (sent # {} => "signal" \in Due')
      BY <2>3, EmittedSection DEF DrainPlain
    <3> QED
      BY <2>3, <3>1 DEF DrainPlain
  <2>4. ASSUME NEW targets, NEW S, NEW left, NEW sent, Route(targets, S, left, sent)
        PROVE  WriterInv'
    BY <2>3, <2>4 DEF Route
  <2>5. ASSUME NEW left, NEW sent, Reflush(left, sent) \/ FlushPending(left, sent)
        PROVE  WriterInv'
    BY <2>3, <2>5 DEF Reflush, FlushPending
  <2> QED
    BY <1>2, <2>1, <2>2, <2>4, <2>5 DEF EncryptNext
<1>3. CASE WriterNext
  <2>1. CASE WriterCheck
    BY <1>0, <2>1 DEF WriterCheck, WriterGoto, WorkersOK
  <2>2. ASSUME NEW blocked, NEW failed, WriterDrain(blocked, failed) PROVE WriterInv'
    BY <1>0, <2>2 DEF WriterDrain, WriterGoto, WorkersOK
  <2>3. CASE WriterLoop \/ WriterObserve \/ WriterPolls \/ RequestRetry \/ RouseEncrypt \/ WriterWakes
    BY <1>0, <2>3
       DEF WriterLoop, WriterObserve, WriterPolls, RequestRetry, RouseEncrypt, WriterWakes, WriterGoto, WorkersOK
  <2>4. CASE WriterRecheck
    <3>1. Due' = Due
      BY <2>4, DueKept DEF WriterRecheck
    <3> QED
      BY <1>0, <2>4, <3>1 DEF WriterRecheck, WriterGoto, WorkersOK
  <2> QED
    BY <1>3, <2>1, <2>2, <2>3, <2>4 DEF WriterNext
<1>4. CASE MainNext
  <2>1. Due' = Due
    BY <1>4, DueKept DEF MainNext, Cleanup, CleanupNotify, CleanupClose
  <2> QED
    BY <1>0, <1>4, <2>1 DEF MainNext, Cleanup, CleanupNotify, CleanupClose, WorkersOK
<1>5. ASSUME NEW s, NEW sent, NEW answered, DecryptRead(s, sent, answered)
      PROVE  WriterInv'
  BY <1>5, ReadSection
<1>6. ASSUME NEW s, NEW sent, NEW completed \in BOOLEAN, Handshake(s, sent, completed)
      PROVE  WriterInv'
  <2>1. Due = {} /\ (sent # {} => "signal" \in Due')
    BY <1>6, HandshakeSection
  <2> QED
    BY <1>6, <2>1 DEF Handshake
<1>7. ASSUME NEW s, Retransmit(s) PROVE WriterInv'
  <2>1. "signal" \in Due'
    BY <1>7, EmittedSection DEF Retransmit
  <2> QED
    BY <2>1
<1>8. ASSUME NEW s, RemoveSession(s) PROVE WriterInv'
  <2>1. Due = {}
    BY <1>8, QuietSection DEF RemoveSession
  <2> QED
    BY <1>8, <2>1 DEF RemoveSession
<1>9. CASE UdpReceived
  BY <1>0, <1>9 DEF UdpReceived, WorkersOK
<1>10. CASE TunPacket \/ Deactivate \/ TunReaderCloses \/ UNCHANGED vars
  <2>1. UNCHANGED <<enc, owed, writer>>
    BY <1>10 DEF TunPacket, Deactivate, TunReaderCloses, vars
  <2> QED
    BY <2>1, DueKept
<1> QED
  BY <1>1, <1>2, <1>3, <1>4, <1>5, <1>6, <1>7, <1>8, <1>9, <1>10 DEF Next

(* The UDP write worker never sleeps over a datagram of an enc_tx_queue,     *)
(* whether encrypt, decrypt or session control put it there.                 *)
THEOREM WriterNeverOversleeps == Spec => []WriterAwake
<1>1. Init => WriterInv
  BY DEF Init, WriterInv
<1>2. TypeOK /\ WriterInv /\ [Next]_vars => WriterInv'
  BY WriterStep
<1>3. WriterInv => WriterAwake
  BY DEF WriterInv, WriterAwake, WriterAt
<1> QED
  BY <1>1, <1>2, <1>3, EgressTypeCorrect, PTL DEF Spec

-----------------------------------------------------------------------------
(* Why join returns: what fairness only has to drive *)

(* The order of the cleanup leaves no worker asleep: active is cleared before *)
(* dtls_progress is notified, so that the UDP write worker cannot go to sleep *)
(* after the notification, and a closed tun_read_queue holds nothing.         *)
CleanupReachesAll ==
  /\ main # "run" => ~active
  /\ main = "join" => closed
  /\ closed => tun = 0
  /\ main \in {"close", "join"} /\ WriterAt("wait") => writer.changed

(* How many steps the workers are from their end once the queue is closed. *)
EncryptSteps(pc) ==
  CASE pc = "stopped"            -> 0
    [] pc \in {"head", "flushed"} -> 1
    [] pc \in {"wait", "pop"}     -> 2
    [] pc \in {"reflush", "observe"} -> 3
    [] pc = "retry"               -> 4
    [] pc = "routed"              -> 5

WriterSteps(pc) ==
  CASE pc = "stopped"                     -> 0
    [] pc = "head"                        -> 1
    [] pc \in {"rouse", "recheck", "wait"} -> 2
    [] pc \in {"retry", "check"}           -> 3
    [] pc = "poll"                        -> 4
    [] pc = "drain"                       -> 5
    [] pc = "observe"                     -> 6

(* While main waits in join, every step of either worker brings it nearer to  *)
(* its end, whatever the other threads queue meanwhile.                       *)
JoinCountsDown ==
  [][main = "join" =>
       /\ main' = "join"
       /\ encrypt'.pc # encrypt.pc => EncryptSteps(encrypt'.pc) < EncryptSteps(encrypt.pc)
       /\ writer'.pc # writer.pc => WriterSteps(writer'.pc) < WriterSteps(writer.pc)
       /\ EncryptNext => encrypt'.pc # encrypt.pc
       /\ WriterNext => writer'.pc # writer.pc]_vars

(* The records of the workers, one field at a time. *)
LEMMA Fields ==
  ASSUME TypeOK
  PROVE  /\ \A pc : Goto(pc) => encrypt'.pc = pc
         /\ \A pc : WriterGoto(pc) => writer'.pc = pc /\ writer'.changed = writer.changed
         /\ [writer EXCEPT !.changed = TRUE].pc = writer.pc
         /\ [writer EXCEPT !.changed = TRUE].changed = TRUE
         /\ [encrypt EXCEPT !.changed = TRUE].pc = encrypt.pc
         /\ encrypt.pc \in {"head", "observe", "pop", "routed", "retry", "reflush", "flushed", "wait", "stopped"}
         /\ writer.pc \in {"head", "observe", "drain", "poll", "retry", "rouse", "check",
                          "recheck", "wait", "stopped"}
  BY DEF TypeOK, WorkersOK, Goto, WriterGoto

LEMMA CleanupInit == Init => CleanupReachesAll
  BY DEF Init, CleanupReachesAll, WriterAt

(* A step that neither starts the server's workers again nor puts the UDP     *)
(* write worker to sleep keeps what the cleanup has reached.                  *)
LEMMA CleanupKept ==
  ASSUME CleanupReachesAll, main' = main, active' => active, closed' = closed,
         tun' = tun \/ (tun' \in Nat /\ ~closed),
         writer'.pc = "wait" => (writer.pc = "wait" /\ (writer.changed => writer'.changed)) \/ active
  PROVE  CleanupReachesAll'
  BY DEF CleanupReachesAll, WriterAt

LEMMA CleanupStep ==
  ASSUME TypeOK, CleanupReachesAll, [Next]_vars
  PROVE  CleanupReachesAll'
<1>1. CASE Announce
  <2>1. main' = main /\ active' = active /\ closed' = closed /\ tun' = tun
    BY <1>1 DEF Announce
  <2>2. writer' = writer \/ writer' = [writer EXCEPT !.changed = TRUE]
    BY <1>1 DEF Announce
  <2>3. writer'.pc = "wait" => writer.pc = "wait" /\ (writer.changed => writer'.changed)
    BY <2>2, Fields
  <2> QED
    BY <2>1, <2>3, CleanupKept
<1>2. CASE EncryptNext
  <2>1. main' = main /\ closed' = closed
    BY <1>2 DEF EncryptNext, EncryptLoop, EncryptObserve, Discard, Route, NotifyRouted, TakeRetry, Reflush, FlushPending,
                NotifyFlushed, EncryptWakes
  <2>2. active' => active
    <3>1. active' = active \/ active' = (active /\ ~closed)
      BY <1>2 DEF EncryptNext, EncryptLoop, EncryptObserve, Discard, Route, NotifyRouted, TakeRetry, Reflush, FlushPending,
                  NotifyFlushed, EncryptWakes
    <3>2. CASE active' = active
      BY <3>2
    <3>3. CASE active' = (active /\ ~closed)
      BY <3>3, Zenon
    <3> QED
      BY <3>1, <3>2, <3>3
  <2>3. tun' = tun \/ (tun' \in Nat /\ ~closed)
    <3>1. tun' = tun \/ (tun > 0 /\ tun' = tun - 1)
      BY <1>2 DEF EncryptNext, EncryptLoop, EncryptObserve, Discard, Route, NotifyRouted, TakeRetry, Reflush, FlushPending,
                  NotifyFlushed, EncryptWakes
    <3>2. tun \in Nat /\ (tun > 0 => ~closed)
      BY EgressAssumption DEF TypeOK, CleanupReachesAll
    <3> QED
      BY <3>1, <3>2
  <2>4. writer' = writer \/ writer' = [writer EXCEPT !.changed = TRUE]
    BY <1>2 DEF EncryptNext, EncryptLoop, EncryptObserve, Discard, Route, NotifyRouted, TakeRetry, Reflush, FlushPending,
                NotifyFlushed, EncryptWakes
  <2>5. writer'.pc = "wait" => writer.pc = "wait" /\ (writer.changed => writer'.changed)
    BY <2>4, Fields
  <2> QED
    BY <2>1, <2>2, <2>3, <2>5, CleanupKept
<1>3. CASE WriterNext
  <2>1. main' = main /\ active' = active /\ closed' = closed /\ tun' = tun
    BY <1>3 DEF WriterNext, WriterLoop, WriterObserve, WriterDrain, WriterPolls, RequestRetry, RouseEncrypt, WriterCheck,
                WriterRecheck, WriterWakes
  <2>2. \/ \E pc \in {"stopped", "observe", "poll", "retry", "check", "recheck", "rouse", "head"} : WriterGoto(pc)
        \/ writer' = [writer EXCEPT !.pc = "drain", !.changed = FALSE]
        \/ active
    BY <1>3 DEF WriterNext, WriterLoop, WriterObserve, WriterDrain, WriterPolls, RequestRetry, RouseEncrypt, WriterCheck,
                WriterRecheck, WriterWakes
  <2>3. writer'.pc # "wait" \/ active
    <3>1. [writer EXCEPT !.pc = "drain", !.changed = FALSE].pc = "drain"
      BY DEF TypeOK, WorkersOK
    <3> QED
      BY <2>2, <3>1, Fields
  <2> QED
    BY <2>1, <2>3, CleanupKept
<1>4. CASE MainNext
  <2>1. CASE Cleanup
    BY <2>1 DEF Cleanup, CleanupReachesAll
  <2>2. CASE CleanupNotify
    BY <2>2, Fields DEF CleanupNotify, CleanupReachesAll
  <2>3. CASE CleanupClose
    BY <2>3 DEF CleanupClose, CloseTunQueue, CleanupReachesAll, WriterAt
  <2> QED
    BY <1>4, <2>1, <2>2, <2>3 DEF MainNext
<1>5. CASE \/ \E s \in Sessions, sent, answered \in SUBSET Sessions : DecryptRead(s, sent, answered)
           \/ \E s \in Sessions, sent \in SUBSET Sessions, completed \in BOOLEAN : Handshake(s, sent, completed)
           \/ \E s \in Sessions : Retransmit(s) \/ RemoveSession(s)
           \/ Deactivate
           \/ UNCHANGED vars
  <2>1. main' = main /\ closed' = closed /\ tun' = tun /\ writer' = writer
    BY <1>5 DEF DecryptRead, Handshake, Retransmit, RemoveSession, Deactivate, vars
  <2>2. active' = active \/ active' = FALSE
    BY <1>5 DEF DecryptRead, Handshake, Retransmit, RemoveSession, Deactivate, vars
  <2> QED
    BY <2>1, <2>2, CleanupKept
<1>6. CASE TunPacket
  <2>1. main' = main /\ closed' = closed /\ writer' = writer /\ active' = active /\ ~closed
    BY <1>6 DEF TunPacket
  <2>2. tun' \in Nat
    BY <1>6, EgressAssumption DEF TunPacket, TypeOK
  <2> QED
    BY <2>1, <2>2, CleanupKept
<1>7. CASE UdpReceived
  BY <1>7 DEF UdpReceived, CleanupReachesAll
<1>8. CASE TunReaderCloses
  BY <1>8 DEF TunReaderCloses, CloseTunQueue, CleanupReachesAll, WriterAt
<1> QED
  BY <1>1, <1>2, <1>3, <1>4, <1>5, <1>6, <1>7, <1>8 DEF Next

LEMMA CleanupInvariant == Spec => [](TypeOK /\ CleanupReachesAll)
  BY EgressTypeCorrect, CleanupInit, CleanupStep, PTL DEF Spec

(* The order of the cleanup, flag, then signal, then queue, leaves neither    *)
(* worker asleep.                                                             *)
THEOREM CleanupWakesAll == Spec => []CleanupReachesAll
  BY CleanupInvariant, PTL

(* The moves left to the workers after the cleanup. *)
EncryptMoves == {<<"head", "stopped">>, <<"observe", "pop">>, <<"pop", "flushed">>, <<"routed", "retry">>,
                 <<"retry", "reflush">>, <<"retry", "pop">>, <<"reflush", "pop">>,
                 <<"flushed", "stopped">>, <<"wait", "head">>}

WriterMoves == {<<"head", "stopped">>, <<"drain", "poll">>, <<"drain", "retry">>,
                <<"drain", "check">>, <<"poll", "retry">>, <<"retry", "rouse">>,
                <<"rouse", "head">>, <<"check", "head">>, <<"check", "recheck">>,
                <<"recheck", "head">>, <<"wait", "head">>, <<"observe", "drain">>}

LEMMA MovesDown ==
  ASSUME NEW from, NEW to
  PROVE  /\ <<from, to>> \in EncryptMoves => to # from /\ EncryptSteps(to) < EncryptSteps(from)
         /\ <<from, to>> \in WriterMoves => to # from /\ WriterSteps(to) < WriterSteps(from)
  BY DEF EncryptMoves, WriterMoves, EncryptSteps, WriterSteps

LEMMA JoinEncrypt ==
  ASSUME TypeOK, CleanupReachesAll, main = "join", EncryptNext
  PROVE  <<encrypt.pc, encrypt'.pc>> \in EncryptMoves /\ writer'.pc = writer.pc
<1>0. ~active /\ closed /\ ~(tun > 0)
  BY DEF CleanupReachesAll
<1>1. writer'.pc = writer.pc
  <2>1. writer' = writer \/ writer' = [writer EXCEPT !.changed = TRUE]
    BY DEF EncryptNext, EncryptLoop, EncryptObserve, Discard, Route, NotifyRouted, TakeRetry, Reflush, FlushPending,
           NotifyFlushed, EncryptWakes
  <2> QED
    BY <2>1, Fields
<1>2. CASE \E left, sent \in SUBSET Sessions : FlushPending(left, sent)
  <2>1. PICK left : encrypt' = [encrypt EXCEPT !.pc = "flushed", !.pending = left # {}] /\ encrypt.pc = "pop"
    BY <1>2 DEF FlushPending, At
  <2>2. encrypt'.pc = "flushed"
    BY <2>1 DEF TypeOK, WorkersOK
  <2> QED
    BY <1>1, <2>1, <2>2 DEF EncryptMoves
<1>4. CASE EncryptObserve
  <2>1. encrypt' = [encrypt EXCEPT !.pc = "pop", !.changed = FALSE] /\ encrypt.pc = "observe"
    BY <1>4 DEF EncryptObserve, At
  <2>2. encrypt'.pc = "pop"
    BY <2>1 DEF TypeOK, WorkersOK
  <2> QED
    BY <1>1, <2>1, <2>2 DEF EncryptMoves
<1>3. CASE ~EncryptObserve /\ ~\E left, sent \in SUBSET Sessions : FlushPending(left, sent)
  <2>1. \E to : <<encrypt.pc, to>> \in EncryptMoves /\ Goto(to)
    <3>1. CASE EncryptLoop
      BY <1>0, <3>1 DEF EncryptLoop, At, EncryptMoves
    <3>2. CASE NotifyRouted \/ EncryptWakes
      BY <3>2 DEF NotifyRouted, EncryptWakes, At, EncryptMoves
    <3>3. CASE TakeRetry
      BY <3>3 DEF TakeRetry, At, EncryptMoves
    <3>4. CASE \E left, sent \in SUBSET Sessions : Reflush(left, sent)
      BY <3>4 DEF Reflush, At, EncryptMoves
    <3>5. CASE NotifyFlushed
      BY <1>0, <3>5 DEF NotifyFlushed, At, EncryptMoves
    <3> QED
      BY <1>0, <1>3, <3>1, <3>2, <3>3, <3>4, <3>5 DEF EncryptNext, Discard, Route
  <2> QED
    BY <1>1, <2>1, Fields
<1> QED
  BY <1>2, <1>3, <1>4

LEMMA JoinWriter ==
  ASSUME TypeOK, CleanupReachesAll, main = "join", WriterNext
  PROVE  <<writer.pc, writer'.pc>> \in WriterMoves /\ encrypt'.pc = encrypt.pc
<1>0. ~active
  BY DEF CleanupReachesAll
<1>1. encrypt'.pc = encrypt.pc
  <2>1. encrypt' = encrypt \/ encrypt' = [encrypt EXCEPT !.changed = TRUE]
    BY DEF WriterNext, WriterLoop, WriterObserve, WriterDrain, WriterPolls, RequestRetry, RouseEncrypt, WriterCheck, WriterRecheck, WriterWakes
  <2> QED
    BY <2>1, Fields
<1>3. CASE WriterObserve
  <2>1. writer' = [writer EXCEPT !.pc = "drain", !.changed = FALSE] /\ writer.pc = "observe"
    BY <1>3 DEF WriterObserve, WriterAt
  <2>2. writer'.pc = "drain"
    BY <2>1 DEF TypeOK, WorkersOK
  <2> QED
    BY <1>1, <2>1, <2>2 DEF WriterMoves
<1>2. WriterObserve \/ \E to : <<writer.pc, to>> \in WriterMoves /\ WriterGoto(to)
  <2>1. CASE WriterLoop \/ WriterCheck \/ WriterRecheck
    BY <1>0, <2>1 DEF WriterLoop, WriterCheck, WriterRecheck, WriterAt, WriterMoves
  <2>2. CASE \E blocked, failed \in SUBSET Sessions : WriterDrain(blocked, failed)
    <3>1. writer.pc = "drain" /\ (WriterGoto("poll") \/ WriterGoto("retry") \/ WriterGoto("check"))
      BY <2>2 DEF WriterDrain, WriterAt
    <3> QED
      BY <3>1 DEF WriterMoves
  <2>3. CASE WriterPolls \/ RequestRetry \/ RouseEncrypt \/ WriterWakes
    BY <2>3 DEF WriterPolls, RequestRetry, RouseEncrypt, WriterWakes, WriterAt, WriterMoves
  <2> QED
    BY <2>1, <2>2, <2>3 DEF WriterNext
<1> QED
  BY <1>1, <1>2, <1>3, Fields

LEMMA JoinOthers ==
  ASSUME TypeOK, main = "join", [Next]_vars, ~EncryptNext, ~WriterNext
  PROVE  encrypt'.pc = encrypt.pc /\ writer'.pc = writer.pc
<1>1. /\ encrypt' = encrypt \/ encrypt' = [encrypt EXCEPT !.changed = TRUE]
      /\ writer' = writer \/ writer' = [writer EXCEPT !.changed = TRUE]
  BY DEF Next, Announce, MainNext, Cleanup, CleanupNotify, CleanupClose, CloseTunQueue, DecryptRead, Handshake,
         Retransmit, RemoveSession, TunPacket, UdpReceived, Deactivate, TunReaderCloses, vars
<1> QED
  BY <1>1, Fields

(* Either worker takes at most six steps after the cleanup, so join, which   *)
(* only needs them to be taken, returns.                                      *)
THEOREM JoinBounded == Spec => JoinCountsDown
<1>1. TypeOK /\ CleanupReachesAll /\ [Next]_vars =>
        [main = "join" =>
           /\ main' = "join"
           /\ encrypt'.pc # encrypt.pc => EncryptSteps(encrypt'.pc) < EncryptSteps(encrypt.pc)
           /\ writer'.pc # writer.pc => WriterSteps(writer'.pc) < WriterSteps(writer.pc)
           /\ EncryptNext => encrypt'.pc # encrypt.pc
           /\ WriterNext => writer'.pc # writer.pc]_vars
  <2> SUFFICES ASSUME TypeOK, CleanupReachesAll, [Next]_vars, main = "join"
               PROVE  /\ main' = "join"
                      /\ encrypt'.pc # encrypt.pc => EncryptSteps(encrypt'.pc) < EncryptSteps(encrypt.pc)
                      /\ writer'.pc # writer.pc => WriterSteps(writer'.pc) < WriterSteps(writer.pc)
                      /\ EncryptNext => encrypt'.pc # encrypt.pc
                      /\ WriterNext => writer'.pc # writer.pc
    OBVIOUS
  <2>1. main' = main
    BY DEF Next, Announce, MainNext, Cleanup, CleanupNotify, CleanupClose, DecryptRead, Handshake,
           Retransmit, RemoveSession, TunPacket, UdpReceived, Deactivate, TunReaderCloses, vars,
           EncryptNext, EncryptLoop, EncryptObserve, Discard, Route, NotifyRouted, TakeRetry, Reflush, FlushPending,
           NotifyFlushed, EncryptWakes, WriterNext, WriterLoop, WriterObserve, WriterDrain, WriterPolls, RequestRetry,
           RouseEncrypt, WriterCheck, WriterRecheck, WriterWakes
  <2>2. CASE EncryptNext
    <3>1. <<encrypt.pc, encrypt'.pc>> \in EncryptMoves /\ writer'.pc = writer.pc
      BY <2>2, JoinEncrypt
    <3>2. ~WriterNext
      <4>1. WriterNext => encrypt'.pc = encrypt.pc
        BY JoinWriter
      <4> QED
        BY <3>1, <4>1, MovesDown
    <3> QED
      BY <2>1, <3>1, <3>2, MovesDown
  <2>3. CASE WriterNext
    <3>1. <<writer.pc, writer'.pc>> \in WriterMoves /\ encrypt'.pc = encrypt.pc
      BY <2>3, JoinWriter
    <3>2. ~EncryptNext
      <4>1. EncryptNext => writer'.pc = writer.pc
        BY JoinEncrypt
      <4> QED
        BY <3>1, <4>1, MovesDown
    <3> QED
      BY <2>1, <3>1, <3>2, MovesDown
  <2>4. CASE ~EncryptNext /\ ~WriterNext
    BY <2>1, <2>4, JoinOthers
  <2> QED
    BY <2>2, <2>3, <2>4
<1> QED
  BY <1>1, CleanupInvariant, PTL DEF Spec, JoinCountsDown

=============================================================================
