---------------------------- MODULE PollServerProofs ---------------------------
(***************************************************************************)
(* Proofs about the poll-based PIGen server, for any number of clients,    *)
(* slots, reply bytes and buffer sizes.                                    *)
(***************************************************************************)
EXTENDS PollServer, SequenceTheorems, FiniteSetTheorems, TLAPS

LEMMA SlotsInEntries ==
    /\ Slots \subseteq Entries
    /\ MaxClients \in Entries
    /\ MaxClients \notin Slots
    /\ 0 \in Slots
  BY PollAssumption DEF Slots, Entries

LEMMA ReplyIsSeq ==
    ASSUME NEW d \in Digits
    PROVE  /\ Reply(d) \in Seq(ReplyByte)
           /\ Len(Reply(d)) = ReplyLen
           /\ \A k \in 1..ReplyLen : Reply(d)[k] \in ReplyByte
  <1>1. Reply(d) \in [1..ReplyLen -> ReplyByte]
    BY DEF Reply, ReplyByte
  <1>2. Reply(d) \in Seq(ReplyByte)
    BY <1>1, PollAssumption, SeqDef
  <1>3. Len(Reply(d)) = ReplyLen
    BY <1>1, <1>2, PollAssumption, LenProperties DEF Reply
  <1>. QED
    BY <1>1, <1>2, <1>3

(***************************************************************************)
(* Facts about one call of client_handler.                                 *)
(***************************************************************************)
LEMMA FlaggedType ==
    ASSUME TypeOK, NEW i \in Entries
    PROVE  /\ Flagged(i) \in ClientState
           /\ Flagged(i).in_use = client_states[i].in_use
           /\ Flagged(i).awaiting_read = client_states[i].awaiting_read
           /\ Flagged(i).read_available =
                 (client_states[i].read_available \/ "POLLIN" \in pollfds[i].revents)
           /\ Flagged(i).write_available =
                 (client_states[i].write_available \/ "POLLOUT" \in pollfds[i].revents)
           /\ Alternates(Flagged(i)) <=> Alternates(client_states[i])
  <1>1. client_states[i] \in ClientState
    BY DEF TypeOK
  <1>. QED
    BY <1>1 DEF Flagged, ClientState, Alternates

(***************************************************************************)
(* struct client_state over arbitrary sets of counts and buffers: records  *)
(* are updated more easily when their fields' sets are opaque.             *)
(***************************************************************************)
StateOver(D, E) ==
    [in_use : BOOLEAN, read_available : BOOLEAN, write_available : BOOLEAN,
     awaiting_read : BOOLEAN, outgoing_bytes_offset : D,
     n_pending_outgoing_bytes : D, pending_outgoing_bytes : E]

Buffers == {<<>>} \cup {Reply(d) : d \in Digits}

LEMMA ClientStateIsOver == ClientState = StateOver(0..ReplyLen, Buffers)
  BY DEF ClientState, StateOver, Buffers

LEMMA StateUpdates ==
    ASSUME NEW D, NEW E, NEW s \in StateOver(D, E),
           NEW d \in D, NEW n \in D, NEW e \in E, NEW w \in BOOLEAN
    PROVE  /\ [s EXCEPT !.read_available = FALSE,
                        !.pending_outgoing_bytes = e,
                        !.outgoing_bytes_offset = d,
                        !.n_pending_outgoing_bytes = n,
                        !.awaiting_read = FALSE] \in StateOver(D, E)
           /\ [s EXCEPT !.write_available = FALSE,
                        !.n_pending_outgoing_bytes = n] \in StateOver(D, E)
           /\ [s EXCEPT !.outgoing_bytes_offset = d] \in StateOver(D, E)
           /\ [s EXCEPT !.outgoing_bytes_offset = d,
                        !.awaiting_read = TRUE] \in StateOver(D, E)
           /\ [s EXCEPT !.read_available = FALSE] \in StateOver(D, E)
           /\ [s EXCEPT !.write_available = FALSE] \in StateOver(D, E)
           /\ [s EXCEPT !.in_use = w] \in StateOver(D, E)
           /\ [s EXCEPT !.in_use = TRUE,
                        !.awaiting_read = TRUE,
                        !.n_pending_outgoing_bytes = n,
                        !.read_available = FALSE,
                        !.write_available = FALSE] \in StateOver(D, E)
  BY DEF StateOver

LEMMA AfterByteType ==
    ASSUME NEW s \in ClientState, NEW b, Alternates(s), s.in_use
    PROVE  /\ AfterByte(s, b) \in ClientState
           /\ AfterByte(s, b).in_use
           /\ ~AfterByte(s, b).read_available
           /\ AfterByte(s, b).write_available = s.write_available
           /\ Alternates(AfterByte(s, b))
  <1>1. CASE b \in Digits
    <2>1. AfterByte(s, b) \in ClientState
      <3>. DEFINE D == 0..ReplyLen
      <3>1. 0 \in D /\ ReplyLen \in D /\ Reply(b) \in Buffers
        BY <1>1, PollAssumption DEF Buffers
      <3>. HIDE DEF D
      <3>2. s \in StateOver(D, Buffers)
        BY ClientStateIsOver DEF D
      <3>3. AfterByte(s, b) \in StateOver(D, Buffers)
        BY <1>1, <3>1, <3>2, StateUpdates DEF AfterByte
      <3>. QED
        BY <3>3, ClientStateIsOver DEF D
    <2>2. /\ AfterByte(s, b).in_use
          /\ ~AfterByte(s, b).read_available
          /\ AfterByte(s, b).write_available = s.write_available
      BY <1>1 DEF AfterByte, ClientState
    <2>3. /\ ~AfterByte(s, b).awaiting_read
          /\ AfterByte(s, b).n_pending_outgoing_bytes = ReplyLen
          /\ AfterByte(s, b).outgoing_bytes_offset = 0
          /\ AfterByte(s, b).pending_outgoing_bytes = Reply(b)
      BY <1>1 DEF AfterByte, ClientState
    <2>. QED
      BY <1>1, <2>1, <2>2, <2>3, PollAssumption DEF Alternates
  <1>2. CASE b \notin Digits
    <2>1. AfterByte(s, b) = [s EXCEPT !.read_available = FALSE]
      BY <1>2 DEF AfterByte
    <2>2. AfterByte(s, b) \in ClientState
      BY <2>1, StateUpdates, ClientStateIsOver DEF ClientState
    <2>3. /\ AfterByte(s, b).in_use
          /\ ~AfterByte(s, b).read_available
          /\ AfterByte(s, b).write_available = s.write_available
      BY <2>1 DEF ClientState
    <2>4. Alternates(AfterByte(s, b))
      BY <2>1 DEF ClientState, Alternates
    <2>. QED
      BY <2>2, <2>3, <2>4
  <1>. QED
    BY <1>1, <1>2

LEMMA AfterSendType ==
    ASSUME NEW s \in ClientState, Alternates(s), s.in_use,
           CanSend(s), NEW n \in 0..s.n_pending_outgoing_bytes
    PROVE  /\ AfterSend(s, n) \in ClientState
           /\ AfterSend(s, n).in_use
           /\ AfterSend(s, n).read_available = s.read_available
           /\ ~AfterSend(s, n).write_available
           /\ Alternates(AfterSend(s, n))
           /\ SendChunk(s, n) \in Seq(ReplyByte)
           /\ Len(SendChunk(s, n)) = n
  <1>. DEFINE left == s.n_pending_outgoing_bytes - n
              off == s.outgoing_bytes_offset + n
              D == 0..ReplyLen
              t == [s EXCEPT !.write_available = FALSE,
                             !.n_pending_outgoing_bytes = left]
  <1>1. /\ s.n_pending_outgoing_bytes \in Nat
        /\ s.n_pending_outgoing_bytes > 0
        /\ s.outgoing_bytes_offset \in Nat
        /\ ~s.awaiting_read
        /\ s.outgoing_bytes_offset + s.n_pending_outgoing_bytes = ReplyLen
        /\ ReplyLen \in Nat
        /\ n \in Nat
    BY PollAssumption DEF ClientState, CanSend, Alternates
  <1>2. PICK d \in Digits : s.pending_outgoing_bytes = Reply(d)
    BY <1>1 DEF Alternates
  <1>3. left \in D /\ off \in D /\ 0 \in D /\ <<>> \in Buffers
    BY <1>1 DEF Buffers
  <1>4. off + left = ReplyLen
    BY <1>1
  <1>5. AfterSend(s, n) = IF n = 0 THEN t
                          ELSE IF left = 0
                          THEN [t EXCEPT !.outgoing_bytes_offset = 0,
                                         !.awaiting_read = TRUE]
                          ELSE [t EXCEPT !.outgoing_bytes_offset = off]
    <2>1. t.outgoing_bytes_offset = s.outgoing_bytes_offset
      BY DEF ClientState
    <2>. QED
      BY <2>1 DEF AfterSend
  <1>6. SendChunk(s, n) \in Seq(ReplyByte) /\ Len(SendChunk(s, n)) = n
    <2>1. \A k \in (s.outgoing_bytes_offset + 1)..(s.outgoing_bytes_offset + n) :
             k \in 1..ReplyLen
      BY <1>1
    <2>2. \A k \in (s.outgoing_bytes_offset + 1)..(s.outgoing_bytes_offset + n) :
             s.pending_outgoing_bytes[k] \in ReplyByte
      BY <1>2, <2>1, ReplyIsSeq
    <2>3. /\ s.outgoing_bytes_offset + 1 \in Int
          /\ s.outgoing_bytes_offset + n \in Int
      BY <1>1
    <2>4. SendChunk(s, n) \in Seq(ReplyByte)
      BY <2>2, <2>3, SubSeqProperties DEF SendChunk
    <2>5. Len(SendChunk(s, n)) =
             IF s.outgoing_bytes_offset + 1 <= s.outgoing_bytes_offset + n
             THEN (s.outgoing_bytes_offset + n) - (s.outgoing_bytes_offset + 1) + 1
             ELSE 0
      BY <2>2, <2>3, SubSeqProperties DEF SendChunk
    <2>. QED
      BY <1>1, <2>4, <2>5
  <1>7. s.pending_outgoing_bytes = Reply(d) /\ d \in Digits
    BY <1>2
  <1>. HIDE DEF left, off, D
  <1>8. t \in StateOver(D, Buffers)
    <2>1. s \in StateOver(D, Buffers)
      BY ClientStateIsOver DEF D
    <2>. QED
      BY <1>3, <2>1, StateUpdates
  <1>9. /\ t.in_use = s.in_use
        /\ t.read_available = s.read_available
        /\ ~t.write_available
        /\ t.awaiting_read = s.awaiting_read
        /\ t.n_pending_outgoing_bytes = left
        /\ t.outgoing_bytes_offset = s.outgoing_bytes_offset
        /\ t.pending_outgoing_bytes = s.pending_outgoing_bytes
    BY DEF ClientState
  <1>. HIDE DEF t
  <1>10. CASE n = 0
    <2>1. AfterSend(s, n) = t
      BY <1>5, <1>10
    <2>2. left = s.n_pending_outgoing_bytes
      BY <1>1, <1>10 DEF left
    <2>3. Alternates(t)
      BY <1>1, <1>7, <1>9, <2>2 DEF Alternates
    <2>. QED
      BY <1>6, <1>8, <1>9, <2>1, <2>3, ClientStateIsOver DEF D
  <1>11. CASE n # 0 /\ left = 0
    <2>. DEFINE u == [t EXCEPT !.outgoing_bytes_offset = 0, !.awaiting_read = TRUE]
    <2>1. AfterSend(s, n) = u
      BY <1>5, <1>11
    <2>2. u \in StateOver(D, Buffers)
      BY <1>3, <1>8, StateUpdates
    <2>3. /\ u.in_use = t.in_use
          /\ u.read_available = t.read_available
          /\ u.write_available = t.write_available
          /\ u.awaiting_read
          /\ u.n_pending_outgoing_bytes = left
      BY <1>8, <1>9 DEF StateOver
    <2>. HIDE DEF u
    <2>4. Alternates(u)
      BY <1>11, <2>3 DEF Alternates
    <2>. QED
      BY <1>6, <1>9, <2>1, <2>2, <2>3, <2>4, ClientStateIsOver DEF D
  <1>12. CASE n # 0 /\ left # 0
    <2>. DEFINE u == [t EXCEPT !.outgoing_bytes_offset = off]
    <2>1. AfterSend(s, n) = u
      BY <1>5, <1>12
    <2>2. u \in StateOver(D, Buffers)
      BY <1>3, <1>8, StateUpdates
    <2>3. /\ u.in_use = t.in_use
          /\ u.read_available = t.read_available
          /\ u.write_available = t.write_available
          /\ u.awaiting_read = t.awaiting_read
          /\ u.n_pending_outgoing_bytes = left
          /\ u.outgoing_bytes_offset = off
          /\ u.pending_outgoing_bytes = t.pending_outgoing_bytes
      BY <1>8, <1>9 DEF StateOver
    <2>4. left > 0
      BY <1>1, <1>3, <1>12 DEF D
    <2>. HIDE DEF u
    <2>5. Alternates(u)
      BY <1>1, <1>4, <1>7, <1>9, <2>3, <2>4 DEF Alternates
    <2>. QED
      BY <1>6, <1>9, <2>1, <2>2, <2>3, <2>5, ClientStateIsOver DEF D
  <1>. QED
    BY <1>10, <1>11, <1>12

--------------------------------------------------------------------------------
(***************************************************************************)
(* The scan.  However client_handler changes the slot it is called for,    *)
(* the end of the iteration re-establishes the invariant: the other slots  *)
(* hold other connections, so what poll() reported about them still holds. *)
(***************************************************************************)
LEMMA ScanPosition ==
    ASSUME TypeOK, NEW i \in Slots, Scanning(i), Advance
    PROVE  /\ pc' \in {"poll", "scan"}
           /\ slot' \in Slots
           /\ pc' = "poll" => slot' = 0
           /\ \A j \in Slots : Refreshed(j)' <=> j = i \/ Refreshed(j)
  <1>1. slot \in Slots /\ slot = i /\ pc = "scan"
    BY DEF Scanning, TypeOK
  <1>2. CASE slot = MaxClients - 1
    BY <1>1, <1>2, PollAssumption DEF Advance, Slots, Refreshed
  <1>3. CASE slot # MaxClients - 1
    BY <1>1, <1>3, PollAssumption DEF Advance, Slots, Refreshed
  <1>. QED
    BY <1>2, <1>3

LEMMA InterestType == \A s : Interest(s) \in SUBSET {"POLLIN", "POLLOUT"}
  BY DEF Interest

LEMMA UpdateKeepsIInv ==
    ASSUME IInv, NEW i \in Slots, Scanning(i), InUse(i),
           NEW fd, NEW s \in ClientState,
           IF s.in_use THEN fd = pollfds[i].fd ELSE fd = NoFd,
           s.in_use => /\ ~s.read_available
                       /\ ~s.write_available
                       /\ Alternates(s),
           Update(i, fd, s),
           UNCHANGED <<backlog, open, clients>>,
           taken' \in [Conns -> Nat],
           sent' \in [Conns -> Seq(ReplyByte)],
           \A c \in Conns \ {pollfds[i].fd} :
              taken'[c] = taken[c] /\ sent'[c] = sent[c]
    PROVE  IInv'
  <1>. USE SlotsInEntries
  <1>1. TypeOK /\ SlotOwnership /\ Alternation /\ FlagsConsumed /\ ReportsHold
        /\ InterestMatches /\ BacklogFresh
    BY DEF IInv
  <1>2. i \in Entries /\ i # MaxClients
    OBVIOUS
  <1>3. pollfds[i].fd \in open /\ open \subseteq Conns
    BY <1>1 DEF SlotOwnership, TypeOK
  <1>4. /\ pc' \in {"poll", "scan"}
        /\ slot' \in Slots
        /\ pc' = "poll" => slot' = 0
        /\ \A j \in Slots : Refreshed(j)' <=> j = i \/ Refreshed(j)
    BY <1>1, ScanPosition DEF Update
  <1>5. /\ client_states' \in [Entries -> ClientState]
        /\ client_states'[i] = s
        /\ \A j \in Entries : j # i => client_states'[j] = client_states[j]
    BY <1>1, <1>2 DEF Update, TypeOK
  <1>6. [fd |-> fd, events |-> Interest(s), revents |-> {}] \in PollFd
    BY <1>3, InterestType DEF PollFd
  <1>7. /\ pollfds' \in [Entries -> PollFd]
        /\ pollfds'[i] = [fd |-> fd, events |-> Interest(s), revents |-> {}]
        /\ \A j \in Entries : j # i => pollfds'[j] = pollfds[j]
    BY <1>1, <1>2, <1>6 DEF Update, TypeOK
  <1>8. /\ pollfds'[i].fd = fd
        /\ pollfds'[i].events = Interest(s)
        /\ pollfds'[i].revents = {}
    BY <1>7
  <1>9. TypeOK'
    BY <1>1, <1>4, <1>5, <1>7 DEF TypeOK, clients
  <1>10. SlotOwnership'
    <2>1. /\ InUse(i)' <=> s.in_use
          /\ pollfds'[i].fd = IF s.in_use THEN pollfds[i].fd ELSE NoFd
          /\ open' = open
      BY <1>5, <1>8 DEF InUse
    <2>2. \A j \in Slots : j # i => /\ InUse(j)' <=> InUse(j)
                                   /\ pollfds'[j].fd = pollfds[j].fd
      BY <1>5, <1>7 DEF InUse
    <2>3. \A j \in Slots : IF InUse(j)' THEN pollfds'[j].fd \in open'
                           ELSE pollfds'[j].fd = NoFd
      BY <1>1, <1>3, <2>1, <2>2 DEF SlotOwnership
    <2>4. \A j, k \in Slots :
             InUse(j)' /\ InUse(k)' /\ pollfds'[j].fd = pollfds'[k].fd => j = k
      BY <1>1, <2>1, <2>2 DEF SlotOwnership
    <2>. QED
      BY <2>3, <2>4 DEF SlotOwnership
  <1>11. Alternation'
    BY <1>1, <1>5 DEF Alternation, InUse
  <1>12. BacklogFresh'
    BY <1>1 DEF BacklogFresh
  <1>13. FlagsConsumed'
    BY <1>1, <1>5 DEF FlagsConsumed, InUse
  <1>14. ReportsHold'
    <2>1. ASSUME NEW j \in Slots, j # i, InUse(j)
          PROVE  /\ pollfds[j].fd \in Conns \ {pollfds[i].fd}
                 /\ Readable(pollfds[j].fd)' <=> Readable(pollfds[j].fd)
                 /\ Writable(pollfds[j].fd)' <=> Writable(pollfds[j].fd)
      <3>1. pollfds[j].fd \in Conns \ {pollfds[i].fd}
        BY <1>1, <1>3, <2>1 DEF SlotOwnership
      <3>2. pollfds'[j] = pollfds[j]
        BY <1>7, <2>1
      <3>. QED
        BY <3>1, <3>2 DEF Readable, Writable, Room, clients
    <2>2. ASSUME NEW j \in Slots
          PROVE  /\ ~InUse(j)' => pollfds'[j].revents = {}
                 /\ InUse(j)' /\ "POLLIN" \in pollfds'[j].revents =>
                       client_states'[j].awaiting_read /\ Readable(pollfds[j].fd)'
                 /\ InUse(j)' /\ "POLLOUT" \in pollfds'[j].revents =>
                       ~client_states'[j].awaiting_read /\ Writable(pollfds[j].fd)'
      <3>1. CASE j = i
        BY <1>8, <3>1
      <3>2. CASE j # i
        <4>1. pollfds'[j] = pollfds[j] /\ client_states'[j] = client_states[j]
          BY <1>5, <1>7, <3>2
        <4>. QED
          BY <1>1, <2>1, <3>2, <4>1 DEF ReportsHold, InUse
      <3>. QED
        BY <3>1, <3>2
    <2>. QED
      BY <2>2 DEF ReportsHold
  <1>15. InterestMatches'
    <2>1. ASSUME NEW j \in Slots, Refreshed(j)'
          PROVE  /\ pollfds'[j].revents = {}
                 /\ InUse(j)' => pollfds'[j].events = Interest(client_states[j])'
      <3>1. CASE j = i
        BY <1>5, <1>8, <3>1 DEF Interest
      <3>2. CASE j # i
        <4>1. pollfds'[j] = pollfds[j] /\ client_states'[j] = client_states[j]
          BY <1>5, <1>7, <3>2
        <4>2. Refreshed(j)
          BY <1>4, <2>1, <3>2
        <4>. QED
          BY <1>1, <4>1, <4>2 DEF InterestMatches, InUse, Interest
      <3>. QED
        BY <3>1, <3>2
    <2>2. pollfds'[MaxClients] = pollfds[MaxClients]
      BY <1>2, <1>7
    <2>. QED
      BY <1>1, <1>4, <2>1, <2>2 DEF InterestMatches
  <1>. QED
    BY <1>9, <1>10, <1>11, <1>12, <1>13, <1>14, <1>15 DEF IInv

--------------------------------------------------------------------------------
(* The steps of the server. *)

LEMMA InitIInv == Init => IInv
  <1>. SUFFICES ASSUME Init PROVE IInv
    OBVIOUS
  <1>. USE SlotsInEntries
  <1>1. PICK garbage \in BOOLEAN :
           client_states = [i \in Entries |->
              IF i = Phantom THEN [FreeState EXCEPT !.in_use = garbage]
              ELSE FreeState]
    BY DEF Init
  <1>2. FreeState \in ClientState
    <2>1. 0 \in 0..ReplyLen /\ <<>> \in Buffers
      BY PollAssumption DEF Buffers
    <2>. QED
      BY <2>1 DEF FreeState, ClientState, Buffers
  <1>3. [FreeState EXCEPT !.in_use = garbage] \in ClientState
    BY <1>2 DEF ClientState
  <1>4. client_states \in [Entries -> ClientState]
    BY <1>1, <1>2, <1>3
  <1>5. \A i \in Slots : ~InUse(i)
    BY <1>1, PollAssumption DEF InUse, FreeState, Phantom, Slots
  <1>6. pollfds \in [Entries -> PollFd]
    BY DEF Init, PollFd
  <1>7. \A i \in Slots : pollfds[i].fd = NoFd /\ pollfds[i].revents = {}
    BY DEF Init, Slots
  <1>8. TypeOK
    <2>1. <<>> \in Seq(Conns) /\ <<>> \in Seq(Request) /\ <<>> \in Seq(ReplyByte)
      OBVIOUS
    <2>2. /\ asked \in [Conns -> Seq(Request)]
          /\ taken \in [Conns -> Nat]
          /\ sent \in [Conns -> Seq(ReplyByte)]
          /\ got \in [Conns -> Nat]
      BY <2>1 DEF Init
    <2>3. /\ backlog \in Seq(Conns)
          /\ open \in SUBSET Conns
          /\ fin \in SUBSET Conns
          /\ rst \in SUBSET Conns
          /\ pc \in {"poll", "accept", "scan", "killed"}
          /\ slot \in Slots
      BY <2>1 DEF Init
    <2>. QED
      BY <1>4, <1>6, <2>2, <2>3 DEF TypeOK
  <1>9. BacklogFresh
    BY DEF Init, BacklogFresh
  <1>10. InterestMatches
    BY <1>5, <1>7 DEF Init, InterestMatches
  <1>. QED
    BY <1>5, <1>7, <1>8, <1>9, <1>10
       DEF IInv, SlotOwnership, Alternation, FlagsConsumed, ReportsHold

LEMMA ReventsType ==
    ASSUME TypeOK, NEW i \in Entries
    PROVE  Revents(pollfds[i]) \in SUBSET {"POLLIN", "POLLOUT", "POLLERR"}
  BY DEF TypeOK, PollFd, Revents, Ready

LEMMA PollFdUpdate ==
    ASSUME NEW p \in PollFd,
           NEW r \in SUBSET {"POLLIN", "POLLOUT", "POLLERR"},
           NEW d \in Conns
    PROVE  /\ [p EXCEPT !.revents = r] \in PollFd
           /\ [p EXCEPT !.revents = r].fd = p.fd
           /\ [p EXCEPT !.revents = r].events = p.events
           /\ [p EXCEPT !.revents = r].revents = r
           /\ [p EXCEPT !.fd = d] \in PollFd
           /\ [p EXCEPT !.fd = d].fd = d
           /\ [p EXCEPT !.fd = d].events = p.events
           /\ [p EXCEPT !.fd = d].revents = p.revents
  <1>1. p.fd \in Conns \cup {NoFd, Listener}
        /\ p.events \in SUBSET {"POLLIN", "POLLOUT"}
        /\ p.revents \in SUBSET {"POLLIN", "POLLOUT", "POLLERR"}
    BY DEF PollFd
  <1>2. /\ [p EXCEPT !.revents = r].fd = p.fd
        /\ [p EXCEPT !.revents = r].events = p.events
        /\ [p EXCEPT !.revents = r].revents = r
        /\ [p EXCEPT !.fd = d].fd = d
        /\ [p EXCEPT !.fd = d].events = p.events
        /\ [p EXCEPT !.fd = d].revents = p.revents
    BY DEF PollFd
  <1>3. [p EXCEPT !.revents = r] \in PollFd
    BY DEF PollFd
  <1>4. [p EXCEPT !.fd = d] \in PollFd
    BY DEF PollFd
  <1>. QED
    BY <1>2, <1>3, <1>4

LEMMA PollStep == IInv /\ Poll => IInv'
  <1>. SUFFICES ASSUME IInv, Poll PROVE IInv'
    OBVIOUS
  <1>. USE SlotsInEntries
  <1>1. TypeOK /\ SlotOwnership /\ Alternation /\ FlagsConsumed /\ ReportsHold
        /\ InterestMatches /\ BacklogFresh
    BY DEF IInv
  <1>2. /\ pollfds' \in [Entries -> PollFd]
        /\ \A i \in Entries : /\ pollfds'[i].fd = pollfds[i].fd
                              /\ pollfds'[i].events = pollfds[i].events
                              /\ pollfds'[i].revents = Revents(pollfds[i])
    <2>1. \A i \in Entries :
             /\ pollfds[i] \in PollFd
             /\ Revents(pollfds[i]) \in SUBSET {"POLLIN", "POLLOUT", "POLLERR"}
      BY <1>1, ReventsType DEF TypeOK
    <2>2. \A i \in Entries :
             pollfds'[i] = [pollfds[i] EXCEPT !.revents = Revents(pollfds[i])]
      BY DEF Poll
    <2>3. \A i \in Entries : /\ pollfds'[i] \in PollFd
                             /\ pollfds'[i].fd = pollfds[i].fd
                             /\ pollfds'[i].events = pollfds[i].events
                             /\ pollfds'[i].revents = Revents(pollfds[i])
      <3>. TAKE i \in Entries
      <3>. DEFINE r == Revents(pollfds[i])
      <3>. HIDE DEF r
      <3>1. pollfds[i] \in PollFd /\ r \in SUBSET {"POLLIN", "POLLOUT", "POLLERR"}
        BY <2>1 DEF r
      <3>2. pollfds'[i] = [pollfds[i] EXCEPT !.revents = r]
        BY <2>2 DEF r
      <3>3. /\ [pollfds[i] EXCEPT !.revents = r] \in PollFd
            /\ [pollfds[i] EXCEPT !.revents = r].fd = pollfds[i].fd
            /\ [pollfds[i] EXCEPT !.revents = r].events = pollfds[i].events
            /\ [pollfds[i] EXCEPT !.revents = r].revents = r
        BY <3>1 DEF PollFd
      <3>. QED
        BY <3>2, <3>3 DEF r
    <2>4. pollfds' = [i \in Entries |-> pollfds'[i]]
      BY DEF Poll
    <2>. QED
      BY <2>3, <2>4
  <1>3. /\ UNCHANGED <<client_states, slot, kernel, clients>>
        /\ pc = "poll"
        /\ pc' \in {"accept", "scan"}
    BY DEF Poll
  <1>4. TypeOK'
    BY <1>1, <1>2, <1>3 DEF TypeOK, kernel, clients
  <1>5. SlotOwnership'
    BY <1>1, <1>2, <1>3 DEF SlotOwnership, InUse, kernel
  <1>6. Alternation' /\ FlagsConsumed' /\ BacklogFresh'
    BY <1>1, <1>3 DEF Alternation, FlagsConsumed, BacklogFresh, InUse, kernel
  <1>7. ReportsHold'
    <2>1. ASSUME NEW i \in Slots
          PROVE  /\ ~InUse(i) => Revents(pollfds[i]) = {}
                 /\ InUse(i) /\ "POLLIN" \in Revents(pollfds[i]) =>
                       client_states[i].awaiting_read /\ Readable(pollfds[i].fd)
                 /\ InUse(i) /\ "POLLOUT" \in Revents(pollfds[i]) =>
                       ~client_states[i].awaiting_read /\ Writable(pollfds[i].fd)
      <3>1. ~InUse(i) => Revents(pollfds[i]) = {}
        BY <1>1 DEF SlotOwnership, Revents, Ready
      <3>2. ASSUME InUse(i)
            PROVE  /\ pollfds[i].fd \in Conns
                   /\ pollfds[i].fd # NoFd /\ pollfds[i].fd # Listener
                   /\ pollfds[i].events = Interest(client_states[i])
                   /\ Alternates(client_states[i])
        BY <1>1, <1>3, <3>2, PollAssumption
           DEF SlotOwnership, TypeOK, InterestMatches, Refreshed, Alternation
      <3>3. ASSUME InUse(i), "POLLIN" \in Revents(pollfds[i])
            PROVE  client_states[i].awaiting_read /\ Readable(pollfds[i].fd)
        BY <3>2, <3>3 DEF Revents, Ready, Interest
      <3>4. ASSUME InUse(i), "POLLOUT" \in Revents(pollfds[i])
            PROVE  ~client_states[i].awaiting_read /\ Writable(pollfds[i].fd)
        BY <3>2, <3>4 DEF Revents, Ready, Interest, Alternates
      <3>. QED
        BY <3>1, <3>3, <3>4
    <2>2. \A c : /\ Readable(c)' <=> Readable(c)
                 /\ Writable(c)' <=> Writable(c)
      BY <1>3 DEF Readable, Writable, Room, kernel, clients
    <2>. QED
      BY <1>2, <1>3, <2>1, <2>2 DEF ReportsHold, InUse
  <1>8. InterestMatches'
    <2>1. slot' = 0
      BY <1>1, <1>3 DEF InterestMatches
    <2>2. \A i \in Slots : ~Refreshed(i)'
      BY <1>3, <2>1 DEF Refreshed, Slots
    <2>. QED
      BY <1>1, <1>2, <2>1, <2>2 DEF InterestMatches
  <1>. QED
    BY <1>4, <1>5, <1>6, <1>7, <1>8 DEF IInv

LEMMA TakeFromBacklog ==
    ASSUME TypeOK, BacklogFresh, backlog # <<>>,
           backlog' = Tail(backlog), open' = open \cup {Head(backlog)}
    PROVE  /\ Head(backlog) \in Conns
           /\ Head(backlog) \notin open
           /\ backlog' \in Seq(Conns)
           /\ open' \in SUBSET Conns
           /\ BacklogFresh'
  <1>1. backlog \in Seq(Conns) /\ open \in SUBSET Conns
    BY DEF TypeOK
  <1>2. Len(backlog) \in Nat \ {0}
    BY <1>1, EmptySeq
  <1>3. Head(backlog) = backlog[1]
    BY <1>1, <1>2
  <1>4. /\ Head(backlog) \in Conns
        /\ Tail(backlog) \in Seq(Conns)
        /\ Len(Tail(backlog)) = Len(backlog) - 1
        /\ \A k \in 1..Len(Tail(backlog)) : Tail(backlog)[k] = backlog[k + 1]
    BY <1>1, HeadTailProperties
  <1>5. 1 \in 1..Len(backlog)
    BY <1>2
  <1>6. Head(backlog) \notin open
    BY <1>3, <1>5 DEF BacklogFresh
  <1>7. \A k \in 1..Len(Tail(backlog)) : k + 1 \in 1..Len(backlog) /\ k + 1 # 1
    BY <1>2, <1>4
  <1>8. ASSUME NEW k \in 1..Len(backlog')
        PROVE  /\ backlog'[k] \notin open'
               /\ \A j \in 1..Len(backlog') : backlog'[j] = backlog'[k] => j = k
    <2>1. k \in 1..Len(Tail(backlog))
      BY <1>8
    <2>2. backlog[k + 1] \notin open /\ backlog[k + 1] # backlog[1]
      BY <1>5, <1>7, <2>1 DEF BacklogFresh
    <2>3. backlog'[k] \notin open'
      BY <1>3, <1>4, <2>1, <2>2
    <2>4. ASSUME NEW j \in 1..Len(backlog'), backlog'[j] = backlog'[k]
          PROVE  j = k
      <3>1. j \in 1..Len(Tail(backlog))
        BY <2>4
      <3>2. backlog[j + 1] = backlog[k + 1]
        BY <1>4, <2>1, <2>4, <3>1
      <3>3. j + 1 = k + 1
        BY <1>7, <2>1, <3>1, <3>2 DEF BacklogFresh
      <3>. QED
        BY <1>2, <1>4, <2>1, <3>1, <3>3
    <2>. QED
      BY <2>3, <2>4
  <1>. QED
    BY <1>1, <1>4, <1>6, <1>8 DEF BacklogFresh

(***************************************************************************)
(* The accept part of an iteration, whatever became of the connection:     *)
(* at most one free slot i receives a connection that was in no slot.      *)
(***************************************************************************)
LEMMA AcceptKeepsIInv ==
    ASSUME IInv, pc = "accept", pc' = "scan",
           UNCHANGED <<slot, taken, sent, clients>>,
           pollfds' \in [Entries -> PollFd],
           client_states' \in [Entries -> ClientState],
           backlog' \in Seq(Conns), open' \in SUBSET Conns, BacklogFresh',
           open \subseteq open',
           pollfds'[MaxClients].events = pollfds[MaxClients].events,
           \A j \in Slots : pollfds'[j].revents = pollfds[j].revents,
           NEW i \in Entries,
           \A j \in Slots \ {i} : /\ client_states'[j] = client_states[j]
                                  /\ pollfds'[j].fd = pollfds[j].fd,
           i \in Slots => /\ ~InUse(i)
                          /\ client_states'[i].in_use
                          /\ client_states'[i].awaiting_read
                          /\ ~client_states'[i].read_available
                          /\ ~client_states'[i].write_available
                          /\ client_states'[i].n_pending_outgoing_bytes = 0
                          /\ pollfds'[i].fd \in open' \ open
    PROVE  IInv'
  <1>. USE SlotsInEntries
  <1>1. TypeOK /\ SlotOwnership /\ Alternation /\ FlagsConsumed /\ ReportsHold
        /\ InterestMatches /\ BacklogFresh
    BY DEF IInv
  <1>2. TypeOK'
    BY <1>1 DEF TypeOK, clients
  <1>3. \A j \in Slots \ {i} : InUse(j)' <=> InUse(j)
    BY DEF InUse
  <1>4. i \in Slots => InUse(i)'
    BY DEF InUse
  <1>5. SlotOwnership'
    <2>1. \A j \in Slots : IF InUse(j)' THEN pollfds'[j].fd \in open'
                           ELSE pollfds'[j].fd = NoFd
      BY <1>1, <1>3, <1>4 DEF SlotOwnership
    <2>2. \A j, k \in Slots :
             InUse(j)' /\ InUse(k)' /\ pollfds'[j].fd = pollfds'[k].fd => j = k
      BY <1>1, <1>3, <1>4 DEF SlotOwnership
    <2>. QED
      BY <2>1, <2>2 DEF SlotOwnership
  <1>6. Alternation'
    BY <1>1, <1>3 DEF Alternation, Alternates, InUse
  <1>7. FlagsConsumed'
    BY <1>1, <1>3 DEF FlagsConsumed
  <1>8. ReportsHold'
    <2>1. \A c : /\ Readable(c)' <=> Readable(c)
                 /\ Writable(c)' <=> Writable(c)
      BY DEF Readable, Writable, Room, clients
    <2>2. i \in Slots => pollfds'[i].revents = {}
      BY <1>1 DEF ReportsHold
    <2>. QED
      BY <1>1, <1>3, <2>1, <2>2 DEF ReportsHold
  <1>9. InterestMatches'
    <2>1. slot' = 0
      BY <1>1 DEF InterestMatches
    <2>2. \A j \in Slots : ~Refreshed(j)'
      BY <2>1 DEF Refreshed, Slots
    <2>. QED
      BY <1>1, <2>1, <2>2 DEF InterestMatches
  <1>. QED
    BY <1>2, <1>5, <1>6, <1>7, <1>8, <1>9 DEF IInv

\* Clearing the listener's revents (line 143) touches no slot.
LEMMA ClearListener ==
    ASSUME TypeOK, NEW p \in [Entries -> PollFd]
    PROVE  /\ [p EXCEPT ![MaxClients].revents = {}] \in [Entries -> PollFd]
           /\ [p EXCEPT ![MaxClients].revents = {}][MaxClients].events =
                 p[MaxClients].events
           /\ \A j \in Slots :
                 [p EXCEPT ![MaxClients].revents = {}][j] = p[j]
  BY SlotsInEntries, PollFdUpdate DEF PollFd

LEMMA AcceptFailsStep == IInv /\ AcceptFails => IInv'
  <1>. SUFFICES ASSUME IInv, AcceptFails PROVE IInv'
    OBVIOUS
  <1>. USE SlotsInEntries
  <1>1. TypeOK /\ BacklogFresh
    BY DEF IInv
  <1>2. /\ pollfds' \in [Entries -> PollFd]
        /\ pollfds'[MaxClients].events = pollfds[MaxClients].events
        /\ \A j \in Slots : pollfds'[j] = pollfds[j]
    BY <1>1, ClearListener DEF AcceptFails, TypeOK
  <1>3. /\ client_states' \in [Entries -> ClientState]
        /\ backlog' \in Seq(Conns)
        /\ open' \in SUBSET Conns
        /\ BacklogFresh'
        /\ open \subseteq open'
    BY <1>1 DEF AcceptFails, TypeOK, BacklogFresh, kernel
  <1>4. /\ pc = "accept" /\ pc' = "scan"
        /\ UNCHANGED <<client_states, slot, taken, sent, clients>>
    BY DEF AcceptFails, kernel
  <1>. QED
    BY <1>2, <1>3, <1>4, AcceptKeepsIInv

LEMMA AcceptNoSlotStep == IInv /\ AcceptNoSlot => IInv'
  <1>. SUFFICES ASSUME IInv, AcceptNoSlot PROVE IInv'
    OBVIOUS
  <1>. USE SlotsInEntries
  <1>1. TypeOK /\ BacklogFresh
    BY DEF IInv
  <1>2. /\ pollfds' \in [Entries -> PollFd]
        /\ pollfds'[MaxClients].events = pollfds[MaxClients].events
        /\ \A j \in Slots : pollfds'[j] = pollfds[j]
    BY <1>1, ClearListener DEF AcceptNoSlot, TypeOK
  <1>3. /\ client_states' \in [Entries -> ClientState]
        /\ backlog' \in Seq(Conns)
        /\ open' \in SUBSET Conns
        /\ BacklogFresh'
        /\ open \subseteq open'
    BY <1>1, TakeFromBacklog DEF AcceptNoSlot, TypeOK
  <1>4. /\ pc = "accept" /\ pc' = "scan"
        /\ UNCHANGED <<client_states, slot, taken, sent, clients>>
    BY DEF AcceptNoSlot
  <1>. QED
    BY <1>2, <1>3, <1>4, AcceptKeepsIInv

LEMMA AcceptIntoStep == ASSUME NEW i \in Entries PROVE IInv /\ AcceptInto(i) => IInv'
  <1>. SUFFICES ASSUME IInv, AcceptInto(i) PROVE IInv'
    OBVIOUS
  <1>. USE SlotsInEntries
  <1>. DEFINE c == Head(backlog)
              p == [pollfds EXCEPT ![i].fd = c]
              s == client_states[i]
  <1>1. TypeOK /\ BacklogFresh
    BY DEF IInv
  <1>2. /\ c \in Conns /\ c \notin open
        /\ backlog' \in Seq(Conns)
        /\ open' \in SUBSET Conns
        /\ BacklogFresh'
        /\ open' = open \cup {c}
    BY <1>1, TakeFromBacklog DEF AcceptInto
  <1>3. /\ p \in [Entries -> PollFd]
        /\ p[i].fd = c
        /\ \A j \in Entries : /\ p[j].events = pollfds[j].events
                              /\ p[j].revents = pollfds[j].revents
                              /\ j # i => p[j] = pollfds[j]
    <2>1. pollfds \in [Entries -> PollFd]
      BY <1>1 DEF TypeOK
    <2>2. [pollfds[i] EXCEPT !.fd = c] \in PollFd
      BY <1>2, <2>1 DEF PollFd
    <2>. QED
      BY <2>1, <2>2 DEF PollFd
  <1>4. pollfds' = [p EXCEPT ![MaxClients].revents = {}]
    BY DEF AcceptInto
  <1>. HIDE DEF p
  <1>5. /\ pollfds' \in [Entries -> PollFd]
        /\ pollfds'[MaxClients].events = pollfds[MaxClients].events
        /\ \A j \in Slots : pollfds'[j].revents = pollfds[j].revents
        /\ \A j \in Slots \ {i} : pollfds'[j].fd = pollfds[j].fd
        /\ i \in Slots => pollfds'[i].fd = c
    BY <1>1, <1>3, <1>4, ClearListener
  <1>6. /\ s \in ClientState /\ ~s.in_use
        /\ client_states \in [Entries -> ClientState]
    BY <1>1 DEF AcceptInto, FirstUnused, Unused, TypeOK
  <1>7. client_states' = [client_states EXCEPT ![i] =
             [s EXCEPT !.in_use = TRUE,
                       !.awaiting_read = TRUE,
                       !.n_pending_outgoing_bytes = 0,
                       !.read_available = FALSE,
                       !.write_available = FALSE]]
    BY <1>6 DEF AcceptInto, Fresh
  <1>8. [s EXCEPT !.in_use = TRUE,
                  !.awaiting_read = TRUE,
                  !.n_pending_outgoing_bytes = 0,
                  !.read_available = FALSE,
                  !.write_available = FALSE] \in ClientState
    <2>. DEFINE D == 0..ReplyLen
    <2>1. 0 \in D /\ <<>> \in Buffers /\ s \in StateOver(D, Buffers)
      BY <1>6, ClientStateIsOver, PollAssumption DEF Buffers
    <2>. HIDE DEF D
    <2>2. [s EXCEPT !.in_use = TRUE,
                    !.awaiting_read = TRUE,
                    !.n_pending_outgoing_bytes = 0,
                    !.read_available = FALSE,
                    !.write_available = FALSE] \in StateOver(D, Buffers)
      BY <2>1, StateUpdates
    <2>. QED
      BY <2>2, ClientStateIsOver DEF D
  <1>9. /\ client_states' \in [Entries -> ClientState]
        /\ \A j \in Slots \ {i} : client_states'[j] = client_states[j]
        /\ client_states'[i].in_use
        /\ client_states'[i].awaiting_read
        /\ ~client_states'[i].read_available
        /\ ~client_states'[i].write_available
        /\ client_states'[i].n_pending_outgoing_bytes = 0
    BY <1>6, <1>7, <1>8 DEF ClientState
  <1>10. /\ pc = "accept" /\ pc' = "scan"
         /\ UNCHANGED <<slot, taken, sent, clients>>
    BY DEF AcceptInto
  <1>11. ~InUse(i)
    BY <1>6 DEF InUse
  <1>12. i \in Slots => pollfds'[i].fd \in open' \ open
    BY <1>2, <1>5
  <1>13. open \subseteq open'
    BY <1>2
  <1>. QED
    BY <1>2, <1>5, <1>9, <1>10, <1>11, <1>12, <1>13, AcceptKeepsIInv

(***************************************************************************)
(* The receiving half of client_handler.                                   *)
(***************************************************************************)
LEMMA CallFacts ==
    ASSUME IInv, NEW i \in Slots, Calling(i)
    PROVE  /\ InUse(i) /\ Scanning(i)
           /\ pollfds[i].fd \in Conns
           /\ Flagged(i) \in ClientState
           /\ Flagged(i).in_use
           /\ Alternates(Flagged(i))
           /\ Flagged(i).awaiting_read = client_states[i].awaiting_read
           /\ Flagged(i).read_available <=> "POLLIN" \in pollfds[i].revents
           /\ Flagged(i).write_available <=> "POLLOUT" \in pollfds[i].revents
           /\ Flagged(i).read_available =>
                 Flagged(i).awaiting_read /\ Readable(pollfds[i].fd)
           /\ Flagged(i).write_available =>
                 ~Flagged(i).awaiting_read /\ Writable(pollfds[i].fd)
  <1>. USE SlotsInEntries
  <1>1. TypeOK /\ SlotOwnership /\ Alternation /\ FlagsConsumed /\ ReportsHold
    BY DEF IInv
  <1>2. InUse(i) /\ Scanning(i)
    BY DEF Calling, InUse
  <1>3. pollfds[i].fd \in Conns
    BY <1>1, <1>2 DEF SlotOwnership, TypeOK
  <1>4. /\ ~client_states[i].read_available
        /\ ~client_states[i].write_available
        /\ Alternates(client_states[i])
        /\ client_states[i].in_use
    BY <1>1, <1>2 DEF FlagsConsumed, Alternation, InUse
  <1>5. /\ "POLLIN" \in pollfds[i].revents =>
              client_states[i].awaiting_read /\ Readable(pollfds[i].fd)
        /\ "POLLOUT" \in pollfds[i].revents =>
              ~client_states[i].awaiting_read /\ Writable(pollfds[i].fd)
    BY <1>1, <1>2 DEF ReportsHold
  <1>. QED
    BY <1>1, <1>2, <1>3, <1>4, <1>5, FlaggedType

LEMMA ReceivedFacts ==
    ASSUME IInv, NEW i \in Slots, Calling(i)
    PROVE  /\ Received(i) \in ClientState
           /\ Received(i).in_use
           /\ ~Received(i).read_available
           /\ Received(i).write_available <=> Flagged(i).write_available
           /\ Alternates(Received(i))
           /\ Received(i).write_available <=> CanSend(Received(i))
           /\ CanSend(Received(i)) => Received(i) = Flagged(i)
  <1>. DEFINE f == Flagged(i)
              b == asked[pollfds[i].fd][taken[pollfds[i].fd] + 1]
  <1>1. /\ f \in ClientState
        /\ f.in_use
        /\ Alternates(f)
        /\ f.read_available => f.awaiting_read
        /\ f.write_available => ~f.awaiting_read
    BY CallFacts
  <1>2. Received(i) = IF ~CanRecv(f) THEN f
                      ELSE IF HasByte(pollfds[i].fd) THEN AfterByte(f, b)
                      ELSE [f EXCEPT !.read_available = FALSE]
    BY DEF Received
  <1>. HIDE DEF f, b
  <1>3. CASE ~CanRecv(f)
    <2>1. Received(i) = f
      BY <1>2, <1>3
    <2>2. ~f.read_available
      BY <1>1, <1>3 DEF CanRecv
    <2>3. f.write_available <=> CanSend(f)
      BY <1>1 DEF CanSend, Alternates
    <2>. QED
      BY <1>1, <2>1, <2>2, <2>3 DEF f
  <1>4. CASE CanRecv(f) /\ HasByte(pollfds[i].fd)
    <2>1. Received(i) = AfterByte(f, b)
      BY <1>2, <1>4
    <2>2. ~f.write_available
      BY <1>1, <1>4 DEF CanRecv
    <2>3. /\ AfterByte(f, b) \in ClientState
          /\ AfterByte(f, b).in_use
          /\ ~AfterByte(f, b).read_available
          /\ AfterByte(f, b).write_available = f.write_available
          /\ Alternates(AfterByte(f, b))
      BY <1>1, AfterByteType
    <2>. QED
      BY <2>1, <2>2, <2>3 DEF CanSend, f
  <1>5. CASE CanRecv(f) /\ ~HasByte(pollfds[i].fd)
    <2>1. Received(i) = [f EXCEPT !.read_available = FALSE]
      BY <1>2, <1>5
    <2>2. ~f.write_available
      BY <1>1, <1>5 DEF CanRecv
    <2>3. [f EXCEPT !.read_available = FALSE] \in ClientState
      BY <1>1 DEF ClientState
    <2>4. /\ [f EXCEPT !.read_available = FALSE].in_use
          /\ ~[f EXCEPT !.read_available = FALSE].read_available
          /\ [f EXCEPT !.read_available = FALSE].write_available = f.write_available
      BY <1>1 DEF ClientState
    <2>5. Alternates([f EXCEPT !.read_available = FALSE])
      BY <1>1 DEF ClientState, Alternates
    <2>. QED
      BY <2>1, <2>2, <2>3, <2>4, <2>5 DEF CanSend, f
  <1>. QED
    BY <1>3, <1>4, <1>5

LEMMA RecvDoneFacts ==
    ASSUME IInv, NEW i \in Slots, RecvDone(i)
    PROVE  /\ Calling(i)
           /\ taken' \in [Conns -> Nat]
           /\ \A c \in Conns \ {pollfds[i].fd} : taken'[c] = taken[c]
  <1>1. taken \in [Conns -> Nat]
    BY DEF IInv, TypeOK
  <1>2. Consumed(i) \in Nat
    BY DEF Consumed
  <1>3. taken' = [taken EXCEPT ![pollfds[i].fd] = @ + Consumed(i)]
    BY DEF RecvDone
  <1>4. pollfds[i].fd \in Conns
    BY CallFacts DEF RecvDone
  <1>5. taken[pollfds[i].fd] + Consumed(i) \in Nat
    BY <1>1, <1>2, <1>4
  <1>6. taken' \in [Conns -> Nat]
    BY <1>1, <1>3, <1>5
  <1>. QED
    BY <1>1, <1>3, <1>6 DEF RecvDone

LEMMA ScanFreeStep ==
    ASSUME NEW i \in Slots PROVE IInv /\ ScanFree(i) => IInv'
  <1>. SUFFICES ASSUME IInv, ScanFree(i) PROVE IInv'
    OBVIOUS
  <1>. USE SlotsInEntries
  <1>1. TypeOK /\ SlotOwnership /\ Alternation /\ FlagsConsumed /\ ReportsHold
        /\ InterestMatches /\ BacklogFresh
    BY DEF IInv
  <1>2. /\ pc' \in {"poll", "scan"}
        /\ slot' \in Slots
        /\ pc' = "poll" => slot' = 0
        /\ \A j \in Slots : Refreshed(j)' <=> j = i \/ Refreshed(j)
    BY <1>1, ScanPosition DEF ScanFree
  <1>3. UNCHANGED <<pollfds, client_states, kernel, clients>>
    BY DEF ScanFree
  <1>4. TypeOK'
    BY <1>1, <1>2, <1>3 DEF TypeOK, kernel, clients
  <1>5. SlotOwnership' /\ Alternation' /\ FlagsConsumed' /\ BacklogFresh'
    BY <1>1, <1>3
       DEF SlotOwnership, Alternation, FlagsConsumed, BacklogFresh, InUse, kernel
  <1>6. ReportsHold'
    BY <1>1, <1>3
       DEF ReportsHold, Readable, Writable, Room, InUse, kernel, clients
  <1>7. ~InUse(i) /\ pollfds[i].revents = {}
    BY <1>1 DEF ScanFree, InUse, ReportsHold
  <1>8. InterestMatches'
    BY <1>1, <1>2, <1>3, <1>7 DEF InterestMatches, InUse
  <1>. QED
    BY <1>4, <1>5, <1>6, <1>8 DEF IInv

LEMMA ScanIdleStep ==
    ASSUME NEW i \in Slots PROVE IInv /\ ScanIdle(i) => IInv'
  <1>. SUFFICES ASSUME IInv, ScanIdle(i) PROVE IInv'
    OBVIOUS
  <1>. USE SlotsInEntries
  <1>1. InUse(i) /\ Scanning(i)
    BY DEF ScanIdle, InUse
  <1>2. /\ client_states[i] \in ClientState
        /\ client_states[i].in_use
        /\ ~client_states[i].read_available
        /\ ~client_states[i].write_available
        /\ Alternates(client_states[i])
    BY <1>1 DEF IInv, TypeOK, FlagsConsumed, Alternation, InUse
  <1>3. /\ Update(i, pollfds[i].fd, client_states[i])
        /\ UNCHANGED <<backlog, open, taken, sent, clients>>
    BY DEF ScanIdle, Keep, kernel
  <1>4. taken' \in [Conns -> Nat] /\ sent' \in [Conns -> Seq(ReplyByte)]
    BY <1>3 DEF IInv, TypeOK
  <1>. QED
    BY <1>1, <1>2, <1>3, <1>4, UpdateKeepsIInv

\* A freed slot: only in_use distinguishes its state.
LEMMA FreedType ==
    ASSUME NEW s \in ClientState
    PROVE  /\ [s EXCEPT !.in_use = FALSE] \in ClientState
           /\ ~[s EXCEPT !.in_use = FALSE].in_use
           /\ [s EXCEPT !.read_available = FALSE] \in ClientState
           /\ [s EXCEPT !.write_available = FALSE] \in ClientState
  <1>1. [s EXCEPT !.in_use = FALSE] \in ClientState
    BY DEF ClientState
  <1>2. ~[s EXCEPT !.in_use = FALSE].in_use
    BY DEF ClientState
  <1>3. [s EXCEPT !.read_available = FALSE] \in ClientState
    BY DEF ClientState
  <1>4. [s EXCEPT !.write_available = FALSE] \in ClientState
    BY DEF ClientState
  <1>. QED
    BY <1>1, <1>2, <1>3, <1>4

LEMMA RecvEndsStep ==
    ASSUME NEW i \in Slots PROVE IInv /\ RecvEnds(i) => IInv'
  <1>. SUFFICES ASSUME IInv, RecvEnds(i) PROVE IInv'
    OBVIOUS
  <1>. DEFINE s == [[Flagged(i) EXCEPT !.read_available = FALSE]
                              EXCEPT !.in_use = FALSE]
  <1>1. Calling(i)
    BY DEF RecvEnds
  <1>2. InUse(i) /\ Scanning(i) /\ Flagged(i) \in ClientState
    BY <1>1, CallFacts
  <1>3. s \in ClientState /\ ~s.in_use
    BY <1>2, FreedType
  <1>4. /\ Update(i, NoFd, s)
        /\ UNCHANGED <<backlog, open, taken, sent, clients>>
    BY DEF RecvEnds, Drop, kernel
  <1>5. taken' \in [Conns -> Nat] /\ sent' \in [Conns -> Seq(ReplyByte)]
    BY <1>4 DEF IInv, TypeOK
  <1>. HIDE DEF s
  <1>. QED
    BY <1>2, <1>3, <1>4, <1>5, UpdateKeepsIInv

LEMMA HandleRecvStep ==
    ASSUME NEW i \in Slots PROVE IInv /\ HandleRecv(i) => IInv'
  <1>. SUFFICES ASSUME IInv, HandleRecv(i) PROVE IInv'
    OBVIOUS
  <1>1. /\ Calling(i)
        /\ taken' \in [Conns -> Nat]
        /\ \A c \in Conns \ {pollfds[i].fd} : taken'[c] = taken[c]
    BY RecvDoneFacts DEF HandleRecv
  <1>2. InUse(i) /\ Scanning(i)
    BY <1>1, CallFacts
  <1>3. /\ Received(i) \in ClientState
        /\ Received(i).in_use
        /\ ~Received(i).read_available
        /\ ~Received(i).write_available
        /\ Alternates(Received(i))
    BY <1>1, ReceivedFacts DEF HandleRecv
  <1>4. /\ Update(i, pollfds[i].fd, Received(i))
        /\ UNCHANGED <<backlog, open, sent, clients>>
    BY DEF HandleRecv, Keep
  <1>5. sent' \in [Conns -> Seq(ReplyByte)]
    BY <1>4 DEF IInv, TypeOK
  <1>. QED
    BY <1>1, <1>2, <1>3, <1>4, <1>5, UpdateKeepsIInv

LEMMA HandleSendStep ==
    ASSUME NEW i \in Slots PROVE IInv /\ HandleSend(i) => IInv'
  <1>. SUFFICES ASSUME IInv, HandleSend(i) PROVE IInv'
    OBVIOUS
  <1>. DEFINE c == pollfds[i].fd
              s == Received(i)
  <1>1. /\ Calling(i)
        /\ taken' \in [Conns -> Nat]
        /\ \A d \in Conns \ {c} : taken'[d] = taken[d]
    BY RecvDoneFacts DEF HandleSend
  <1>2. InUse(i) /\ Scanning(i) /\ c \in Conns
    BY <1>1, CallFacts
  <1>3. /\ s \in ClientState
        /\ s.in_use
        /\ ~s.read_available
        /\ Alternates(s)
    BY <1>1, ReceivedFacts
  <1>4. /\ CanSend(s)
        /\ UNCHANGED <<backlog, open, clients>>
    BY DEF HandleSend
  <1>5. PICK n \in Accepted(c, s) :
           /\ sent' = [sent EXCEPT ![c] = @ \o SendChunk(s, n)]
           /\ Update(i, c, AfterSend(s, n))
    BY DEF HandleSend, Keep
  <1>6. n \in 0..s.n_pending_outgoing_bytes
    BY <1>3, <1>5 DEF Accepted, ClientState
  <1>. HIDE DEF s
  <1>7. /\ AfterSend(s, n) \in ClientState
        /\ AfterSend(s, n).in_use
        /\ ~AfterSend(s, n).read_available
        /\ ~AfterSend(s, n).write_available
        /\ Alternates(AfterSend(s, n))
        /\ SendChunk(s, n) \in Seq(ReplyByte)
    BY <1>3, <1>4, <1>6, AfterSendType
  <1>8. /\ sent' \in [Conns -> Seq(ReplyByte)]
        /\ \A d \in Conns \ {c} : sent'[d] = sent[d]
    <2>1. sent \in [Conns -> Seq(ReplyByte)]
      BY DEF IInv, TypeOK
    <2>2. sent[c] \o SendChunk(s, n) \in Seq(ReplyByte)
      BY <1>2, <1>7, <2>1
    <2>. QED
      BY <1>5, <2>1, <2>2
  <1>. QED
    BY <1>1, <1>2, <1>4, <1>5, <1>7, <1>8, UpdateKeepsIInv

LEMMA SendFailsStep ==
    ASSUME NEW i \in Slots PROVE IInv /\ SendFails(i) => IInv'
  <1>. SUFFICES ASSUME IInv, SendFails(i) PROVE IInv'
    OBVIOUS
  <1>. DEFINE s == [[Received(i) EXCEPT !.write_available = FALSE]
                               EXCEPT !.in_use = FALSE]
  <1>1. /\ Calling(i)
        /\ taken' \in [Conns -> Nat]
        /\ \A d \in Conns \ {pollfds[i].fd} : taken'[d] = taken[d]
    BY RecvDoneFacts DEF SendFails
  <1>2. InUse(i) /\ Scanning(i)
    BY <1>1, CallFacts
  <1>3. s \in ClientState /\ ~s.in_use
    BY <1>1, ReceivedFacts, FreedType
  <1>4. /\ Update(i, NoFd, s)
        /\ UNCHANGED <<backlog, open, sent, clients>>
    BY DEF SendFails, Drop
  <1>5. sent' \in [Conns -> Seq(ReplyByte)]
    BY <1>4 DEF IInv, TypeOK
  <1>. HIDE DEF s
  <1>. QED
    BY <1>1, <1>2, <1>3, <1>4, <1>5, UpdateKeepsIInv

LEMMA SendKillsStep ==
    ASSUME NEW i \in Slots PROVE IInv /\ SendKills(i) => IInv'
  <1>. SUFFICES ASSUME IInv, SendKills(i) PROVE IInv'
    OBVIOUS
  <1>. USE SlotsInEntries
  <1>1. TypeOK /\ SlotOwnership /\ Alternation /\ FlagsConsumed /\ ReportsHold
        /\ InterestMatches /\ BacklogFresh
    BY DEF IInv
  <1>2. Calling(i) /\ taken' \in [Conns -> Nat]
    BY RecvDoneFacts DEF SendKills
  <1>3. /\ UNCHANGED <<pollfds, client_states, slot, backlog, open, sent, clients>>
        /\ pc' = "killed"
    BY DEF SendKills
  <1>4. TypeOK'
    BY <1>1, <1>2, <1>3 DEF TypeOK, clients
  <1>5. SlotOwnership' /\ Alternation' /\ FlagsConsumed' /\ BacklogFresh'
    BY <1>1, <1>3
       DEF SlotOwnership, Alternation, FlagsConsumed, BacklogFresh, InUse
  <1>6. taken' = taken
    <2>1. CanSend(Received(i)) /\ taken' = [taken EXCEPT ![pollfds[i].fd] = @ + Consumed(i)]
      BY DEF SendKills, RecvDone
    <2>2. ~CanRecv(Flagged(i))
      BY <1>2, <2>1, CallFacts, ReceivedFacts DEF CanRecv, CanSend
    <2>3. taken \in [Conns -> Nat] /\ Consumed(i) = 0
      BY <1>1, <2>2 DEF TypeOK, Consumed
    <2>. QED
      BY <2>1, <2>3
  <1>7. ReportsHold'
    BY <1>1, <1>3, <1>6
       DEF ReportsHold, Readable, Writable, Room, InUse, clients
  <1>8. InterestMatches'
    BY <1>1, <1>3 DEF InterestMatches, Refreshed
  <1>. QED
    BY <1>4, <1>5, <1>7, <1>8 DEF IInv

--------------------------------------------------------------------------------
(***************************************************************************)
(* The steps of the clients.  None can take back what poll() reported: a   *)
(* readable connection stays readable, a writable one writable.            *)
(***************************************************************************)
LEMMA ClientKeepsIInv ==
    ASSUME IInv, UNCHANGED <<server, open, taken, sent>>,
           backlog' \in Seq(Conns), BacklogFresh',
           asked' \in [Conns -> Seq(Request)], got' \in [Conns -> Nat],
           fin' \in SUBSET Conns, rst' \in SUBSET Conns,
           \A c \in Conns : /\ Readable(c) => Readable(c)'
                            /\ Writable(c) => Writable(c)'
    PROVE  IInv'
  <1>1. TypeOK /\ SlotOwnership /\ Alternation /\ FlagsConsumed /\ ReportsHold
        /\ InterestMatches
    BY DEF IInv
  <1>2. TypeOK'
    BY <1>1 DEF TypeOK, server
  <1>3. SlotOwnership' /\ Alternation' /\ FlagsConsumed'
    BY <1>1 DEF SlotOwnership, Alternation, FlagsConsumed, InUse, server
  <1>4. \A i \in Slots : InUse(i) => pollfds[i].fd \in Conns
    BY <1>1 DEF SlotOwnership, TypeOK
  <1>5. ReportsHold'
    <2>1. UNCHANGED <<pollfds, client_states>>
      BY DEF server
    <2>. QED
      BY <1>1, <1>4, <2>1 DEF ReportsHold, InUse
  <1>6. InterestMatches'
    BY <1>1 DEF InterestMatches, Refreshed, InUse, Interest, server
  <1>. QED
    BY <1>2, <1>3, <1>5, <1>6 DEF IInv

LEMMA ConnectStep == ASSUME NEW c \in Conns PROVE IInv /\ Connect(c) => IInv'
  <1>. SUFFICES ASSUME IInv, Connect(c) PROVE IInv'
    OBVIOUS
  <1>1. TypeOK /\ BacklogFresh
    BY DEF IInv
  <1>2. backlog \in Seq(Conns) /\ Len(backlog) \in Nat
    BY <1>1 DEF TypeOK
  <1>3. /\ backlog' \in Seq(Conns)
        /\ Len(backlog') = Len(backlog) + 1
        /\ \A k \in 1..Len(backlog) : backlog'[k] = backlog[k]
        /\ backlog'[Len(backlog) + 1] = c
    BY <1>2, AppendProperties DEF Connect
  <1>4. c \notin open /\ open' = open
    BY DEF Connect, Connected
  <1>5. \A k \in 1..Len(backlog) : backlog[k] # c
    <2>1. c \notin Range(backlog)
      BY DEF Connect, Connected
    <2>2. DOMAIN backlog = 1..Len(backlog)
      BY <1>2
    <2>. QED
      BY <2>1, <2>2 DEF Range
  <1>6. \A k \in 1..Len(backlog') : k \in 1..Len(backlog) \/ k = Len(backlog) + 1
    BY <1>2, <1>3
  <1>7. BacklogFresh'
    <2>1. ASSUME NEW k \in 1..Len(backlog')
          PROVE  backlog'[k] \notin open
      BY <1>1, <1>3, <1>4, <1>6 DEF BacklogFresh
    <2>2. ASSUME NEW k \in 1..Len(backlog'), NEW j \in 1..Len(backlog'),
                 backlog'[j] = backlog'[k]
          PROVE  j = k
      BY <1>1, <1>3, <1>5, <1>6, <2>2 DEF BacklogFresh
    <2>. QED
      BY <1>4, <2>1, <2>2 DEF BacklogFresh
  <1>8. UNCHANGED <<server, open, taken, sent, asked, got, fin, rst>>
    BY DEF Connect, clients
  <1>9. \A d \in Conns : /\ Readable(d) => Readable(d)'
                         /\ Writable(d) => Writable(d)'
    BY <1>8 DEF Readable, Writable, Room
  <1>. QED
    BY <1>1, <1>3, <1>7, <1>8, <1>9, ClientKeepsIInv DEF TypeOK

LEMMA ClientAskStep ==
    ASSUME NEW c \in Conns, NEW b \in Request
    PROVE  IInv /\ ClientAsk(c, b) => IInv'
  <1>. SUFFICES ASSUME IInv, ClientAsk(c, b) PROVE IInv'
    OBVIOUS
  <1>1. TypeOK /\ BacklogFresh
    BY DEF IInv
  <1>2. asked' = [asked EXCEPT ![c] = Append(@, b)]
    BY DEF ClientAsk
  <1>3. UNCHANGED <<server, backlog, open, taken, sent, got, fin, rst>>
    BY DEF ClientAsk, kernel
  <1>4. asked[c] \in Seq(Request) /\ Len(asked[c]) \in Nat
    BY <1>1 DEF TypeOK
  <1>5. /\ Append(asked[c], b) \in Seq(Request)
        /\ Len(Append(asked[c], b)) = Len(asked[c]) + 1
    BY <1>4, AppendProperties
  <1>6. /\ asked' \in [Conns -> Seq(Request)]
        /\ \A d \in Conns : Len(asked'[d]) >= Len(asked[d])
    BY <1>1, <1>2, <1>5, LenProperties DEF TypeOK
  <1>7. \A d \in Conns : /\ Readable(d) => Readable(d)'
                         /\ Writable(d) => Writable(d)'
    <2>1. \A d \in Conns : /\ taken[d] \in Nat
                           /\ Len(asked[d]) \in Nat
                           /\ Len(asked'[d]) \in Nat
      BY <1>1, <1>6, LenProperties DEF TypeOK
    <2>. QED
      BY <1>3, <1>6, <2>1 DEF Readable, Writable, Room
  <1>8. BacklogFresh'
    BY <1>1, <1>3 DEF BacklogFresh
  <1>. QED
    BY <1>1, <1>3, <1>6, <1>7, <1>8, ClientKeepsIInv DEF TypeOK

LEMMA ClientReadStep == ASSUME NEW c \in Conns PROVE IInv /\ ClientRead(c) => IInv'
  <1>. SUFFICES ASSUME IInv, ClientRead(c) PROVE IInv'
    OBVIOUS
  <1>1. TypeOK /\ BacklogFresh
    BY DEF IInv
  <1>2. PICK n \in (got[c] + 1)..Len(sent[c]) : got' = [got EXCEPT ![c] = n]
    BY DEF ClientRead
  <1>3. UNCHANGED <<server, backlog, open, taken, sent, asked, fin, rst>>
    BY DEF ClientRead, kernel
  <1>4. \A d \in Conns : got[d] \in Nat /\ Len(sent[d]) \in Nat
    BY <1>1, LenProperties DEF TypeOK
  <1>5. n \in Nat /\ n >= got[c]
    BY <1>2, <1>4
  <1>6. got' \in [Conns -> Nat] /\ \A d \in Conns : got'[d] >= got[d]
    BY <1>1, <1>2, <1>4, <1>5 DEF TypeOK
  <1>7. \A d \in Conns : /\ Readable(d) => Readable(d)'
                         /\ Writable(d) => Writable(d)'
    <2>1. SndBuf \in Nat /\ \A d \in Conns : got'[d] \in Nat
      BY <1>6, PollAssumption
    <2>. QED
      BY <1>3, <1>4, <1>6, <2>1 DEF Readable, Writable, Room
  <1>8. BacklogFresh'
    BY <1>1, <1>3 DEF BacklogFresh
  <1>. QED
    BY <1>1, <1>3, <1>6, <1>7, <1>8, ClientKeepsIInv DEF TypeOK

LEMMA ClientLeaveStep ==
    ASSUME NEW c \in Conns
    PROVE  IInv /\ (ClientClose(c) \/ ClientReset(c)) => IInv'
  <1>. SUFFICES ASSUME IInv, ClientClose(c) \/ ClientReset(c) PROVE IInv'
    OBVIOUS
  <1>1. TypeOK /\ BacklogFresh
    BY DEF IInv
  <1>2. /\ UNCHANGED <<server, backlog, open, taken, sent, asked, got>>
        /\ fin \subseteq fin' /\ rst \subseteq rst'
        /\ fin' \in SUBSET Conns /\ rst' \in SUBSET Conns
    BY <1>1 DEF ClientClose, ClientReset, kernel, TypeOK
  <1>3. \A d \in Conns : /\ Readable(d) => Readable(d)'
                         /\ Writable(d) => Writable(d)'
    BY <1>2 DEF Readable, Writable, Room
  <1>4. BacklogFresh'
    BY <1>1, <1>2 DEF BacklogFresh
  <1>. QED
    BY <1>1, <1>2, <1>3, <1>4, ClientKeepsIInv DEF TypeOK

--------------------------------------------------------------------------------
(***************************************************************************)
(* The inductive invariant holds in every reachable state.                 *)
(***************************************************************************)
LEMMA NextIInv == IInv /\ [Next]_vars => IInv'
  <1>. SUFFICES ASSUME IInv, [Next]_vars PROVE IInv'
    OBVIOUS
  <1>1. CASE Poll
    BY <1>1, PollStep
  <1>2. CASE AcceptFails
    BY <1>2, AcceptFailsStep
  <1>3. ASSUME NEW i \in Entries, AcceptInto(i) PROVE IInv'
    BY <1>3, AcceptIntoStep
  <1>4. CASE AcceptNoSlot
    BY <1>4, AcceptNoSlotStep
  <1>5. ASSUME NEW i \in Slots, Scan(i) PROVE IInv'
    BY <1>5, ScanFreeStep, ScanIdleStep, RecvEndsStep, HandleRecvStep,
       HandleSendStep, SendFailsStep, SendKillsStep DEF Scan
  <1>6. ASSUME NEW c \in Conns, ClientStep(c) PROVE IInv'
    BY <1>6, ConnectStep, ClientAskStep, ClientReadStep, ClientLeaveStep
       DEF ClientStep
  <1>7. CASE UNCHANGED vars
    BY <1>7
       DEF vars, IInv, TypeOK, SlotOwnership, Alternation, BacklogFresh,
           FlagsConsumed, ReportsHold, InterestMatches, InUse, Readable,
           Writable, Room, Refreshed
  <1>. QED
    BY <1>1, <1>2, <1>3, <1>4, <1>5, <1>6, <1>7 DEF Next, ServerStep

THEOREM Invariance == Spec => []IInv
  BY InitIInv, NextIInv, PTL DEF Spec

(***************************************************************************)
(* The state of the server has its type in every reachable state: offset   *)
(* and count never leave the reply buffer (client_handler, lines 61 to 75).*)
(***************************************************************************)
THEOREM TypeCorrect == Spec => []TypeOK
  <1>1. IInv => TypeOK
    BY DEF IInv
  <1>. QED
    BY <1>1, Invariance, PTL

(***************************************************************************)
(* The two arrays of main agree and no two slots hold the same connection. *)
(***************************************************************************)
THEOREM SlotsOwnConnections == Spec => []SlotOwnership
  <1>1. IInv => SlotOwnership
    BY DEF IInv
  <1>. QED
    BY <1>1, Invariance, PTL

(***************************************************************************)
(* A client is waiting for a request or in the middle of exactly one       *)
(* reply, across partial sends and slot reuse.                             *)
(***************************************************************************)
THEOREM ClientsAlternate == Spec => []Alternation
  <1>1. IInv => Alternation
    BY DEF IInv
  <1>. QED
    BY <1>1, Invariance, PTL

(***************************************************************************)
(* When the thread sleeps in poll(), no served client has anything it      *)
(* could act on: no wake-up is lost between poll() and the scan.           *)
(***************************************************************************)
THEOREM WakeupsAreKept == Spec => []NoLostWakeup
  <1>1. IInv => NoLostWakeup
    <2>. SUFFICES ASSUME IInv, Asleep PROVE NoLostWakeup
      BY DEF NoLostWakeup
    <2>. USE SlotsInEntries
    <2>1. TypeOK /\ SlotOwnership /\ Alternation /\ InterestMatches
      BY DEF IInv
    <2>2. pc = "poll" /\ \A i \in Entries : Revents(pollfds[i]) = {}
      BY DEF Asleep
    <2>3. ASSUME NEW i \in Slots, InUse(i),
                 IF client_states[i].awaiting_read
                 THEN Readable(pollfds[i].fd) ELSE Writable(pollfds[i].fd)
          PROVE  FALSE
      <3>1. /\ pollfds[i].fd \notin {NoFd, Listener}
            /\ pollfds[i].events = Interest(client_states[i])
            /\ Alternates(client_states[i])
        BY <2>1, <2>2, <2>3, PollAssumption
           DEF SlotOwnership, TypeOK, InterestMatches, Refreshed, Alternation
      <3>2. CASE client_states[i].awaiting_read
        <4>1. "POLLIN" \in Revents(pollfds[i])
          BY <2>3, <3>1, <3>2 DEF Revents, Ready, Interest
        <4>. QED
          BY <2>2, <4>1
      <3>3. CASE ~client_states[i].awaiting_read
        <4>1. "POLLOUT" \in Revents(pollfds[i])
          BY <2>3, <3>1, <3>3 DEF Revents, Ready, Interest, Alternates
        <4>. QED
          BY <2>2, <4>1
      <3>. QED
        BY <3>2, <3>3
    <2>4. ASSUME backlog # <<>>, pollfds[MaxClients].fd = Listener
          PROVE  FALSE
      <3>1. "POLLIN" \in Revents(pollfds[MaxClients])
        BY <2>1, <2>4, PollAssumption DEF Revents, Ready, InterestMatches
      <3>. QED
        BY <2>2, <3>1
    <2>. QED
      BY <2>3, <2>4 DEF NoLostWakeup
  <1>. QED
    BY <1>1, Invariance, PTL

\* Time does not run out between poll() and the call: recv has a byte or the
\* end of the stream to return, send has room or an error.
LEMMA CallProgress ==
    ASSUME IInv, NEW i \in Slots, Calling(i)
    PROVE  /\ HandleRecv(i) => taken' # taken
           /\ HandleSend(i) => sent' # sent
  <1>. DEFINE c == pollfds[i].fd
              f == Flagged(i)
  <1>1. /\ c \in Conns
        /\ f.read_available <=> "POLLIN" \in pollfds[i].revents
        /\ f.write_available <=> "POLLOUT" \in pollfds[i].revents
        /\ f.read_available => f.awaiting_read /\ Readable(c)
        /\ f.write_available => Writable(c)
    BY CallFacts
  <1>2. f.read_available \/ f.write_available
    BY <1>1 DEF Calling, Reported
  <1>3. taken \in [Conns -> Nat] /\ sent \in [Conns -> Seq(ReplyByte)]
    BY DEF IInv, TypeOK
  <1>4. ASSUME HandleRecv(i) PROVE taken' # taken
    <2>1. ~f.write_available
      BY <1>4, ReceivedFacts DEF HandleRecv
    <2>2. CanRecv(f) /\ Readable(c)
      BY <1>1, <1>2, <2>1 DEF CanRecv
    <2>3. HasByte(c)
      BY <1>4, <2>2 DEF HandleRecv, RecvDone, StreamOver, Readable, HasByte
    <2>4. taken' = [taken EXCEPT ![c] = @ + 1]
      BY <1>4, <2>2, <2>3 DEF HandleRecv, RecvDone, Consumed
    <2>5. taken'[c] = taken[c] + 1 /\ taken[c] \in Nat
      BY <1>1, <1>3, <2>4
    <2>. QED
      BY <2>5
  <1>5. ASSUME HandleSend(i) PROVE sent' # sent
    <2>. DEFINE s == Received(i)
    <2>1. CanSend(s) /\ c \notin rst
      BY <1>5 DEF HandleSend
    <2>2. /\ s \in ClientState /\ s.in_use /\ Alternates(s)
          /\ f.write_available
      BY <2>1, ReceivedFacts
    <2>3. Room(c) > 0
      BY <1>1, <2>1, <2>2 DEF Writable
    <2>4. Room(c) \in Int
      BY <1>1, <1>3, PollAssumption, LenProperties DEF Room, IInv, TypeOK
    <2>5. PICK n \in Accepted(c, s) :
             sent' = [sent EXCEPT ![c] = @ \o SendChunk(s, n)]
      BY <1>5 DEF HandleSend
    <2>6. n \in 1..s.n_pending_outgoing_bytes
      BY <2>3, <2>4, <2>5 DEF Accepted
    <2>7. s.n_pending_outgoing_bytes \in Nat
      BY <2>2 DEF ClientState
    <2>. HIDE DEF s
    <2>8. SendChunk(s, n) \in Seq(ReplyByte) /\ Len(SendChunk(s, n)) = n
      BY <2>1, <2>2, <2>6, <2>7, AfterSendType
    <2>9. SendChunk(s, n) # <<>>
      BY <2>6, <2>7, <2>8
    <2>10. sent[c] \o SendChunk(s, n) # sent[c]
      BY <1>1, <1>3, <2>8, <2>9, ConcatEqualIffEmpty
    <2>. QED
      BY <1>1, <1>3, <2>5, <2>10
  <1>. QED
    BY <1>4, <1>5

(***************************************************************************)
(* Every call of client_handler receives a byte, sends one, or frees the   *)
(* slot: EAGAIN never happens and no slot can make the loop spin.          *)
(***************************************************************************)
THEOREM CallsProgress == Spec => HandlerProgress
  <1>. DEFINE P == \A i \in Slots : Calling(i) /\ pollfds' # pollfds =>
                      \/ taken' # taken
                      \/ sent' # sent
                      \/ ~InUse(i)'
  <1>1. IInv /\ [Next]_vars => [P]_vars
    <2>. SUFFICES ASSUME IInv, Next, NEW i \in Slots, Calling(i),
                         pollfds' # pollfds
                  PROVE  taken' # taken \/ sent' # sent \/ ~InUse(i)'
      OBVIOUS
    <2>. USE SlotsInEntries
    <2>1. pc = "scan" /\ i = slot /\ InUse(i)
      BY DEF Calling, Scanning, InUse
    <2>2. \A c \in Conns : ~ClientStep(c)
      BY DEF ClientStep, Connect, ClientAsk, ClientRead, ClientClose,
             ClientReset, server
    <2>3. PICK j \in Slots : Scan(j)
      BY <2>1, <2>2 DEF Next, ServerStep, Poll, AcceptFails, AcceptInto, AcceptNoSlot
    <2>4. j = i
      BY <2>1, <2>3 DEF Scan, ScanFree, ScanIdle, RecvEnds, HandleRecv, HandleSend,
                        SendFails, SendKills, RecvDone, Calling, Scanning
    <2>5. ~ScanFree(i) /\ ~ScanIdle(i) /\ ~SendKills(i)
      BY DEF ScanFree, ScanIdle, SendKills, Calling
    <2>6. CASE RecvEnds(i) \/ SendFails(i)
      <3>1. \E s : Drop(i, s) /\ s \in ClientState
        <4>1. Flagged(i) \in ClientState /\ Received(i) \in ClientState
          BY CallFacts, ReceivedFacts
        <4>. QED
          BY <2>6, <4>1, FreedType DEF RecvEnds, SendFails
      <3>2. PICK s \in ClientState : Drop(i, s)
        BY <3>1
      <3>3. client_states' = [client_states EXCEPT ![i] = [s EXCEPT !.in_use = FALSE]]
        BY <3>2 DEF Drop, Update
      <3>4. client_states'[i] = [s EXCEPT !.in_use = FALSE]
        BY <3>3 DEF IInv, TypeOK
      <3>. QED
        BY <3>4, FreedType DEF InUse
    <2>. QED
      BY <2>3, <2>4, <2>5, <2>6, CallProgress DEF Scan
  <1>. QED
    BY <1>1, Invariance, PTL DEF Spec, HandlerProgress

--------------------------------------------------------------------------------
(***************************************************************************)
(* The poll-based server implements the PIGen service: every step is one   *)
(* step of PiService or none: receiving a byte is Take, a send of n bytes  *)
(* is Emit, losing the slot (or never getting one) is End.                 *)
(***************************************************************************)

(***************************************************************************)
(* What a connection is owed depends on the one slot that holds it.        *)
(***************************************************************************)
Rest(s) == SendChunk(s, s.n_pending_outgoing_bytes)

OwedFact ==
    /\ \A i \in Slots : SlotOwnership /\ pc # "killed" /\ InUse(i) =>
          /\ Served(pollfds[i].fd)
          /\ Owed(pollfds[i].fd) = Rest(client_states[i])
    /\ \A c : ~Served(c) => Owed(c) = <<>>

LEMMA OwedBySlot == OwedFact
  <1>1. ASSUME NEW i \in Slots, SlotOwnership, pc # "killed", InUse(i)
        PROVE  /\ Served(pollfds[i].fd)
               /\ Owed(pollfds[i].fd) = Rest(client_states[i])
    <2>1. Served(pollfds[i].fd)
      BY <1>1 DEF Served
    <2>2. (CHOOSE j \in Slots : InUse(j) /\ pollfds[j].fd = pollfds[i].fd) = i
      BY <1>1 DEF SlotOwnership
    <2>. QED
      BY <2>1, <2>2 DEF Owed, Rest
  <1>. QED
    BY <1>1 DEF OwedFact, Owed

LEMMA OwedBySlotNext == OwedFact'
  BY OwedBySlot, PTL

\* A client that is waiting for a request is owed nothing.
LEMMA NothingLeft ==
    ASSUME NEW s \in ClientState, Alternates(s), s.awaiting_read
    PROVE  Rest(s) = <<>>
  <1>1. s.n_pending_outgoing_bytes = 0 /\ s.outgoing_bytes_offset \in Int
    BY PollAssumption DEF Alternates, ClientState
  <1>. QED
    BY <1>1, SubSeqEmpty DEF Rest, SendChunk

LEMMA EmptyRest ==
    ASSUME NEW s, s.n_pending_outgoing_bytes = 0, s.outgoing_bytes_offset \in Int
    PROVE  Rest(s) = <<>>
  BY SubSeqEmpty DEF Rest, SendChunk

\* A fresh reply is owed completely.
LEMMA RestOfByte ==
    ASSUME NEW s \in ClientState, Alternates(s), s.awaiting_read, NEW b
    PROVE  Rest(AfterByte(s, b)) = IF b \in Digits THEN Reply(b) ELSE <<>>
  <1>1. CASE b \in Digits
    <2>1. /\ AfterByte(s, b).n_pending_outgoing_bytes = ReplyLen
          /\ AfterByte(s, b).outgoing_bytes_offset = 0
          /\ AfterByte(s, b).pending_outgoing_bytes = Reply(b)
      BY <1>1 DEF AfterByte, ClientState
    <2>2. Rest(AfterByte(s, b)) = SubSeq(Reply(b), 1, ReplyLen)
      BY <2>1, PollAssumption DEF Rest, SendChunk
    <2>3. SubSeq(Reply(b), 1, ReplyLen) = Reply(b)
      BY <1>1, ReplyIsSeq, SubSeqFull
    <2>. QED
      BY <1>1, <2>2, <2>3
  <1>2. CASE b \notin Digits
    <2>1. AfterByte(s, b) = [s EXCEPT !.read_available = FALSE]
      BY <1>2 DEF AfterByte
    <2>2. Rest(AfterByte(s, b)) = Rest(s)
      BY <2>1 DEF Rest, SendChunk, ClientState
    <2>. QED
      BY <1>2, <2>2, NothingLeft
  <1>. QED
    BY <1>1, <1>2

\* A send moves a prefix of what is owed to what was sent.
LEMMA RestOfSend ==
    ASSUME NEW s \in ClientState, Alternates(s), CanSend(s),
           NEW n \in 1..s.n_pending_outgoing_bytes
    PROVE  /\ n \in 1..Len(Rest(s))
           /\ n \in 1..ReplyLen
           /\ SendChunk(s, n) = SubSeq(Rest(s), 1, n)
           /\ Rest(AfterSend(s, n)) = SubSeq(Rest(s), n + 1, Len(Rest(s)))
  <1>. DEFINE off == s.outgoing_bytes_offset
              len == s.n_pending_outgoing_bytes
              u == AfterSend(s, n)
  <1>1. /\ off \in Nat /\ len \in Nat /\ len > 0 /\ off + len = ReplyLen
        /\ ReplyLen \in Nat /\ n \in Nat /\ n >= 1 /\ n <= len
    BY PollAssumption DEF ClientState, CanSend, Alternates
  <1>2. PICK d \in Digits : s.pending_outgoing_bytes = Reply(d)
    BY <1>1 DEF Alternates, CanSend
  <1>. DEFINE R == Reply(d)
  <1>3. R \in Seq(ReplyByte) /\ Len(R) = ReplyLen
    BY ReplyIsSeq
  <1>4. Rest(s) = SubSeq(R, off + 1, off + len)
    BY <1>2 DEF Rest, SendChunk
  <1>5. SendChunk(s, n) = SubSeq(R, off + 1, off + n)
    BY <1>2 DEF SendChunk
  <1>6. /\ u.n_pending_outgoing_bytes = len - n
        /\ u.pending_outgoing_bytes = R
        /\ u.outgoing_bytes_offset = IF len - n = 0 THEN 0 ELSE off + n
    BY <1>1, <1>2 DEF AfterSend, ClientState
  <1>. HIDE DEF off, len, R, u
  <1>7. off + 1 \in 1..Len(R) /\ off + len \in 1..Len(R)
    BY <1>1, <1>3
  <1>8. Len(Rest(s)) = len
    <2>1. \A k \in (off + 1)..(off + len) : R[k] \in ReplyByte
      BY <1>1, <1>3, ElementOfSeq
    <2>2. off + 1 \in Int /\ off + len \in Int
      BY <1>1
    <2>3. Len(SubSeq(R, off + 1, off + len)) =
             IF off + 1 <= off + len THEN (off + len) - (off + 1) + 1 ELSE 0
      BY <2>1, <2>2, SubSeqProperties
    <2>. QED
      BY <1>1, <1>4, <2>3
  <1>9. n \in 1..((off + len) - (off + 1) + 1)
        /\ 1 \in 1..((off + len) - (off + 1) + 1)
    BY <1>1
  <1>10. SubSeq(SubSeq(R, off + 1, off + len), 1, n) =
            SubSeq(R, off + 1 + 1 - 1, off + 1 + n - 1)
    <2>1. ASSUME NEW x \in Seq(ReplyByte), NEW i \in 1..Len(x), NEW j \in 1..Len(x),
                 NEW m \in 1..(j - i + 1), NEW q \in 1..(j - i + 1)
          PROVE  SubSeq(SubSeq(x, i, j), m, q) = SubSeq(x, i + m - 1, i + q - 1)
      BY ONLY SubSeqOfSubSeq, x \in Seq(ReplyByte), i \in 1..Len(x), j \in 1..Len(x),
              m \in 1..(j - i + 1), q \in 1..(j - i + 1)
    <2>. QED
      BY ONLY <1>3, <1>7, <1>9, <2>1
  <1>11. SendChunk(s, n) = SubSeq(Rest(s), 1, n)
    <2>1. off + 1 + 1 - 1 = off + 1 /\ off + 1 + n - 1 = off + n
      BY <1>1
    <2>. QED
      BY <1>4, <1>5, <1>10, <2>1
  <1>12. Rest(u) = SubSeq(Rest(s), n + 1, Len(Rest(s)))
    <2>1. CASE n = len
      <3>1. Rest(u) = <<>>
        BY <1>1, <1>6, <2>1, EmptyRest
      <3>2. SubSeq(Rest(s), n + 1, Len(Rest(s))) = <<>>
        BY <1>1, <1>8, <2>1, SubSeqEmpty
      <3>. QED
        BY <3>1, <3>2
    <2>2. CASE n # len
      <3>1. Rest(u) = SubSeq(R, off + n + 1, off + n + (len - n))
        BY <1>1, <1>6, <2>2 DEF Rest, SendChunk
      <3>. DEFINE m == n + 1
                  i == off + 1
                  j == off + len
      <3>2. /\ m \in 1..(j - i + 1)
            /\ len \in 1..(j - i + 1)
            /\ i \in 1..Len(R)
            /\ j \in 1..Len(R)
        BY <1>1, <1>7, <2>2
      <3>3. /\ i + m - 1 = off + n + 1
            /\ i + len - 1 = off + n + (len - n)
        BY <1>1
      <3>. HIDE DEF m, i, j
      <3>4. SubSeq(SubSeq(R, i, j), m, len) = SubSeq(R, i + m - 1, i + len - 1)
        BY <1>3, <3>2, SubSeqOfSubSeq
      <3>. QED
        BY <1>4, <1>8, <3>1, <3>3, <3>4 DEF m, i, j
    <2>. QED
      BY <2>1, <2>2
  <1>. QED
    BY <1>1, <1>8, <1>11, <1>12 DEF u

--------------------------------------------------------------------------------
(***************************************************************************)
(* How the abstract state changes when slot i alone changes: only the      *)
(* connection it held is concerned.                                        *)
(***************************************************************************)
SameService == UNCHANGED <<asked, taken, sent, GivenUp>>
               /\ \A c \in Conns : Owed(c)' = Owed(c)

LEMMA SameServiceStutters == SameService => UNCHANGED Service!svars
  BY DEF SameService, Service!svars

LEMMA OneSlotChanges ==
    ASSUME IInv, IInv', pc # "killed", pc' # "killed", open' = open,
           NEW i \in Slots, InUse(i), NEW c, c = pollfds[i].fd,
           \A j \in Slots \ {i} : /\ InUse(j)' <=> InUse(j)
                                  /\ client_states'[j] = client_states[j]
                                  /\ pollfds'[j].fd = pollfds[j].fd,
           InUse(i)' => pollfds'[i].fd = c
    PROVE  /\ \A d \in Conns \ {c} :
                 (Served(d)' <=> Served(d)) /\ Owed(d)' = Owed(d)
           /\ Owed(c) = Rest(client_states[i])
           /\ InUse(i)' => Owed(c)' = Rest(client_states'[i]) /\ GivenUp' = GivenUp
           /\ ~InUse(i)' => Owed(c)' = <<>> /\ GivenUp' = GivenUp \cup {c}
           /\ c \in Conns
           /\ c \notin GivenUp
  <1>1. SlotOwnership /\ SlotOwnership' /\ c \in open /\ open \subseteq Conns
    BY DEF IInv, SlotOwnership, TypeOK
  <1>2. OwedFact /\ OwedFact'
    BY OwedBySlot, OwedBySlotNext
  <1>3. Served(c) /\ Owed(c) = Rest(client_states[i])
    BY <1>1, <1>2 DEF OwedFact
  <1>4. ASSUME NEW d \in Conns \ {c}
        PROVE  (Served(d)' <=> Served(d)) /\ Owed(d)' = Owed(d)
    <2>1. Served(d)' <=> Served(d)
      BY <1>1, <1>4 DEF Served, SlotOwnership
    <2>2. CASE Served(d)
      <3>1. PICK j \in Slots : InUse(j) /\ pollfds[j].fd = d
        BY <2>2 DEF Served
      <3>2. j # i
        BY <1>4, <3>1
      <3>3. InUse(j)' /\ pollfds'[j].fd = d /\ client_states'[j] = client_states[j]
        BY <3>1, <3>2
      <3>4. Owed(d) = Rest(client_states[j])
        BY <1>1, <1>2, <3>1 DEF OwedFact
      <3>5. Owed(pollfds[j].fd)' = Rest(client_states[j])'
        BY <1>1, <1>2, <3>3 DEF OwedFact
      <3>6. Owed(d)' = Owed(pollfds[j].fd)'
        BY <3>3 DEF Owed, Served
      <3>7. Rest(client_states[j])' = Rest(client_states[j])
        BY <3>3 DEF Rest, SendChunk
      <3>. QED
        BY <2>1, <3>4, <3>5, <3>6, <3>7
    <2>3. CASE ~Served(d)
      <3>1. Owed(d) = <<>>
        BY <1>2, <2>3 DEF OwedFact
      <3>2. Owed(d)' = <<>>
        BY <2>1, <2>3 DEF Owed
      <3>. QED
        BY <2>1, <3>1, <3>2
    <2>. QED
      BY <2>2, <2>3
  <1>5. ASSUME InUse(i)'
        PROVE  Served(c)' /\ Owed(c)' = Rest(client_states'[i])
    <2>1. pollfds'[i].fd = c
      BY <1>5
    <2>2. /\ Served(pollfds[i].fd)'
          /\ Owed(pollfds[i].fd)' = Rest(client_states[i])'
      BY <1>1, <1>2, <1>5 DEF OwedFact
    <2>3. Rest(client_states[i])' = Rest(client_states'[i])
      BY DEF Rest, SendChunk
    <2>4. Served(c)'
      BY <1>5, <2>1, <2>2 DEF Served
    <2>5. Owed(c)' = Owed(pollfds[i].fd)'
      BY <2>1 DEF Owed, Served
    <2>. QED
      BY <2>2, <2>3, <2>4, <2>5
  <1>6. ASSUME ~InUse(i)'
        PROVE  ~Served(c)' /\ Owed(c)' = <<>>
    <2>1. ~Served(c)'
      BY <1>1, <1>6 DEF Served, SlotOwnership
    <2>. QED
      BY <2>1 DEF Owed
  <1>7. \A d \in open : d \in Conns
    BY <1>1
  <1>8. InUse(i)' => GivenUp' = GivenUp
    BY <1>3, <1>4, <1>5, <1>7 DEF GivenUp
  <1>9. ~InUse(i)' => GivenUp' = GivenUp \cup {c}
    BY <1>1, <1>3, <1>4, <1>6, <1>7 DEF GivenUp
  <1>10. c \notin GivenUp
    BY <1>3 DEF GivenUp
  <1>. QED
    BY <1>1, <1>3, <1>4, <1>5, <1>6, <1>8, <1>9, <1>10

(***************************************************************************)
(* The same for the end of an iteration of the scan.                       *)
(***************************************************************************)
LEMMA UpdateChangesOne ==
    ASSUME IInv, IInv', NEW i \in Slots, InUse(i), Scanning(i),
           NEW c, c = pollfds[i].fd, NEW fd, NEW s, Update(i, fd, s),
           IF s.in_use THEN fd = c ELSE TRUE, open' = open
    PROVE  /\ \A d \in Conns \ {c} : Owed(d)' = Owed(d)
           /\ Owed(c) = Rest(client_states[i])
           /\ s.in_use => Owed(c)' = Rest(s) /\ GivenUp' = GivenUp
           /\ ~s.in_use => Owed(c)' = <<>> /\ GivenUp' = GivenUp \cup {c}
           /\ c \in Conns
           /\ c \notin GivenUp
  <1>. USE SlotsInEntries
  <1>1. /\ client_states \in [Entries -> ClientState]
        /\ pollfds \in [Entries -> PollFd]
    BY DEF IInv, TypeOK
  <1>2. /\ client_states'[i] = s
        /\ \A j \in Slots \ {i} : client_states'[j] = client_states[j]
        /\ pollfds'[i].fd = fd
        /\ \A j \in Slots \ {i} : pollfds'[j] = pollfds[j]
    BY <1>1 DEF Update
  <1>3. pc # "killed" /\ pc' # "killed"
    BY DEF Scanning, Update, Advance
  <1>4. /\ InUse(i)' <=> s.in_use
        /\ \A j \in Slots \ {i} : InUse(j)' <=> InUse(j)
    BY <1>2 DEF InUse
  <1>. QED
    BY <1>2, <1>3, <1>4, OneSlotChanges

LEMMA ScanRefines ==
    ASSUME IInv, IInv', NEW i \in Slots, Scan(i)
    PROVE  Service!Next \/ UNCHANGED Service!svars
  <1>. DEFINE f == Flagged(i)
  <1>1. PICK c : c = pollfds[i].fd
    OBVIOUS
  <1>2. asked' = asked /\ open' = open
    BY DEF Scan, ScanFree, ScanIdle, RecvEnds, HandleRecv, HandleSend, SendFails,
           SendKills, kernel, clients
  <1>3. taken \in [Conns -> Nat] /\ sent \in [Conns -> Seq(ReplyByte)]
    BY DEF IInv, TypeOK
  <1>4. CASE ScanFree(i)
    <2>1. /\ UNCHANGED <<pollfds, client_states, asked, taken, sent, open>>
          /\ pc # "killed" /\ pc' # "killed"
      BY <1>4 DEF ScanFree, kernel, clients, Scanning, Advance
    <2>2. \A d : Served(d)' <=> Served(d)
      BY <2>1 DEF Served, InUse
    <2>3. \A d \in Conns : Owed(d)' = Owed(d)
      BY <2>1, <2>2 DEF Owed, SendChunk, InUse
    <2>4. GivenUp' = GivenUp
      BY <2>1, <2>2 DEF GivenUp
    <2>. QED
      BY <2>1, <2>3, <2>4, SameServiceStutters DEF SameService
  <1>5. CASE ScanIdle(i)
    <2>1. /\ InUse(i) /\ Scanning(i)
          /\ client_states[i].in_use
          /\ Update(i, c, client_states[i])
          /\ UNCHANGED <<asked, taken, sent>>
      BY <1>1, <1>5 DEF ScanIdle, Keep, InUse, kernel, clients
    <2>2. \A d \in Conns : Owed(d)' = Owed(d)
      BY <1>1, <1>2, <2>1, UpdateChangesOne
    <2>3. GivenUp' = GivenUp
      BY <1>1, <1>2, <2>1, UpdateChangesOne
    <2>. QED
      BY <2>1, <2>2, <2>3, SameServiceStutters DEF SameService
  <1>6. CASE RecvEnds(i) \/ SendFails(i)
    <2>1. Calling(i)
      BY <1>6, RecvDoneFacts DEF RecvEnds, SendFails
    <2>2. InUse(i) /\ Scanning(i)
      BY <2>1, CallFacts
    <2>3. PICK s \in ClientState : Drop(i, s)
      BY <1>6, <2>1, CallFacts, ReceivedFacts, FreedType DEF RecvEnds, SendFails
    <2>4. taken' = taken /\ sent' = sent
      <3>1. CASE RecvEnds(i)
        BY <3>1 DEF RecvEnds, kernel
      <3>2. CASE SendFails(i)
        <4>1. /\ CanSend(Received(i)) /\ sent' = sent
              /\ taken' = [taken EXCEPT ![pollfds[i].fd] = @ + Consumed(i)]
          BY <3>2 DEF SendFails, RecvDone
        <4>2. ~CanRecv(f)
          BY <2>1, <4>1, CallFacts, ReceivedFacts DEF CanRecv, CanSend
        <4>3. Consumed(i) = 0
          BY <4>2 DEF Consumed
        <4>. QED
          BY <1>3, <4>1, <4>3
      <3>. QED
        BY <1>6, <3>1, <3>2
    <2>. DEFINE t == [s EXCEPT !.in_use = FALSE]
    <2>5. ~t.in_use /\ Update(i, NoFd, t)
      BY <2>3, FreedType DEF Drop
    <2>. HIDE DEF t
    <2>6. /\ \A d \in Conns \ {c} : Owed(d)' = Owed(d)
          /\ Owed(c)' = <<>>
          /\ GivenUp' = GivenUp \cup {c}
          /\ c \in Conns
      BY <1>1, <1>2, <2>2, <2>5, UpdateChangesOne
    <2>7. Service!End({c})
      BY <1>2, <2>4, <2>6 DEF Service!End
    <2>8. {c} \in (SUBSET Conns) \ {{}}
      BY <2>6
    <2>9. Service!Next
      BY <2>7, <2>8 DEF Service!Next
    <2>. QED
      BY <2>9
  <1>7. CASE HandleRecv(i)
    <2>1. Calling(i) /\ ~CanSend(Received(i)) /\ sent' = sent
      BY <1>7 DEF HandleRecv, RecvDone
    <2>2. /\ InUse(i) /\ Scanning(i)
          /\ f \in ClientState /\ Alternates(f) /\ f.in_use
          /\ f.read_available => Readable(c)
          /\ f.read_available <=> "POLLIN" \in pollfds[i].revents
          /\ f.write_available <=> "POLLOUT" \in pollfds[i].revents
      BY <1>1, <2>1, CallFacts
    <2>3. ~f.write_available
      BY <2>1, ReceivedFacts
    <2>4. f.read_available
      BY <2>1, <2>2, <2>3 DEF Calling, Reported
    <2>5. f.awaiting_read /\ CanRecv(f)
      BY <2>1, <2>4, CallFacts DEF CanRecv
    <2>6. HasByte(c)
      BY <1>1, <1>7, <2>2, <2>4, <2>5 DEF HandleRecv, RecvDone, StreamOver, Readable, HasByte
    <2>. DEFINE b == asked[c][taken[c] + 1]
                u == AfterByte(f, b)
    <2>7. Received(i) = u /\ Consumed(i) = 1
      BY <1>1, <2>5, <2>6 DEF Received, Consumed
    <2>8. taken' = [taken EXCEPT ![c] = @ + 1]
      BY <1>1, <1>7, <2>7 DEF HandleRecv, RecvDone
    <2>9. u.in_use /\ Update(i, c, u)
      BY <1>1, <1>7, <2>1, <2>7, ReceivedFacts DEF HandleRecv, Keep
    <2>. HIDE DEF u
    <2>10. /\ \A d \in Conns \ {c} : Owed(d)' = Owed(d)
           /\ Owed(c) = Rest(client_states[i])
           /\ Owed(c)' = Rest(u)
           /\ GivenUp' = GivenUp
           /\ c \in Conns
           /\ c \notin GivenUp
      BY <1>1, <1>2, <2>2, <2>9, UpdateChangesOne
    <2>11. Rest(u) = IF b \in Digits THEN Reply(b) ELSE <<>>
      BY <2>2, <2>5, RestOfByte DEF u
    <2>12. Rest(client_states[i]) = <<>>
      <3>1. /\ client_states[i] \in ClientState
            /\ Alternates(client_states[i])
            /\ client_states[i].awaiting_read
        BY <2>1, <2>2, <2>5, CallFacts, SlotsInEntries
           DEF IInv, TypeOK, Alternation
      <3>. QED
        BY <3>1, NothingLeft
    <2>13. Service!Reply(b) = Reply(b)
      BY DEF Service!Reply, Reply
    <2>. HIDE DEF b
    <2>14. [d \in Conns |-> Owed(d)]' =
              [[d \in Conns |-> Owed(d)] EXCEPT ![c] =
                  IF b \in Digits THEN Service!Reply(b) ELSE <<>>]
      BY <2>10, <2>11, <2>13
    <2>15. Service!Take(c)
      BY <1>2, <2>1, <2>6, <2>8, <2>10, <2>12, <2>14
         DEF Service!Take, Service!AnswerTo, HasByte, b
    <2>16. Service!Next
      BY <2>10, <2>15 DEF Service!Next
    <2>. QED
      BY <2>16
  <1>8. CASE HandleSend(i)
    <2>1. /\ Calling(i)
          /\ CanSend(Received(i))
          /\ c \notin rst
          /\ taken' = [taken EXCEPT ![c] = @ + Consumed(i)]
      BY <1>1, <1>8 DEF HandleSend, RecvDone
    <2>2. Received(i) = f
      BY <2>1, ReceivedFacts
    <2>3. /\ InUse(i) /\ Scanning(i)
          /\ f \in ClientState /\ Alternates(f) /\ f.in_use
          /\ f.write_available
          /\ ~f.awaiting_read
          /\ Writable(c)
          /\ c \in Conns
      BY <1>1, <2>1, <2>2, CallFacts DEF CanSend
    <2>4. taken' = taken
      <3>1. Consumed(i) = 0
        BY <2>3 DEF Consumed, CanRecv
      <3>. QED
        BY <1>3, <2>1, <3>1
    <2>5. Room(c) \in Int /\ Room(c) > 0
      <3>1. Len(sent[c]) \in Nat /\ got[c] \in Nat /\ SndBuf \in Nat
        BY <1>3, <2>3, LenProperties, PollAssumption DEF IInv, TypeOK
      <3>. QED
        BY <2>1, <2>3, <3>1 DEF Room, Writable
    <2>6. PICK n \in Accepted(c, f) :
             /\ sent' = [sent EXCEPT ![c] = @ \o SendChunk(f, n)]
             /\ Update(i, c, AfterSend(f, n))
      BY <1>1, <1>8, <2>2 DEF HandleSend, Keep
    <2>7. n \in 1..f.n_pending_outgoing_bytes
      BY <2>5, <2>6 DEF Accepted
    <2>. DEFINE u == AfterSend(f, n)
    <2>8. CanSend(f) /\ n \in 0..f.n_pending_outgoing_bytes
      BY <2>1, <2>2, <2>3, <2>7 DEF ClientState
    <2>9. u.in_use
      BY <2>3, <2>8, AfterSendType
    <2>10. /\ n \in 1..Len(Rest(f))
           /\ n \in 1..ReplyLen
           /\ SendChunk(f, n) = SubSeq(Rest(f), 1, n)
           /\ Rest(u) = SubSeq(Rest(f), n + 1, Len(Rest(f)))
      BY <2>3, <2>7, <2>8, RestOfSend
    <2>11. Rest(f) = Rest(client_states[i])
      <3>1. client_states[i] \in ClientState
        BY SlotsInEntries DEF IInv, TypeOK
      <3>2. /\ f.n_pending_outgoing_bytes = client_states[i].n_pending_outgoing_bytes
            /\ f.outgoing_bytes_offset = client_states[i].outgoing_bytes_offset
            /\ f.pending_outgoing_bytes = client_states[i].pending_outgoing_bytes
        BY <3>1 DEF Flagged, ClientState
      <3>. QED
        BY <3>2 DEF Rest, SendChunk
    <2>. HIDE DEF u
    <2>12. Update(i, c, u)
      BY <2>6 DEF u
    <2>13. /\ \A d \in Conns \ {c} : Owed(d)' = Owed(d)
           /\ Owed(c) = Rest(f)
           /\ Owed(c)' = Rest(u)
           /\ GivenUp' = GivenUp
           /\ c \notin GivenUp
      BY <1>1, <1>2, <2>3, <2>9, <2>11, <2>12, UpdateChangesOne
    <2>14. [d \in Conns |-> Owed(d)]' =
              [[d \in Conns |-> Owed(d)] EXCEPT ![c] = SubSeq(@, n + 1, Len(@))]
      BY <2>3, <2>10, <2>13
    <2>15. Service!Emit(c, n)
      BY <1>2, <2>3, <2>4, <2>6, <2>10, <2>13, <2>14 DEF Service!Emit
    <2>16. Service!Next
      BY <2>3, <2>10, <2>15 DEF Service!Next
    <2>. QED
      BY <2>16
  <1>9. CASE SendKills(i)
    <2>. DEFINE cs == {d \in Conns : Served(d)}
    <2>1. /\ Calling(i)
          /\ CanSend(Received(i))
          /\ taken' = [taken EXCEPT ![c] = @ + Consumed(i)]
          /\ pc' = "killed"
          /\ sent' = sent
      BY <1>1, <1>9 DEF SendKills, RecvDone
    <2>2. ~CanRecv(f) /\ InUse(i) /\ Scanning(i) /\ c \in Conns
      BY <1>1, <2>1, CallFacts, ReceivedFacts DEF CanRecv, CanSend
    <2>3. taken' = taken
      BY <1>3, <2>1, <2>2 DEF Consumed
    <2>4. c \in cs
      BY <1>1, <2>2 DEF Served, Scanning
    <2>5. \A d : ~Served(d)' /\ Owed(d)' = <<>>
      BY <2>1 DEF Served, Owed
    <2>6. \A d : ~Served(d) => Owed(d) = <<>>
      BY OwedBySlot DEF OwedFact
    <2>7. \A d \in Conns : Served(d) => d \in open
      BY DEF IInv, SlotOwnership, Served
    <2>8. GivenUp' = GivenUp \cup cs
      BY <1>2, <2>5, <2>7 DEF GivenUp, IInv, TypeOK
    <2>9. [d \in Conns |-> Owed(d)]' =
             [d \in Conns |-> IF d \in cs THEN <<>> ELSE [e \in Conns |-> Owed(e)][d]]
      BY <2>5, <2>6
    <2>10. cs \in (SUBSET Conns) \ {{}}
      BY <2>4
    <2>. HIDE DEF cs
    <2>11. Service!End(cs)
      BY <1>2, <2>1, <2>3, <2>8, <2>9 DEF Service!End
    <2>12. Service!Next
      BY <2>10, <2>11 DEF Service!Next
    <2>. QED
      BY <2>12
  <1>. QED
    BY <1>4, <1>5, <1>6, <1>7, <1>8, <1>9 DEF Scan

LEMMA SameSlots ==
    ASSUME SlotOwnership, SlotOwnership', pc # "killed", pc' # "killed",
           \A j \in Slots : /\ InUse(j)' <=> InUse(j)
                            /\ client_states'[j] = client_states[j]
                            /\ pollfds'[j].fd = pollfds[j].fd
    PROVE  \A d : (Served(d)' <=> Served(d)) /\ Owed(d)' = Owed(d)
  <1>. SUFFICES ASSUME NEW d
                PROVE  (Served(d)' <=> Served(d)) /\ Owed(d)' = Owed(d)
    OBVIOUS
  <1>1. OwedFact /\ OwedFact'
    BY OwedBySlot, OwedBySlotNext
  <1>2. Served(d)' <=> Served(d)
    BY DEF Served
  <1>3. CASE Served(d)
    <2>1. PICK j \in Slots : InUse(j) /\ pollfds[j].fd = d
      BY <1>3 DEF Served
    <2>2. InUse(j)' /\ pollfds'[j].fd = d /\ client_states'[j] = client_states[j]
      BY <2>1
    <2>3. Owed(d) = Rest(client_states[j])
      BY <1>1, <2>1 DEF OwedFact
    <2>4. Owed(pollfds[j].fd)' = Rest(client_states[j])'
      BY <1>1, <2>2 DEF OwedFact
    <2>5. Owed(d)' = Owed(pollfds[j].fd)'
      BY <2>2 DEF Owed, Served
    <2>6. Rest(client_states[j])' = Rest(client_states[j])
      BY <2>2 DEF Rest, SendChunk
    <2>. QED
      BY <1>2, <2>3, <2>4, <2>5, <2>6
  <1>4. CASE ~Served(d)
    BY <1>2, <1>4 DEF Owed
  <1>. QED
    BY <1>2, <1>3, <1>4

(***************************************************************************)
(* Accepting: a connection that finds a slot starts with nothing owed; one *)
(* that finds none, or lands in the entry past the array, is given up.     *)
(***************************************************************************)
LEMMA AcceptRefines ==
    ASSUME IInv, IInv', pc = "accept", pc' = "scan",
           UNCHANGED <<asked, taken, sent>>,
           NEW c, c \in Conns, c \notin open, open' = open \cup {c},
           \/ UNCHANGED client_states /\ \A j \in Slots : pollfds'[j].fd = pollfds[j].fd
           \/ \E i \in Entries : AcceptInto(i) /\ c = Head(backlog)
    PROVE  Service!Next \/ UNCHANGED Service!svars
  <1>. USE SlotsInEntries
  <1>1. /\ SlotOwnership /\ SlotOwnership' /\ TypeOK
        /\ OwedFact /\ OwedFact'
    BY OwedBySlot, OwedBySlotNext DEF IInv
  <1>2. ~Served(c) /\ Owed(c) = <<>>
    BY <1>1 DEF Served, SlotOwnership, OwedFact
  <1>3. ASSUME \A j \in Slots : /\ InUse(j)' <=> InUse(j)
                                /\ client_states'[j] = client_states[j]
                                /\ pollfds'[j].fd = pollfds[j].fd
        PROVE  Service!Next
    <2>1. \A d : Served(d)' <=> Served(d)
      BY <1>3 DEF Served
    <2>2. \A d \in Conns : Owed(d)' = Owed(d)
      BY <1>1, <1>3, SameSlots
    <2>3. GivenUp' = GivenUp \cup {c}
      BY <1>2, <2>1 DEF GivenUp
    <2>4. Service!End({c})
      BY <1>2, <2>2, <2>3 DEF Service!End
    <2>5. {c} \in (SUBSET Conns) \ {{}}
      OBVIOUS
    <2>. QED
      BY <2>4, <2>5 DEF Service!Next
  <1>4. CASE UNCHANGED client_states /\ \A j \in Slots : pollfds'[j].fd = pollfds[j].fd
    BY <1>3, <1>4 DEF InUse
  <1>5. ASSUME NEW i \in Entries, AcceptInto(i), c = Head(backlog)
        PROVE  Service!Next \/ UNCHANGED Service!svars
    <2>1. /\ client_states \in [Entries -> ClientState]
          /\ pollfds \in [Entries -> PollFd]
      BY <1>1 DEF TypeOK
    <2>2. /\ \A j \in Entries \ {i} : client_states'[j] = client_states[j]
          /\ \A j \in Slots \ {i} : pollfds'[j].fd = pollfds[j].fd
          /\ i \in Slots => pollfds'[i].fd = c
          /\ client_states'[i].in_use
          /\ client_states'[i].awaiting_read
      <3>1. /\ \A j \in Entries \ {i} : client_states'[j] = client_states[j]
            /\ client_states'[i].in_use
            /\ client_states'[i].awaiting_read
        <4>. DEFINE t == [client_states[i] EXCEPT !.in_use = TRUE,
                                                  !.awaiting_read = TRUE,
                                                  !.n_pending_outgoing_bytes = 0,
                                                  !.read_available = FALSE,
                                                  !.write_available = FALSE]
        <4>1. client_states' = [client_states EXCEPT ![i] = t]
          BY <1>5, <2>1 DEF AcceptInto, Fresh
        <4>2. t.in_use /\ t.awaiting_read
          BY <2>1 DEF ClientState
        <4>. QED
          BY <2>1, <4>1, <4>2
      <3>. DEFINE p == [pollfds EXCEPT ![i].fd = c]
      <3>2. pollfds' = [p EXCEPT ![MaxClients].revents = {}]
        BY <1>5 DEF AcceptInto
      <3>3. /\ \A j \in Entries \ {i} : p[j] = pollfds[j]
            /\ p[i] = [pollfds[i] EXCEPT !.fd = c]
        BY <2>1
      <3>4. \A j \in Slots : pollfds'[j] = p[j]
        BY <2>1, <3>2
      <3>5. [pollfds[i] EXCEPT !.fd = c].fd = c
        BY <2>1 DEF PollFd
      <3>. QED
        BY <3>1, <3>3, <3>4, <3>5
    <2>3. CASE i \notin Slots
      BY <1>3, <2>2, <2>3 DEF InUse
    <2>4. CASE i \in Slots
      <3>1. ~InUse(i) /\ InUse(i)'
        BY <1>5, <2>2 DEF AcceptInto, FirstUnused, Unused, InUse
      <3>2. \A j \in Slots \ {i} : InUse(j)' <=> InUse(j)
        BY <2>2 DEF InUse
      <3>3. Served(c)' /\ Owed(c)' = <<>>
        <4>1. /\ Served(pollfds[i].fd)'
              /\ Owed(pollfds[i].fd)' = Rest(client_states[i])'
          BY <1>1, <2>4, <3>1 DEF OwedFact
        <4>2. pollfds'[i].fd = c
          BY <2>2, <2>4
        <4>3. Served(c)' /\ Owed(c)' = Owed(pollfds[i].fd)'
          BY <4>1, <4>2 DEF Served, Owed
        <4>4. /\ client_states'[i] \in ClientState
              /\ Alternates(client_states'[i])
          BY <2>4, <3>1 DEF IInv, TypeOK, Alternation, Alternates
        <4>5. Rest(client_states'[i]) = <<>>
          BY <2>2, <4>4, NothingLeft
        <4>6. Rest(client_states[i])' = Rest(client_states'[i])
          BY DEF Rest, SendChunk
        <4>. QED
          BY <4>1, <4>3, <4>5, <4>6
      <3>4. ASSUME NEW d \in Conns \ {c}
            PROVE  (Served(d)' <=> Served(d)) /\ Owed(d)' = Owed(d)
        <4>1. Served(d)' <=> Served(d)
          BY <2>2, <2>4, <3>1, <3>2 DEF Served
        <4>2. CASE Served(d)
          <5>1. PICK j \in Slots : InUse(j) /\ pollfds[j].fd = d
            BY <4>2 DEF Served
          <5>2. j # i
            BY <3>1, <5>1
          <5>3. InUse(j)' /\ pollfds'[j].fd = d /\ client_states'[j] = client_states[j]
            BY <2>2, <3>2, <5>1, <5>2
          <5>4. Owed(d) = Rest(client_states[j])
            BY <1>1, <5>1 DEF OwedFact
          <5>5. Owed(pollfds[j].fd)' = Rest(client_states[j])'
            BY <1>1, <5>3 DEF OwedFact
          <5>6. Owed(d)' = Owed(pollfds[j].fd)'
            BY <5>3 DEF Owed, Served
          <5>7. Rest(client_states[j])' = Rest(client_states[j])
            BY <5>3 DEF Rest, SendChunk
          <5>. QED
            BY <4>1, <5>4, <5>5, <5>6, <5>7
        <4>3. CASE ~Served(d)
          BY <4>1, <4>3 DEF Owed
        <4>. QED
          BY <4>2, <4>3
      <3>5. \A d \in Conns : Owed(d)' = Owed(d)
        BY <1>2, <3>3, <3>4
      <3>6. GivenUp' = GivenUp
        BY <1>1, <3>3, <3>4 DEF GivenUp, TypeOK
      <3>. QED
        BY <3>5, <3>6, SameServiceStutters DEF SameService
    <2>. QED
      BY <2>3, <2>4
  <1>. QED
    BY <1>4, <1>5

\* Poll, a failed accept4 and the clients' other actions change nothing that
\* the service shows.
LEMMA QuietStepRefines ==
    ASSUME IInv, IInv', pc # "killed", pc' # "killed",
           UNCHANGED <<client_states, asked, taken, sent, open>>,
           \A j \in Slots : pollfds'[j].fd = pollfds[j].fd
    PROVE  UNCHANGED Service!svars
  <1>1. SlotOwnership /\ SlotOwnership'
    BY DEF IInv
  <1>2. \A d : (Served(d)' <=> Served(d)) /\ Owed(d)' = Owed(d)
    BY <1>1, SameSlots DEF InUse
  <1>3. GivenUp' = GivenUp
    BY <1>2 DEF GivenUp
  <1>. QED
    BY <1>2, <1>3, SameServiceStutters DEF SameService

LEMMA ClientRefines ==
    ASSUME NEW c \in Conns, ClientStep(c)
    PROVE  Service!Next \/ UNCHANGED Service!svars
  <1>1. UNCHANGED <<pollfds, client_states, pc, open, taken, sent>>
    BY DEF ClientStep, Connect, ClientAsk, ClientRead, ClientClose, ClientReset,
           server, kernel
  <1>2. \A d : Served(d)' <=> Served(d)
    BY <1>1 DEF Served, InUse
  <1>3. \A d \in Conns : Owed(d)' = Owed(d)
    BY <1>1, <1>2 DEF Owed, SendChunk, InUse
  <1>4. GivenUp' = GivenUp
    BY <1>1, <1>2 DEF GivenUp
  <1>5. CASE UNCHANGED asked
    BY <1>1, <1>3, <1>4, <1>5, SameServiceStutters DEF SameService
  <1>6. ASSUME NEW b \in Request, ClientAsk(c, b)
        PROVE  Service!Next
    <2>1. Service!Ask(c, b)
      BY <1>1, <1>3, <1>4, <1>6 DEF Service!Ask, ClientAsk
    <2>2. b \in Service!Request
      BY DEF Service!Request, Request
    <2>. QED
      BY <2>1, <2>2 DEF Service!Next
  <1>. QED
    BY <1>5, <1>6 DEF ClientStep, Connect, ClientRead, ClientClose, ClientReset,
                      clients

LEMMA StepRefines ==
    IInv /\ IInv' /\ [Next]_vars => [Service!Next]_(Service!svars)
  <1>. SUFFICES ASSUME IInv, IInv', [Next]_vars
                PROVE  Service!Next \/ UNCHANGED Service!svars
    OBVIOUS
  <1>. USE SlotsInEntries
  <1>1. TypeOK /\ BacklogFresh
    BY DEF IInv
  <1>2. CASE Poll
    <2>1. \A j \in Slots : pollfds'[j].fd = pollfds[j].fd
      BY <1>1, <1>2 DEF Poll, TypeOK, PollFd
    <2>. QED
      BY <1>2, <2>1, QuietStepRefines DEF Poll, kernel, clients
  <1>3. CASE AcceptFails
    <2>1. \A j \in Slots : pollfds'[j].fd = pollfds[j].fd
      BY <1>1, <1>3, ClearListener DEF AcceptFails, TypeOK
    <2>. QED
      BY <1>3, <2>1, QuietStepRefines DEF AcceptFails, kernel, clients
  <1>4. CASE AcceptNoSlot
    <2>1. \A j \in Slots : pollfds'[j].fd = pollfds[j].fd
      BY <1>1, <1>4, ClearListener DEF AcceptNoSlot, TypeOK
    <2>2. Head(backlog) \in Conns /\ Head(backlog) \notin open
      BY <1>1, <1>4, TakeFromBacklog DEF AcceptNoSlot
    <2>. QED
      BY <1>4, <2>1, <2>2, AcceptRefines DEF AcceptNoSlot, clients
  <1>5. ASSUME NEW i \in Entries, AcceptInto(i)
        PROVE  Service!Next \/ UNCHANGED Service!svars
    <2>1. Head(backlog) \in Conns /\ Head(backlog) \notin open
      BY <1>1, <1>5, TakeFromBacklog DEF AcceptInto
    <2>2. /\ pc = "accept" /\ pc' = "scan"
          /\ UNCHANGED <<asked, taken, sent>>
          /\ open' = open \cup {Head(backlog)}
      BY <1>5 DEF AcceptInto, clients
    <2>3. PICK c : c = Head(backlog)
      OBVIOUS
    <2>. QED
      BY <1>5, <2>1, <2>2, <2>3, AcceptRefines
  <1>6. ASSUME NEW i \in Slots, Scan(i)
        PROVE  Service!Next \/ UNCHANGED Service!svars
    BY <1>6, ScanRefines
  <1>7. ASSUME NEW c \in Conns, ClientStep(c)
        PROVE  Service!Next \/ UNCHANGED Service!svars
    BY <1>7, ClientRefines
  <1>8. CASE UNCHANGED vars
    <2>1. /\ UNCHANGED <<pollfds, client_states, pc, open, asked, taken, sent>>
      BY <1>8 DEF vars
    <2>2. \A d : Served(d)' <=> Served(d)
      BY <2>1 DEF Served, InUse
    <2>3. \A d \in Conns : Owed(d)' = Owed(d)
      BY <2>1, <2>2 DEF Owed, SendChunk, InUse
    <2>4. GivenUp' = GivenUp
      BY <2>1, <2>2 DEF GivenUp
    <2>. QED
      BY <2>1, <2>3, <2>4, SameServiceStutters DEF SameService
  <1>. QED
    BY <1>2, <1>3, <1>4, <1>5, <1>6, <1>7, <1>8 DEF Next, ServerStep

LEMMA InitRefines == Init => Service!Init
  <1>. SUFFICES ASSUME Init PROVE Service!Init
    OBVIOUS
  <1>1. \A d : ~Served(d)
    <2>1. ASSUME NEW i \in Slots PROVE client_states[i].in_use = FALSE
      <3>1. i \in Entries /\ i # Phantom
        BY SlotsInEntries, PollAssumption DEF Phantom, Slots
      <3>2. client_states[i] = FreeState
        <4>1. PICK garbage \in BOOLEAN :
                 client_states = [k \in Entries |->
                    IF k = Phantom THEN [FreeState EXCEPT !.in_use = garbage]
                    ELSE FreeState]
          BY DEF Init
        <4>. QED
          BY <3>1, <4>1
      <3>. QED
        BY <3>2 DEF FreeState
    <2>. QED
      BY <2>1 DEF Served, InUse
  <1>2. \A d : Owed(d) = <<>>
    BY <1>1 DEF Owed
  <1>3. GivenUp = {}
    BY DEF Init, GivenUp
  <1>. QED
    BY <1>2, <1>3 DEF Init, Service!Init

(***************************************************************************)
(* Every behaviour of the poll-based server is a behaviour of the PIGen    *)
(* service: requests are taken in order, each is answered with its whole   *)
(* reply before the next is taken, and nothing is sent on a connection     *)
(* that was given up.                                                      *)
(***************************************************************************)
THEOREM Refinement == Spec => ImplementsService
  BY InitRefines, StepRefines, Invariance, PTL DEF Spec, ImplementsService, Service!Spec

--------------------------------------------------------------------------------
(* All slots taken *)

\* Slots in use hold different open connections.
LEMMA SlotsAreOpen ==
    ASSUME IInv, \A i \in Slots : InUse(i)
    PROVE  Cardinality(open) >= MaxClients
  <1>. DEFINE f == [i \in Slots |-> pollfds[i].fd]
  <1>1. f \in Injection(Slots, open)
    BY DEF IInv, SlotOwnership, Injection, IsInjective
  <1>2. IsFiniteSet(open)
    BY FS_Subset, PollAssumption DEF IInv, TypeOK
  <1>3. Cardinality(Slots) <= Cardinality(open)
    BY <1>1, <1>2, FS_Injection
  <1>4. Cardinality(Slots) = MaxClients
    <2>1. 0 \in Int /\ MaxClients - 1 \in Int /\ ~(0 > MaxClients - 1)
      BY PollAssumption
    <2>2. Cardinality(0..(MaxClients - 1)) = MaxClients - 1 - 0 + 1
      BY <2>1, FS_Interval
    <2>. QED
      BY <2>2, PollAssumption DEF Slots
  <1>. QED
    BY <1>2, <1>3, <1>4, FS_CardinalityType, PollAssumption

\* The connection that finds them so is one more than there are slots.
LEMMA OneTooMany ==
    ASSUME IInv, pc = "accept", backlog # <<>>, backlog' = Tail(backlog),
           open' = open \cup {Head(backlog)}, \A i \in Slots : InUse(i)
    PROVE  Cardinality(open') > MaxClients
  <1>1. Head(backlog) \notin open
    BY TakeFromBacklog DEF IInv
  <1>2. IsFiniteSet(open)
    BY FS_Subset, PollAssumption DEF IInv, TypeOK
  <1>3. Cardinality(open') = Cardinality(open) + 1
    BY <1>1, <1>2, FS_AddElement
  <1>. QED
    BY <1>2, <1>3, SlotsAreOpen, FS_CardinalityType, PollAssumption

\* Connections stay open.
LEMMA OpenGrows ==
    ASSUME IInv, IInv', [Next]_vars
    PROVE  /\ open \subseteq open'
           /\ Cardinality(open) \in Nat /\ Cardinality(open') \in Nat
           /\ Cardinality(open) <= Cardinality(open')
  <1>1. open \subseteq open'
    BY DEF Next, ServerStep, Poll, AcceptFails, AcceptInto, AcceptNoSlot, Scan, ScanFree,
           ScanIdle, RecvEnds, HandleRecv, HandleSend, SendFails, SendKills, kernel,
           ClientStep, Connect, ClientAsk, ClientRead, ClientClose, ClientReset, vars
  <1>2. IsFiniteSet(open) /\ IsFiniteSet(open')
    BY FS_Subset, PollAssumption DEF IInv, TypeOK
  <1>. QED
    BY <1>1, <1>2, FS_Subset, FS_CardinalityType

LEMMA ListenerStep == IInv /\ IInv' /\ ListenerKept /\ [Next]_vars => ListenerKept'
  <1>. SUFFICES ASSUME IInv, IInv', ListenerKept, [Next]_vars
                PROVE  ListenerKept'
    OBVIOUS
  <1>. USE SlotsInEntries
  <1>1. TypeOK
    BY DEF IInv
  <1>2. ASSUME pollfds'[MaxClients].fd = pollfds[MaxClients].fd
        PROVE  ListenerKept'
    BY <1>2, OpenGrows, PollAssumption DEF ListenerKept
  <1>3. CASE Poll
    <2>1. pollfds'[MaxClients].fd = pollfds[MaxClients].fd
      BY <1>1, <1>3 DEF Poll, TypeOK, PollFd, Entries
    <2>. QED
      BY <1>2, <2>1
  <1>4. CASE AcceptFails \/ AcceptNoSlot
    <2>1. pollfds' = [pollfds EXCEPT ![MaxClients].revents = {}]
      BY <1>4 DEF AcceptFails, AcceptNoSlot
    <2>2. pollfds'[MaxClients].fd = pollfds[MaxClients].fd
      BY <1>1, <2>1 DEF TypeOK, PollFd, Entries
    <2>. QED
      BY <1>2, <2>2
  <1>5. ASSUME NEW i \in Entries, AcceptInto(i)
        PROVE  ListenerKept'
    <2>1. CASE i = MaxClients
      <3>1. \A j \in Slots : InUse(j)
        BY <1>5, <2>1, PollAssumption DEF AcceptInto, FirstUnused, Unused, InUse, Slots, Entries
      <3>2. Cardinality(open') > MaxClients
        BY <1>5, <3>1, OneTooMany DEF AcceptInto
      <3>. QED
        BY <3>2, OpenGrows, PollAssumption DEF ListenerKept
    <2>2. CASE i # MaxClients
      <3>. DEFINE p == [pollfds EXCEPT ![i].fd = Head(backlog)]
      <3>1. MaxClients \in Entries /\ p[MaxClients] = pollfds[MaxClients]
        BY <1>1, <2>2, PollAssumption DEF TypeOK, Entries
      <3>2. pollfds' = [p EXCEPT ![MaxClients].revents = {}]
        BY <1>5 DEF AcceptInto
      <3>3. pollfds'[MaxClients] = [p[MaxClients] EXCEPT !.revents = {}]
        BY <1>1, <3>1, <3>2 DEF TypeOK
      <3>4. pollfds'[MaxClients].fd = pollfds[MaxClients].fd
        BY <1>1, <3>1, <3>3 DEF TypeOK, PollFd
      <3>. QED
        BY <1>2, <3>4
    <2>. QED
      BY <2>1, <2>2
  <1>6. ASSUME NEW i \in Slots, Scan(i)
        PROVE  ListenerKept'
    <2>1. i # MaxClients
      BY PollAssumption DEF Slots
    <2>2. \/ pollfds' = pollfds
          \/ \E x : pollfds' = [pollfds EXCEPT ![i] = x]
      BY <1>6 DEF Scan, ScanFree, ScanIdle, RecvEnds, HandleRecv, HandleSend, SendFails,
                  SendKills, Keep, Drop, Update
    <2>3. pollfds'[MaxClients] = pollfds[MaxClients]
      BY <1>1, <2>1, <2>2 DEF TypeOK, Entries
    <2>. QED
      BY <1>2, <2>3
  <1>7. ASSUME \/ \E c \in Conns : ClientStep(c)
               \/ UNCHANGED vars
        PROVE  ListenerKept'
    <2>1. pollfds' = pollfds
      BY <1>7 DEF ClientStep, Connect, ClientAsk, ClientRead, ClientClose, ClientReset,
                  server, vars
    <2>. QED
      BY <1>2, <2>1
  <1>. QED
    BY <1>3, <1>4, <1>5, <1>6, <1>7 DEF Next, ServerStep

(***************************************************************************)
(* The loop that runs one entry past client_states (line 128) overwrites   *)
(* the listener's pollfd only when more than MaxClients connections were   *)
(* accepted: until then every free slot comes before the entry past the    *)
(* end, and slots and open connections correspond.                         *)
(***************************************************************************)
THEOREM ListenerIsKept == Spec => []ListenerKept
  <1>1. Init => ListenerKept
    BY PollAssumption DEF Init, ListenerKept, Entries
  <1>. QED
    BY <1>1, ListenerStep, Invariance, PTL DEF Spec

--------------------------------------------------------------------------------
(* Who is given up *)

SP == INSTANCE PiServiceProofs WITH
    owed <- [c \in Conns |-> Owed(c)],
    out <- sent,
    ended <- GivenUp

LEMMA SameDue == \A c : Service!Due(c) = SP!Due(c)
  BY DEF Service!Due, SP!Due, Service!Replies, SP!Replies, Service!AnswerTo,
         SP!AnswerTo, Service!Reply, SP!Reply

\* What the service has promised in closed form.
Promised == SP!Typed /\ Service!AnswersExactly

LEMMA PromiseKept == Spec => []Promised
  <1>1. Service!Init <=> SP!Init
    BY DEF Service!Init, SP!Init
  <1>2. [Service!Next]_(Service!svars) <=> [SP!Next]_(SP!svars)
    BY DEF Service!Next, SP!Next, Service!svars, SP!svars, Service!Ask, SP!Ask,
           Service!Take, SP!Take, Service!Drain, SP!Drain, Service!Emit, SP!Emit,
           Service!End, SP!End, Service!Request, SP!Request,
           Service!AnswerTo, SP!AnswerTo, Service!Reply, SP!Reply
  <1>3. Service!AnswersExactly <=> SP!AnswersExactly
    BY SameDue DEF Service!AnswersExactly, SP!AnswersExactly, Service!IsPrefix, SP!IsPrefix
  <1>4. SP!Spec => [](SP!Typed /\ SP!AnswersExactly)
    BY PollAssumption, SP!ServiceAnswersExactly
  <1>. QED
    BY <1>1, <1>2, <1>3, <1>4, Refinement, PTL
       DEF ImplementsService, Service!Spec, SP!Spec, Promised

\* Bytes are received and sent only on a connection that has a slot.
LEMMA OnlyServedMoves ==
    ASSUME IInv, [Next]_vars, NEW c \in Conns, ~Served(c)
    PROVE  taken'[c] = taken[c] /\ sent'[c] = sent[c]
  <1>1. taken \in [Conns -> Nat] /\ sent \in [Conns -> Seq(ReplyByte)]
    BY DEF IInv, TypeOK
  <1>2. ASSUME NEW i \in Slots, Scan(i)
        PROVE  taken'[c] = taken[c] /\ sent'[c] = sent[c]
    <2>1. CASE ScanFree(i) \/ ScanIdle(i) \/ RecvEnds(i)
      BY <2>1 DEF ScanFree, ScanIdle, RecvEnds, kernel
    <2>2. CASE HandleRecv(i) \/ HandleSend(i) \/ SendFails(i) \/ SendKills(i)
      <3>1. /\ Calling(i)
            /\ taken' = [taken EXCEPT ![pollfds[i].fd] = @ + Consumed(i)]
            /\ sent' = sent \/ \E x : sent' = [sent EXCEPT ![pollfds[i].fd] = x]
        BY <2>2 DEF HandleRecv, HandleSend, SendFails, SendKills, RecvDone
      <3>2. pollfds[i].fd # c
        BY <3>1 DEF Served, Calling, Scanning, InUse
      <3>. QED
        BY <1>1, <3>1, <3>2
    <2>. QED
      BY <1>2, <2>1, <2>2 DEF Scan
  <1>3. CASE Poll \/ AcceptFails \/ AcceptNoSlot \/ UNCHANGED vars
    BY <1>3 DEF Poll, AcceptFails, AcceptNoSlot, vars, kernel
  <1>4. ASSUME NEW i \in Entries, AcceptInto(i)
        PROVE  taken'[c] = taken[c] /\ sent'[c] = sent[c]
    BY <1>4 DEF AcceptInto
  <1>5. ASSUME NEW d \in Conns, ClientStep(d)
        PROVE  taken'[c] = taken[c] /\ sent'[c] = sent[c]
    BY <1>5 DEF ClientStep, Connect, ClientAsk, ClientRead, ClientClose, ClientReset, kernel
  <1>. QED
    BY <1>2, <1>3, <1>4, <1>5 DEF Next, ServerStep

\* Who left asks for nothing more, and does not come back; nor does a process.
LEMMA LeftForGood ==
    ASSUME IInv, [Next]_vars
    PROVE  /\ fin \subseteq fin' /\ rst \subseteq rst'
           /\ \A c \in fin \cup rst : asked'[c] = asked[c]
           /\ pc = "killed" => pc' = "killed"
  <1>1. asked \in [Conns -> Seq(Request)] /\ fin \cup rst \subseteq Conns
    BY DEF IInv, TypeOK
  <1>2. CASE ServerStep
    <2>1. UNCHANGED clients /\ pc # "killed"
      BY <1>2 DEF ServerStep, Poll, AcceptFails, AcceptInto, AcceptNoSlot, Scan, ScanFree,
             ScanIdle, RecvEnds, HandleRecv, HandleSend, SendFails, SendKills, RecvDone,
             Calling, Scanning
    <2>. QED
      BY <2>1 DEF clients
  <1>3. ASSUME NEW d \in Conns, ClientStep(d)
        PROVE  /\ fin \subseteq fin' /\ rst \subseteq rst' /\ pc' = pc
               /\ \A c \in fin \cup rst : asked'[c] = asked[c]
    BY <1>1, <1>3 DEF ClientStep, Connect, ClientAsk, ClientRead, ClientClose, ClientReset,
           server, clients
  <1>4. CASE UNCHANGED vars
    BY <1>4 DEF vars
  <1>. QED
    BY <1>2, <1>3, <1>4 DEF Next

\* How a connection that has a slot loses it.
LEMMA LosesSlot ==
    ASSUME IInv, IInv', [Next]_vars, NEW c \in Conns, Served(c), ~Served(c)', pc' # "killed"
    PROVE  \E i \in Slots : pollfds[i].fd = c /\ (RecvEnds(i) \/ SendFails(i))
  <1>. USE SlotsInEntries
  <1>1. /\ pollfds \in [Entries -> PollFd]
        /\ client_states \in [Entries -> ClientState]
    BY DEF IInv, TypeOK
  <1>2. PICK j \in Slots : InUse(j) /\ pollfds[j].fd = c
    BY DEF Served
  <1>3. ~(client_states'[j].in_use /\ pollfds'[j].fd = c)
    BY DEF Served, InUse
  <1>4. ~UNCHANGED <<pollfds, client_states>>
    BY <1>2, <1>3 DEF InUse
  <1>5. ~Poll
    BY <1>1, <1>2, <1>3 DEF Poll, PollFd, InUse
  <1>6. ~AcceptFails /\ ~AcceptNoSlot
    <2>1. ASSUME pollfds' = [pollfds EXCEPT ![MaxClients].revents = {}],
                 UNCHANGED client_states
          PROVE  FALSE
      BY <1>2, <1>3, <2>1, ClearListener DEF IInv, TypeOK, InUse
    <2>. QED
      BY <2>1 DEF AcceptFails, AcceptNoSlot
  <1>7. ASSUME NEW i \in Entries, AcceptInto(i)
        PROVE  FALSE
    <2>1. i # j /\ j # MaxClients
      BY <1>2, <1>7, PollAssumption DEF AcceptInto, FirstUnused, Unused, InUse, Slots
    <2>2. client_states'[j] = client_states[j] /\ pollfds'[j] = pollfds[j]
      BY <1>1, <1>7, <2>1 DEF AcceptInto
    <2>. QED
      BY <1>2, <1>3, <2>2 DEF InUse
  <1>8. ASSUME NEW d \in Conns, ClientStep(d)
        PROVE  FALSE
    BY <1>4, <1>8 DEF ClientStep, Connect, ClientAsk, ClientRead, ClientClose, ClientReset,
           server
  <1>9. PICK i \in Slots : Scan(i)
    BY <1>4, <1>5, <1>6, <1>7, <1>8 DEF Next, ServerStep, vars
  <1>10. ~ScanFree(i) /\ ~SendKills(i)
    BY <1>4 DEF ScanFree, SendKills
  <1>11. ASSUME NEW s, Keep(i, s), s.in_use
         PROVE  FALSE
    <2>1. /\ client_states'[j] = IF j = i THEN s ELSE client_states[j]
          /\ pollfds'[j].fd = pollfds[j].fd
      BY <1>1, <1>11 DEF Keep, Update
    <2>. QED
      BY <1>2, <1>3, <1>11, <2>1 DEF InUse
  <1>12. ~ScanIdle(i)
    BY <1>11 DEF ScanIdle
  <1>13. ~HandleRecv(i)
    BY <1>11, ReceivedFacts DEF HandleRecv, RecvDone
  <1>14. ~HandleSend(i)
    <2>. SUFFICES ASSUME HandleSend(i) PROVE FALSE
      OBVIOUS
    <2>. DEFINE s == Received(i)
    <2>1. Calling(i) /\ CanSend(s)
      BY DEF HandleSend, RecvDone
    <2>2. s \in ClientState /\ s.in_use /\ Alternates(s)
      BY <2>1, ReceivedFacts
    <2>3. PICK n \in Accepted(pollfds[i].fd, s) : Keep(i, AfterSend(s, n))
      BY DEF HandleSend
    <2>4. n \in 0..s.n_pending_outgoing_bytes
      BY <2>2, <2>3 DEF Accepted, ClientState
    <2>5. AfterSend(s, n).in_use
      BY <2>1, <2>2, <2>4, AfterSendType
    <2>. QED
      BY <1>11, <2>3, <2>5
  <1>15. CASE RecvEnds(i) \/ SendFails(i)
    <2>1. \A k \in Slots \ {i} : /\ client_states'[k] = client_states[k]
                                  /\ pollfds'[k] = pollfds[k]
      BY <1>1, <1>15 DEF RecvEnds, SendFails, Drop, Update
    <2>2. i = j
      BY <1>2, <1>3, <2>1 DEF InUse
    <2>. QED
      BY <1>2, <1>15, <2>2
  <1>. QED
    BY <1>9, <1>10, <1>12, <1>13, <1>14, <1>15 DEF Scan

\* How a connection is given up without ever having had a slot.
LEMMA GetsNoSlot ==
    ASSUME IInv, IInv', [Next]_vars, NEW c \in open', c \notin open, ~Served(c)'
    PROVE  Cardinality(open') > MaxClients
  <1>. USE SlotsInEntries
  <1>1. /\ pollfds \in [Entries -> PollFd]
        /\ client_states \in [Entries -> ClientState]
    BY DEF IInv, TypeOK
  <1>2. AcceptNoSlot \/ \E i \in Entries : AcceptInto(i)
    BY DEF Next, ServerStep, Poll, AcceptFails, Scan, ScanFree, ScanIdle, RecvEnds,
           HandleRecv, HandleSend, SendFails, SendKills, kernel, ClientStep, Connect,
           ClientAsk, ClientRead, ClientClose, ClientReset, vars
  <1>3. /\ pc = "accept" /\ pc' = "scan" /\ backlog # <<>> /\ backlog' = Tail(backlog)
        /\ open' = open \cup {Head(backlog)}
    BY <1>2 DEF AcceptNoSlot, AcceptInto
  <1>4. c = Head(backlog)
    BY <1>3
  <1>5. CASE AcceptNoSlot
    <2>1. \A i \in Slots : InUse(i)
      BY <1>5 DEF AcceptNoSlot, Unused, InUse
    <2>. QED
      BY <1>3, <2>1, OneTooMany
  <1>6. ASSUME NEW i \in Entries, AcceptInto(i)
        PROVE  Cardinality(open') > MaxClients
    <2>1. CASE i \in Slots
      <3>. DEFINE p == [pollfds EXCEPT ![i].fd = c]
      <3>1. i # MaxClients /\ p[i].fd = c
        BY <1>1, <2>1, PollAssumption DEF Slots, PollFd
      <3>2. pollfds' = [p EXCEPT ![MaxClients].revents = {}]
        BY <1>4, <1>6 DEF AcceptInto
      <3>3. pollfds'[i] = p[i]
        BY <1>1, <3>1, <3>2
      <3>4. client_states'[i].in_use
        BY <1>1, <1>6 DEF AcceptInto, Fresh, ClientState
      <3>. QED
        BY <1>3, <2>1, <3>1, <3>3, <3>4 DEF Served, InUse
    <2>2. CASE i \notin Slots
      <3>1. \A j \in Slots : InUse(j)
        BY <1>6, <2>2, PollAssumption DEF AcceptInto, FirstUnused, Unused, InUse, Slots, Entries
      <3>. QED
        BY <1>3, <3>1, OneTooMany
    <2>. QED
      BY <2>1, <2>2
  <1>. QED
    BY <1>2, <1>5, <1>6

\* The reasons there are to give c up.
Excused(c) ==
    \/ c \in rst
    \/ pc = "killed"
    \/ c \in fin /\ taken[c] = Len(asked[c]) /\ sent[c] = Service!Due(c)
    \/ Cardinality(open) > MaxClients /\ taken[c] = 0 /\ sent[c] = <<>>

LEMMA DropExcused ==
    ASSUME IInv, IInv', Promised, NEW i \in Slots, RecvEnds(i) \/ SendFails(i),
           NEW c \in Conns, c = pollfds[i].fd
    PROVE  Excused(c)'
  <1>. USE SlotsInEntries
  <1>1. CASE SendFails(i)
    BY <1>1 DEF SendFails, Excused, clients
  <1>2. CASE RecvEnds(i)
    <2>. DEFINE f == Flagged(i)
    <2>1. /\ Calling(i) /\ CanRecv(f) /\ StreamOver(c)
          /\ UNCHANGED <<asked, taken, sent, open, fin, rst>>
      BY <1>2 DEF RecvEnds, kernel, clients
    <2>2. /\ InUse(i) /\ pc # "killed"
          /\ client_states[i].awaiting_read
      BY <2>1, CallFacts DEF CanRecv, Scanning
    <2>3. Rest(client_states[i]) = <<>>
      BY <2>2, NothingLeft DEF IInv, TypeOK, Alternation
    <2>4. Served(c) /\ Owed(c) = <<>>
      BY <2>2, <2>3, OwedBySlot DEF OwedFact, IInv
    <2>5. sent[c] = Service!Due(c)
      <3>1. c \notin GivenUp
        BY <2>4 DEF GivenUp
      <3>2. sent[c] \o <<>> = Service!Due(c) /\ sent[c] \in Seq(ReplyByte)
        BY <2>4, <3>1 DEF Promised, Service!AnswersExactly, IInv, TypeOK
      <3>. QED
        BY <3>2, ConcatEmptySeq
    <2>6. taken[c] = Len(asked[c])
      <3>1. /\ ~(taken[c] < Len(asked[c])) /\ taken[c] <= Len(asked[c])
            /\ asked[c] \in Seq(Request) /\ taken[c] \in Nat
        BY <2>1 DEF StreamOver, HasByte, Promised, SP!Typed, IInv, TypeOK
      <3>. QED
        BY <3>1, LenProperties
    <2>7. Service!Due(c)' = Service!Due(c)
      BY <2>1 DEF Service!Due, Service!Replies, Service!AnswerTo, Service!Reply
    <2>8. c \in fin \cup rst
      BY <2>1 DEF StreamOver
    <2>. QED
      BY <2>1, <2>5, <2>6, <2>7, <2>8 DEF Excused
  <1>. QED
    BY <1>1, <1>2

\* A reason that once held goes on holding while c has no slot.
LEMMA ExcusedStays ==
    ASSUME IInv, IInv', [Next]_vars, NEW c \in GivenUp, Excused(c)
    PROVE  Excused(c)'
  <1>1. c \in Conns /\ ~Served(c)
    BY DEF GivenUp, IInv, TypeOK
  <1>2. taken'[c] = taken[c] /\ sent'[c] = sent[c]
    BY <1>1, OnlyServedMoves
  <1>3. /\ fin \subseteq fin' /\ rst \subseteq rst'
        /\ c \in fin \cup rst => asked'[c] = asked[c]
        /\ pc = "killed" => pc' = "killed"
    BY LeftForGood
  <1>4. ASSUME c \in fin
        PROVE  Service!Due(c)' = Service!Due(c)
    <2>1. asked'[c] = asked[c]
      BY <1>3, <1>4
    <2>2. SubSeq(asked[c], 1, taken[c])' = SubSeq(asked[c], 1, taken[c])
      BY <1>2, <2>1
    <2>. DEFINE answer(s) == Service!Replies(s)
    <2>3. Service!Due(c) = answer(SubSeq(asked[c], 1, taken[c]))
      BY DEF Service!Due
    <2>4. Service!Due(c)' = answer(SubSeq(asked[c], 1, taken[c])')
      BY DEF Service!Due, Service!Replies, Service!AnswerTo, Service!Reply
    <2>. HIDE DEF answer
    <2>. QED
      BY <2>2, <2>3, <2>4
  <1>5. Cardinality(open) > MaxClients => Cardinality(open') > MaxClients
    BY OpenGrows, PollAssumption
  <1>. QED
    BY <1>2, <1>3, <1>4, <1>5 DEF Excused

\* Nothing happens to a connection before it is accepted.
NothingBefore == \A c \in Conns : c \notin open => taken[c] = 0 /\ sent[c] = <<>>

LEMMA NothingBeforeStep == IInv /\ IInv' /\ NothingBefore /\ [Next]_vars => NothingBefore'
  <1>. SUFFICES ASSUME IInv, IInv', NothingBefore, [Next]_vars, NEW c \in Conns, c \notin open'
                PROVE  taken'[c] = 0 /\ sent'[c] = <<>>
    BY DEF NothingBefore
  <1>1. c \notin open
    BY OpenGrows
  <1>2. ~Served(c)
    BY <1>1 DEF Served, IInv, SlotOwnership
  <1>. QED
    BY <1>1, <1>2, OnlyServedMoves DEF NothingBefore

LEMMA DroppedStep ==
    IInv /\ IInv' /\ Promised /\ NothingBefore /\ DroppedOnlyWhenDone /\ [Next]_vars
        => DroppedOnlyWhenDone'
  <1>. SUFFICES ASSUME IInv, IInv', Promised, NothingBefore, DroppedOnlyWhenDone,
                       [Next]_vars, NEW c \in GivenUp'
                PROVE  Excused(c)'
    BY DEF DroppedOnlyWhenDone, Excused
  <1>1. c \in open' /\ c \in Conns /\ ~Served(c)'
    BY DEF GivenUp, IInv, TypeOK
  <1>2. CASE c \in GivenUp
    BY <1>2, ExcusedStays DEF DroppedOnlyWhenDone, Excused
  <1>3. CASE c \notin GivenUp /\ c \in open
    <2>1. Served(c)
      BY <1>3 DEF GivenUp
    <2>. QED
      BY <1>1, <2>1, LosesSlot, DropExcused DEF Excused
  <1>4. CASE c \notin open
    <2>1. ~Served(c)
      BY <1>4 DEF Served, IInv, SlotOwnership
    <2>2. taken'[c] = 0 /\ sent'[c] = <<>>
      BY <1>1, <1>4, <2>1, OnlyServedMoves DEF NothingBefore
    <2>. QED
      BY <1>1, <1>4, <2>2, GetsNoSlot DEF Excused
  <1>. QED
    BY <1>2, <1>3, <1>4

(***************************************************************************)
(* The server gives up no client that could still be served: who lost its  *)
(* slot was reset, was answered everything it asked before it closed its   *)
(* side, or died with the process; who never had one came when all slots   *)
(* were taken.                                                             *)
(***************************************************************************)
THEOREM NobodyDroppedEarly == Spec => []DroppedOnlyWhenDone
  <1>1. Init => NothingBefore /\ DroppedOnlyWhenDone
    BY DEF Init, NothingBefore, DroppedOnlyWhenDone, GivenUp
  <1>. QED
    BY <1>1, NothingBeforeStep, DroppedStep, Invariance, PromiseKept, PTL DEF Spec
================================================================================
