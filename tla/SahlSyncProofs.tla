--------------------------- MODULE SahlSyncProofs ---------------------------
(***************************************************************************)
(* SahlSync and SahlRestore, proved for every number of tills, exchanges,  *)
(* payloads and faults.  Over the invariant IInv: what is marked synced is *)
(* on the server, the server holds only what was sealed, and the protocol  *)
(* implements OutletLog.  Beside it, each on an invariant of its own, the  *)
(* promises to the cashier: the book shows what was pulled, only a revoked *)
(* device stops, and in an outlet of two tills the cursor skips nothing.   *)
(* At the end, where disks are restored from copies and IInv no longer     *)
(* holds: the server never rewrites its history.                           *)
(***************************************************************************)
EXTENDS SahlRestore, FiniteSetTheorems, SequenceTheorems, TLAPS

-----------------------------------------------------------------------------
(***************************************************************************)
(* The inductive invariant.                                                *)
(***************************************************************************)

\* What makes an exchange sound: a batch under way was cut from the chain on
\* the till's disk; an open transaction goes past the tip it read; an
\* acknowledgement names a tip the server holds; a page holds committed
\* events of siblings.
HeldRow(d, row) == row.dev \in Device \ {d} /\ row.seq \in 1 .. Len(held[row.dev])

Sound(x) ==
    /\ x.phase \in {"push", "writing"} => IsPrefix(x.chain, log[x.dev])
    /\ x.phase = "writing" => x.tip < Len(x.chain)
    /\ x.phase \in {"repeating", "pushed"} => x.tip <= Len(held[x.dev])
    /\ x.phase = "pulled" => \A row \in x.page : HeldRow(x.dev, row)

WireSound == \A c \in Conn : Sound(conn[c])

\* The page a till is applying holds committed events of its siblings.
PageSound ==
    \A d \in Device : thread[d].at = "apply" =>
        \A row \in thread[d].page : HeldRow(d, row)

\* A till marks nothing synced that lies beyond the server's chain.
SyncedCovered == \A d \in Device : synced[d] <= Len(held[d])

\* The exchange a thread waits on is its own.
OwnsExchange ==
    \A d \in Device : Waiting(d) =>
        /\ conn[thread[d].conn].phase # "idle"
        /\ conn[thread[d].conn].dev = d

\* Every committed event has its server_seq.
Numbered == \A d \in Device : Len(pos[d]) = Len(held[d])

IInv ==
    /\ TypeOK
    /\ Numbered
    /\ HeldIsSealed
    /\ SyncedCovered
    /\ OwnsExchange
    /\ WireSound
    /\ PageSound

-----------------------------------------------------------------------------
(***************************************************************************)
(* Prefixes of sequences.                                                  *)
(***************************************************************************)

\* A prefix agrees with the longer sequence place by place.
LEMMA PrefixByIndex ==
    ASSUME NEW S, NEW s \in Seq(S), NEW t \in Seq(S)
    PROVE  IsPrefix(s, t) <=>
              Len(s) <= Len(t) /\ \A i \in 1 .. Len(s) : s[i] = t[i]
<1>1. ASSUME Len(s) <= Len(t)
      PROVE  /\ SubSeq(s, 1, Len(s)) \in Seq(S)
             /\ SubSeq(t, 1, Len(s)) \in Seq(S)
             /\ Len(SubSeq(s, 1, Len(s))) = Len(s)
             /\ Len(SubSeq(t, 1, Len(s))) = Len(s)
             /\ \A i \in 1 .. Len(s) : /\ SubSeq(s, 1, Len(s))[i] = s[i]
                                       /\ SubSeq(t, 1, Len(s))[i] = t[i]
  BY <1>1, SubSeqProperties
<1>2. ASSUME IsPrefix(s, t)
      PROVE  Len(s) <= Len(t) /\ \A i \in 1 .. Len(s) : s[i] = t[i]
  BY <1>1, <1>2 DEF IsPrefix
<1>3. ASSUME Len(s) <= Len(t), \A i \in 1 .. Len(s) : s[i] = t[i]
      PROVE  IsPrefix(s, t)
  <2>1. SubSeq(s, 1, Len(s)) = SubSeq(t, 1, Len(s))
    BY <1>1, <1>3, SeqEqual
  <2> QED BY <1>3, <2>1 DEF IsPrefix
<1> QED BY <1>2, <1>3

\* Selling more keeps what was a beginning a beginning.
LEMMA PrefixAppend ==
    ASSUME NEW S, NEW s \in Seq(S), NEW t \in Seq(S), NEW e \in S,
           IsPrefix(s, t)
    PROVE  IsPrefix(s, Append(t, e))
<1>1. Len(s) <= Len(t) /\ \A i \in 1 .. Len(s) : s[i] = t[i]
  BY PrefixByIndex
<1>2. /\ Append(t, e) \in Seq(S)
      /\ Len(Append(t, e)) = Len(t) + 1
      /\ \A i \in 1 .. Len(t) : Append(t, e)[i] = t[i]
  BY AppendProperties
<1>3. Len(s) <= Len(Append(t, e)) /\ \A i \in 1 .. Len(s) : s[i] = Append(t, e)[i]
  BY <1>1, <1>2
<1> QED BY <1>2, <1>3, PrefixByIndex

\* Cutting a chain gives a beginning of it.
LEMMA PrefixCut ==
    ASSUME NEW S, NEW t \in Seq(S), NEW n \in 0 .. Len(t)
    PROVE  /\ SubSeq(t, 1, n) \in Seq(S)
           /\ Len(SubSeq(t, 1, n)) = n
           /\ IsPrefix(SubSeq(t, 1, n), t)
<1>1. /\ SubSeq(t, 1, n) \in Seq(S)
      /\ Len(SubSeq(t, 1, n)) = n
      /\ \A i \in 1 .. n : SubSeq(t, 1, n)[i] = t[i]
  BY SubSeqProperties
<1>2. n <= Len(t)
  OBVIOUS
<1> QED
  <2> DEFINE cut == SubSeq(t, 1, n)
  <2>1. cut \in Seq(S) /\ Len(cut) = n /\ \A i \in 1 .. n : cut[i] = t[i]
    BY <1>1
  <2> HIDE DEF cut
  <2>2. IsPrefix(cut, t)
    BY <1>2, <2>1, PrefixByIndex
  <2> QED BY <2>1, <2>2 DEF cut

\* A beginning of a chain is that chain, cut at its length.
LEMMA PrefixIsCut ==
    ASSUME NEW S, NEW s \in Seq(S), NEW t \in Seq(S), IsPrefix(s, t)
    PROVE  Len(s) \in 0 .. Len(t) /\ s = SubSeq(t, 1, Len(s))
<1>1. Len(s) <= Len(t) /\ \A i \in 1 .. Len(s) : s[i] = t[i]
  BY PrefixByIndex
<1>2. /\ SubSeq(t, 1, Len(s)) \in Seq(S)
      /\ Len(SubSeq(t, 1, Len(s))) = Len(s)
      /\ \A i \in 1 .. Len(s) : SubSeq(t, 1, Len(s))[i] = t[i]
  BY <1>1, SubSeqProperties
<1> QED BY <1>1, <1>2, SeqEqual

\* Of two beginnings of one chain, the shorter is a beginning of the other.
LEMMA PrefixCompare ==
    ASSUME NEW S, NEW s \in Seq(S), NEW t \in Seq(S), NEW u \in Seq(S),
           IsPrefix(s, u), IsPrefix(t, u), Len(s) <= Len(t)
    PROVE  IsPrefix(s, t)
<1>1. /\ \A i \in 1 .. Len(s) : s[i] = u[i]
      /\ \A i \in 1 .. Len(t) : t[i] = u[i]
  BY PrefixByIndex
<1>2. \A i \in 1 .. Len(s) : s[i] = t[i]
  BY <1>1
<1> QED BY <1>2, PrefixByIndex

-----------------------------------------------------------------------------
(***************************************************************************)
(* Exchanges and threads, by phase.                                        *)
(***************************************************************************)

\* What each phase of an exchange carries.
LEMMA ExchangeFields ==
    ASSUME NEW x \in Exchange
    PROVE  /\ x.phase # "idle" => x.dev \in Device
           /\ x.phase = "push" =>
                 x.first \in Nat /\ x.chain \in Seq(Payload)
           /\ x.phase = "writing" =>
                 /\ x.tip \in Nat
                 /\ x.chain \in Seq(Payload)
                 /\ x.pos \in Seq(Nat)
           /\ x.phase \in {"repeating", "pushed"} => x.tip \in Nat
           /\ x.phase \in {"pull", "reading"} => x.cursor \in Nat
           /\ x.phase = "pulled" => x.page \subseteq Row /\ x.cursor \in Nat
           /\ x.phase = "refused" => x.why \in Rejection
BY DEF Exchange, Idle

\* A writing transaction is a record of these fields and of no others.
LEMMA WritingFields ==
    ASSUME NEW x \in Exchange, x.phase = "writing"
    PROVE  x \in [phase : {"writing"}, dev : Device, tip : Nat,
                  chain : Seq(Payload), pos : Seq(Nat)]
BY DEF Exchange, Idle

\* Every request, transaction and answer the handlers build is an exchange.
LEMMA ExchangeKinds ==
    /\ Idle \in Exchange
    /\ \A d \in Device :
          /\ \A n \in Nat, s \in Seq(Payload) : Push(d, n, s) \in Exchange
          /\ \A n \in Nat, s \in Seq(Payload), at \in Seq(Nat) :
                Writing(d, n, s, at) \in Exchange
          /\ \A n \in Nat : Repeating(d, n) \in Exchange /\ Pushed(d, n) \in Exchange
          /\ \A n \in Nat : Pull(d, n) \in Exchange /\ Reading(d, n) \in Exchange
          /\ \A n \in Nat, page \in SUBSET Row : Pulled(d, page, n) \in Exchange
          /\ \A why \in Rejection : Refused(d, why) \in Exchange
BY DEF Exchange, Idle, Push, Writing, Repeating, Pushed, Pull, Reading, Pulled, Refused

\* What each state of a sync thread carries.
LEMMA ThreadFields ==
    ASSUME NEW x \in Thread
    PROVE  /\ x.at \in {"stopped", "drained", "asleep", "push", "pull", "apply"}
           /\ x.at \in {"push", "pull"} => x.conn \in Conn
           /\ x.at = "push" => x.last \in Nat
           /\ x.at = "apply" =>
                 x.page \subseteq Row /\ x.cursor \in Nat /\ x.fresh \in BOOLEAN
BY DEF Thread, Stopped, Drained

\* Every state the scheduler enters is a state of a sync thread.
LEMMA ThreadKinds ==
    /\ Stopped \in Thread /\ Drained \in Thread
    /\ \A ok \in BOOLEAN : Asleep(ok) \in Thread
    /\ \A c \in Conn : AwaitPull(c) \in Thread
    /\ \A c \in Conn, n \in Nat : AwaitPush(c, n) \in Thread
    /\ \A page \in SUBSET Row, n \in Nat, fresh \in BOOLEAN :
          Applying(page, n, fresh) \in Thread
BY DEF Thread, Stopped, Drained, Asleep, AwaitPull, AwaitPush, Applying

-----------------------------------------------------------------------------
(***************************************************************************)
(* What opening, answering and closing an exchange keeps.                  *)
(***************************************************************************)

\* A thread that sends a request on an idle exchange owns it.
LEMMA SendKeeps ==
    ASSUME TypeOK, OwnsExchange,
           NEW d \in Device, NEW c \in Conn, NEW x \in Thread, NEW req \in Exchange,
           conn[c] = Idle, req.phase # "idle", req.dev = d, x.conn = c,
           conn' = [conn EXCEPT ![c] = req],
           thread' = [thread EXCEPT ![d] = x]
    PROVE  /\ conn' \in [Conn -> Exchange]
           /\ thread' \in [Device -> Thread]
           /\ OwnsExchange'
BY DEF TypeOK, OwnsExchange, Waiting, Idle

\* A thread that stops waiting, closing its exchange or not, disturbs no
\* other thread's exchange.
LEMMA LeaveKeeps ==
    ASSUME TypeOK, OwnsExchange,
           NEW d \in Device, NEW x \in Thread, x.at \notin {"push", "pull"},
           thread' = [thread EXCEPT ![d] = x],
           \/ conn' = conn
           \/ Waiting(d) /\ conn' = [conn EXCEPT ![thread[d].conn] = Idle]
    PROVE  /\ conn' \in [Conn -> Exchange]
           /\ thread' \in [Device -> Thread]
           /\ OwnsExchange'
           /\ \A k \in Conn : conn'[k] = conn[k] \/ conn'[k].phase = "idle"
<1>1. ASSUME Waiting(d) PROVE thread[d].conn \in Conn
  BY <1>1, ThreadFields DEF TypeOK, Waiting
<1>2. conn' \in [Conn -> Exchange] /\ thread' \in [Device -> Thread]
  BY <1>1, ExchangeKinds DEF TypeOK
<1>3. \A k \in Conn : conn'[k] = conn[k] \/ conn'[k].phase = "idle"
  BY <1>1 DEF TypeOK, Idle
<1>4. OwnsExchange'
  <2> SUFFICES ASSUME NEW e \in Device, Waiting(e)'
               PROVE  /\ conn'[thread'[e].conn].phase # "idle"
                      /\ conn'[thread'[e].conn].dev = e
    BY DEF OwnsExchange
  <2>1. e # d /\ thread'[e] = thread[e] /\ Waiting(e)
    BY DEF TypeOK, Waiting
  <2>2. conn[thread[e].conn].phase # "idle" /\ conn[thread[e].conn].dev = e
    BY <2>1 DEF OwnsExchange
  <2>3. Waiting(d) => thread[e].conn # thread[d].conn
    BY <2>1, <2>2 DEF OwnsExchange
  <2>4. thread[e].conn \in Conn
    BY <2>1, ThreadFields DEF TypeOK, Waiting
  <2>5. conn'[thread[e].conn] = conn[thread[e].conn]
    BY <1>1, <2>3, <2>4 DEF TypeOK
  <2> QED BY <2>1, <2>2, <2>5
<1> QED BY <1>2, <1>3, <1>4

\* An answer leaves the exchange with its device, or closes it unheard.
LEMMA AnswerKeeps ==
    ASSUME TypeOK, OwnsExchange,
           NEW c \in Conn, NEW x \in Exchange,
           x.phase # "idle", x.dev = conn[c].dev,
           Answer(c, x), UNCHANGED thread
    PROVE  /\ conn' \in [Conn -> Exchange]
           /\ OwnsExchange'
           /\ conn'[c] = x \/ conn'[c].phase = "idle"
           /\ \A k \in Conn \ {c} : conn'[k] = conn[k]
<1>1. conn' \in [Conn -> Exchange]
  BY ExchangeKinds DEF TypeOK, Answer
<1>2. conn'[c] = x \/ conn'[c].phase = "idle"
  BY DEF TypeOK, Answer, Idle
<1>3. \A k \in Conn \ {c} : conn'[k] = conn[k]
  BY DEF TypeOK, Answer
<1>4. OwnsExchange'
  <2> SUFFICES ASSUME NEW e \in Device, Waiting(e)
               PROVE  /\ conn'[thread[e].conn].phase # "idle"
                      /\ conn'[thread[e].conn].dev = e
    BY DEF OwnsExchange, Waiting
  <2>1. thread[e].conn \in Conn
    BY ThreadFields DEF TypeOK, Waiting
  <2>2. CASE thread[e].conn # c
    BY <1>3, <2>1, <2>2 DEF OwnsExchange
  <2>3. CASE thread[e].conn = c
    <3>1. WaitsOn(e, c)
      BY <2>3 DEF WaitsOn
    <3>2. conn'[c] = x
      BY <3>1 DEF TypeOK, Answer
    <3> QED BY <2>3, <3>2 DEF OwnsExchange
  <2> QED BY <2>2, <2>3
<1> QED BY <1>1, <1>2, <1>3, <1>4

\* The wire stays sound when exchanges only close, are refused, ask or start
\* to read.
LEMMA WireKeeps ==
    ASSUME WireSound, UNCHANGED <<log, held>>,
           \A k \in Conn : \/ conn'[k] = conn[k]
                           \/ conn'[k].phase \in {"idle", "pull", "reading", "refused"}
    PROVE  WireSound'
BY DEF WireSound, Sound, HeldRow

-----------------------------------------------------------------------------
(***************************************************************************)
(* Each step of a till keeps the invariant.                                *)
(***************************************************************************)

\* A cashier's action only lengthens one chain.
LEMMA RecordKeeps ==
    ASSUME IInv, NEW d \in Device, NEW p \in Payload, Record(d, p)
    PROVE  IInv'
<1> USE DEF IInv, Record
<1>1. TypeOK'
  BY AppendProperties DEF TypeOK
<1>2. ASSUME NEW e \in Device, NEW s \in Seq(Payload), IsPrefix(s, log[e])
      PROVE  IsPrefix(s, log'[e])
  <2>1. e # d => log'[e] = log[e]
    BY DEF TypeOK
  <2>2. e = d => log'[e] = Append(log[e], p)
    BY DEF TypeOK
  <2> QED BY <1>2, <2>1, <2>2, PrefixAppend DEF TypeOK
<1>3. HeldIsSealed'
  BY <1>2 DEF HeldIsSealed, TypeOK
<1>4. Numbered' /\ SyncedCovered' /\ OwnsExchange' /\ PageSound'
  BY DEF Numbered, SyncedCovered, OwnsExchange, Waiting, PageSound, HeldRow
<1>5. WireSound'
  BY <1>2, ExchangeFields DEF WireSound, Sound, HeldRow, TypeOK
<1> QED BY <1>1, <1>3, <1>4, <1>5

\* A batch is cut from the chain on disk.
LEMMA SendPushKeeps ==
    ASSUME IInv, BatchAssumption, NEW d \in Device, SendPush(d)
    PROVE  IInv'
<1> DEFINE last == Min2(synced[d] + MaxBatch, Len(log[d]))
           req == Push(d, synced[d] + 1, SubSeq(log[d], 1, last))
<1>1. PICK c \in Conn :
          /\ conn[c] = Idle
          /\ conn' = [conn EXCEPT ![c] = req]
          /\ thread' = [thread EXCEPT ![d] = AwaitPush(c, last)]
  BY DEF SendPush
<1>2. last \in 0 .. Len(log[d])
  BY DEF IInv, TypeOK, BatchAssumption, Min2
<1>3. /\ SubSeq(log[d], 1, last) \in Seq(Payload)
      /\ IsPrefix(SubSeq(log[d], 1, last), log[d])
  BY <1>2, PrefixCut DEF IInv, TypeOK
<1>4. req \in Exchange /\ AwaitPush(c, last) \in Thread
  <2>1. synced[d] + 1 \in Nat /\ last \in Nat
    BY <1>2 DEF IInv, TypeOK
  <2> QED BY <1>3, <2>1, ExchangeKinds, ThreadKinds
<1>5. conn' \in [Conn -> Exchange] /\ thread' \in [Device -> Thread] /\ OwnsExchange'
  BY <1>1, <1>4, SendKeeps DEF IInv, Push, AwaitPush
<1>6. TypeOK'
  BY <1>5 DEF SendPush, IInv, TypeOK
<1>7. Sound(req)'
  BY <1>3 DEF Sound, Push, SendPush
<1>8. WireSound'
  BY <1>1, <1>7, SMTT(60) DEF IInv, WireSound, Sound, HeldRow, TypeOK, SendPush
<1>9. PageSound'
  BY <1>1 DEF IInv, TypeOK, PageSound, HeldRow, SendPush, AwaitPush
<1> QED BY <1>5, <1>6, <1>8, <1>9
        DEF IInv, Numbered, HeldIsSealed, SyncedCovered, SendPush

\* A round with nothing to push moves only its thread.
LEMMA NothingToPushKeeps ==
    ASSUME IInv, NEW d \in Device, NothingToPush(d)
    PROVE  IInv'
<1>1. /\ conn' \in [Conn -> Exchange]
      /\ thread' \in [Device -> Thread]
      /\ OwnsExchange'
  BY ThreadKinds, LeaveKeeps DEF NothingToPush, Drained, IInv
<1>2. TypeOK'
  BY <1>1 DEF IInv, TypeOK, NothingToPush
<1>3. WireSound' /\ PageSound'
  BY DEF IInv, TypeOK, WireSound, Sound, PageSound, HeldRow, NothingToPush, Drained
<1> QED BY <1>1, <1>2, <1>3
        DEF IInv, Numbered, HeldIsSealed, SyncedCovered, NothingToPush

\* mark_synced stays within the tip that the server answered with.
LEMMA AckPushKeeps ==
    ASSUME IInv, NEW d \in Device, AckPush(d)
    PROVE  IInv'
<1> DEFINE c == thread[d].conn
           answer == conn[c]
<1>1. /\ c \in Conn
      /\ answer.phase = "pushed"
      /\ answer.dev = d
      /\ answer.tip \in Nat
      /\ answer.tip <= Len(held[d])
  BY ThreadFields, ExchangeFields
     DEF AckPush, IInv, TypeOK, OwnsExchange, Waiting, WireSound, Sound
<1>2. PICK x \in {Stopped, Drained} : thread' = [thread EXCEPT ![d] = x]
  BY DEF AckPush
<1>3. /\ conn' \in [Conn -> Exchange]
      /\ thread' \in [Device -> Thread]
      /\ OwnsExchange'
      /\ \A k \in Conn : conn'[k] = conn[k] \/ conn'[k].phase = "idle"
  <2>1. x \in Thread /\ x.at \notin {"push", "pull"}
    BY ThreadKinds DEF Stopped, Drained
  <2>2. Waiting(d) /\ conn' = [conn EXCEPT ![thread[d].conn] = Idle]
    BY DEF AckPush, Waiting
  <2> QED BY <1>2, <2>1, <2>2, LeaveKeeps DEF IInv
<1>4. MarkSynced(d, answer.tip) \in Nat /\ MarkSynced(d, answer.tip) <= Len(held[d])
  BY <1>1 DEF MarkSynced, Max2, Min2, IInv, TypeOK, SyncedCovered
<1>5. SyncedCovered' /\ synced' \in [Device -> Nat]
  BY <1>4 DEF AckPush, IInv, TypeOK, SyncedCovered
<1>6. TypeOK'
  BY <1>3, <1>5 DEF IInv, TypeOK, AckPush
<1>7. WireSound'
  BY <1>3, WireKeeps DEF IInv, AckPush
<1>8. PageSound'
  BY <1>2 DEF IInv, TypeOK, PageSound, HeldRow, AckPush, Stopped, Drained
<1> QED BY <1>3, <1>5, <1>6, <1>7, <1>8 DEF IInv, Numbered, HeldIsSealed, AckPush

\* A page is asked for on an exchange of its own.
LEMMA SendPullKeeps ==
    ASSUME IInv, NEW d \in Device, SendPull(d)
    PROVE  IInv'
<1>1. PICK c \in Conn :
          /\ conn[c] = Idle
          /\ conn' = [conn EXCEPT ![c] = Pull(d, cursor[d])]
          /\ thread' = [thread EXCEPT ![d] = AwaitPull(c)]
  BY DEF SendPull
<1>2. Pull(d, cursor[d]) \in Exchange /\ AwaitPull(c) \in Thread
  BY ExchangeKinds, ThreadKinds DEF IInv, TypeOK
<1>3. conn' \in [Conn -> Exchange] /\ thread' \in [Device -> Thread] /\ OwnsExchange'
  BY <1>1, <1>2, SendKeeps DEF IInv, Pull, AwaitPull
<1>4. TypeOK'
  BY <1>3 DEF SendPull, IInv, TypeOK
<1>5. WireSound'
  BY <1>1, WireKeeps DEF IInv, TypeOK, SendPull, Pull
<1>6. PageSound'
  BY <1>1 DEF IInv, TypeOK, PageSound, HeldRow, SendPull, AwaitPull
<1> QED BY <1>3, <1>4, <1>5, <1>6
        DEF IInv, Numbered, HeldIsSealed, SyncedCovered, SendPull

\* The page being applied is the page that was answered.
LEMMA ReceivePageKeeps ==
    ASSUME IInv, NEW d \in Device, ReceivePage(d)
    PROVE  IInv'
<1> DEFINE c == thread[d].conn
           answer == conn[c]
           x == Applying(answer.page, answer.cursor, FALSE)
<1>1. /\ c \in Conn
      /\ answer.phase = "pulled"
      /\ answer.page \in SUBSET Row
      /\ answer.cursor \in Nat
      /\ \A row \in answer.page : HeldRow(d, row)
  BY ThreadFields, ExchangeFields
     DEF ReceivePage, IInv, TypeOK, OwnsExchange, Waiting, WireSound, Sound
<1>2. x \in Thread /\ x.at \notin {"push", "pull"}
  BY <1>1, ThreadKinds DEF Applying
<1>3. /\ conn' \in [Conn -> Exchange]
      /\ thread' \in [Device -> Thread]
      /\ OwnsExchange'
      /\ \A k \in Conn : conn'[k] = conn[k] \/ conn'[k].phase = "idle"
  <2>1. /\ Waiting(d)
        /\ conn' = [conn EXCEPT ![thread[d].conn] = Idle]
        /\ thread' = [thread EXCEPT ![d] = x]
    BY DEF ReceivePage, Waiting
  <2> HIDE DEF x
  <2> QED BY <1>2, <2>1, LeaveKeeps DEF IInv
<1>4. TypeOK'
  BY <1>3 DEF IInv, TypeOK, ReceivePage
<1>5. WireSound'
  BY <1>3, WireKeeps DEF IInv, ReceivePage
<1>6. PageSound'
  BY <1>1 DEF IInv, TypeOK, PageSound, HeldRow, ReceivePage, Applying
<1> QED BY <1>3, <1>4, <1>5, <1>6
        DEF IInv, Numbered, HeldIsSealed, SyncedCovered, ReceivePage

\* insert_remote stores only rows of a page the server answered with.
LEMMA ApplyRowKeeps ==
    ASSUME IInv, NEW d \in Device, ApplyRow(d)
    PROVE  IInv'
<1>1. PICK row \in thread[d].page :
          /\ remote' = [remote EXCEPT ![d] = @ \cup {<<row.dev, row.seq>>}]
          /\ thread' = [thread EXCEPT ![d] =
                Applying(@.page \ {row}, @.cursor,
                         @.fresh \/ <<row.dev, row.seq>> \notin remote[d])]
  BY DEF ApplyRow
<1> DEFINE x == Applying(thread[d].page \ {row}, thread[d].cursor,
                         thread[d].fresh \/ <<row.dev, row.seq>> \notin remote[d])
<1>2. /\ thread[d].page \subseteq Row
      /\ thread[d].cursor \in Nat
      /\ thread[d].fresh \in BOOLEAN
  BY ThreadFields DEF IInv, TypeOK, ApplyRow
<1>3. x \in Thread /\ x.at \notin {"push", "pull"}
  BY <1>2, ThreadKinds DEF Applying
<1>4. thread' \in [Device -> Thread] /\ OwnsExchange'
  <2>1. thread' = [thread EXCEPT ![d] = x] /\ conn' = conn
    BY <1>1, ZenonT(60) DEF ApplyRow
  <2> HIDE DEF x
  <2> QED BY <1>3, <2>1, LeaveKeeps DEF IInv
<1>5. remote' \in [Device -> SUBSET (Device \X Nat)]
  <2> DEFINE learnt == remote[d] \cup {<<row.dev, row.seq>>}
  <2>1. <<row.dev, row.seq>> \in Device \X Nat
    BY <1>1, <1>2 DEF Row
  <2>2. learnt \in SUBSET (Device \X Nat)
    BY <2>1 DEF IInv, TypeOK
  <2>3. remote' = [remote EXCEPT ![d] = learnt]
    BY <1>1, ZenonT(60)
  <2> HIDE DEF learnt
  <2> QED BY <2>2, <2>3 DEF IInv, TypeOK
<1>6. TypeOK'
  BY <1>4, <1>5 DEF IInv, TypeOK, ApplyRow
<1>7. WireSound'
  BY DEF IInv, WireSound, Sound, HeldRow, ApplyRow
<1>8. PageSound'
  BY <1>1 DEF IInv, TypeOK, PageSound, HeldRow, ApplyRow, Applying
<1> QED BY <1>4, <1>6, <1>7, <1>8
        DEF IInv, Numbered, HeldIsSealed, SyncedCovered, ApplyRow

\* The end of a round moves the cursor and the book, no chain.
LEMMA FinishRoundKeeps ==
    ASSUME IInv, NEW d \in Device, FinishRound(d)
    PROVE  IInv'
<1>1. /\ conn' \in [Conn -> Exchange]
      /\ thread' \in [Device -> Thread]
      /\ OwnsExchange'
  BY ThreadKinds, LeaveKeeps DEF FinishRound, Asleep, IInv
<1>2. cursor' \in [Device -> Nat]
  BY ThreadFields DEF IInv, TypeOK, FinishRound, Max2
<1>3. TypeOK'
  BY <1>1, <1>2 DEF IInv, TypeOK, FinishRound
<1>4. WireSound' /\ PageSound'
  BY DEF IInv, TypeOK, WireSound, Sound, PageSound, HeldRow, FinishRound, Asleep
<1> QED BY <1>1, <1>3, <1>4
        DEF IInv, Numbered, HeldIsSealed, SyncedCovered, FinishRound

\* A round that ends early closes its exchange and touches no chain.
LEMMA EarlyEndKeeps ==
    ASSUME IInv, NEW d \in Device, NEW x \in {Stopped, Asleep(TRUE), Asleep(FALSE)},
           thread' = [thread EXCEPT ![d] = x],
           \/ conn' = conn
           \/ Waiting(d) /\ conn' = [conn EXCEPT ![thread[d].conn] = Idle],
           cursor' \in [Device -> Nat],
           book' \in [Device -> SUBSET (Device \X Nat)],
           faults' \in Nat,
           UNCHANGED <<log, synced, remote, held, pos, nextSeq, revoked>>
    PROVE  IInv'
<1>1. x \in Thread /\ x.at \notin {"push", "pull", "apply"}
  <2>1. x \in Thread
    BY ThreadKinds
  <2>2. x.at \in {"stopped", "asleep"}
    BY DEF Stopped, Asleep
  <2> QED BY <2>1, <2>2
<1>2. /\ conn' \in [Conn -> Exchange]
      /\ thread' \in [Device -> Thread]
      /\ OwnsExchange'
      /\ \A k \in Conn : conn'[k] = conn[k] \/ conn'[k].phase = "idle"
  BY <1>1, LeaveKeeps DEF IInv
<1>3. TypeOK'
  BY <1>2 DEF IInv, TypeOK
<1>4. WireSound'
  BY <1>2, WireKeeps DEF IInv
<1>5. PageSound'
  BY <1>1 DEF IInv, TypeOK, PageSound, HeldRow
<1> QED BY <1>2, <1>3, <1>4, <1>5 DEF IInv, Numbered, HeldIsSealed, SyncedCovered

\* Refusals, local faults, timeouts, torn answers and restarts end a round early.
LEMMA EarlyEndsKeep ==
    ASSUME IInv, NEW d \in Device,
           Refuse(d) \/ StoreFault(d) \/ GiveUp(d) \/ TornBody(d) \/ Restart(d)
    PROVE  IInv'
<1>1. faults + 1 \in Nat
  BY DEF IInv, TypeOK
<1>2. CASE Refuse(d)
  <2>1. \E x \in {Stopped, Asleep(FALSE)} : thread' = [thread EXCEPT ![d] = x]
    BY <1>2 DEF Refuse
  <2>2. /\ Waiting(d)
        /\ conn' = [conn EXCEPT ![thread[d].conn] = Idle]
        /\ cursor' \in [Device -> Nat]
        /\ book' \in [Device -> SUBSET (Device \X Nat)]
        /\ faults' \in Nat
        /\ UNCHANGED <<log, synced, remote, held, pos, nextSeq, revoked>>
    BY <1>2 DEF Refuse, IInv, TypeOK
  <2> QED BY <2>1, <2>2, EarlyEndKeeps
<1>3. CASE StoreFault(d)
  <2>1. thread' = [thread EXCEPT ![d] = Asleep(FALSE)] /\ conn' = conn
    BY <1>3 DEF StoreFault
  <2>2. cursor' \in [Device -> Nat]
    BY <1>3, ThreadFields DEF StoreFault, IInv, TypeOK, Max2
  <2>3. /\ book' \in [Device -> SUBSET (Device \X Nat)]
        /\ faults' \in Nat
        /\ UNCHANGED <<log, synced, remote, held, pos, nextSeq, revoked>>
    BY <1>1, <1>3 DEF StoreFault, IInv, TypeOK
  <2> QED BY <2>1, <2>2, <2>3, EarlyEndKeeps
<1>4. CASE GiveUp(d)
  <2>1. /\ thread' = [thread EXCEPT ![d] = Asleep(FALSE)]
        /\ \/ conn' = conn
           \/ Waiting(d) /\ conn' = [conn EXCEPT ![thread[d].conn] = Idle]
    BY <1>4 DEF GiveUp, Abandon
  <2>2. /\ cursor' \in [Device -> Nat]
        /\ book' \in [Device -> SUBSET (Device \X Nat)]
        /\ faults' \in Nat
        /\ UNCHANGED <<log, synced, remote, held, pos, nextSeq, revoked>>
    BY <1>1, <1>4 DEF GiveUp, IInv, TypeOK
  <2> QED BY <2>1, <2>2, EarlyEndKeeps
<1>5. CASE Restart(d)
  <2>1. /\ thread' = [thread EXCEPT ![d] = Asleep(TRUE)]
        /\ \/ conn' = conn
           \/ Waiting(d) /\ conn' = [conn EXCEPT ![thread[d].conn] = Idle]
    BY <1>5 DEF Restart, Abandon
  <2>2. /\ cursor' \in [Device -> Nat]
        /\ book' \in [Device -> SUBSET (Device \X Nat)]
        /\ faults' \in Nat
        /\ UNCHANGED <<log, synced, remote, held, pos, nextSeq, revoked>>
    BY <1>1, <1>5 DEF Restart, IInv, TypeOK
  <2> QED BY <2>1, <2>2, EarlyEndKeeps
<1>6. CASE TornBody(d)
  <2>1. /\ thread' = [thread EXCEPT ![d] = Stopped]
        /\ Waiting(d)
        /\ conn' = [conn EXCEPT ![thread[d].conn] = Idle]
        /\ cursor' \in [Device -> Nat]
        /\ book' \in [Device -> SUBSET (Device \X Nat)]
        /\ faults' \in Nat
        /\ UNCHANGED <<log, synced, remote, held, pos, nextSeq, revoked>>
    BY <1>1, <1>6 DEF TornBody, IInv, TypeOK
  <2> QED BY <2>1, EarlyEndKeeps
<1> QED BY <1>2, <1>3, <1>4, <1>5, <1>6

-----------------------------------------------------------------------------
(***************************************************************************)
(* Each step of the server keeps the invariant.                            *)
(***************************************************************************)

\* An answer that stores nothing keeps the invariant if it is sound.
LEMMA AnswerOnlyKeeps ==
    ASSUME IInv, NEW c \in Conn, NEW x \in Exchange,
           x.phase # "idle", x.dev = conn[c].dev, Sound(x),
           Answer(c, x), faults' \in Nat,
           UNCHANGED <<log, synced, remote, cursor, book, thread,
                       held, pos, nextSeq, revoked>>
    PROVE  IInv'
<1>1. /\ conn' \in [Conn -> Exchange]
      /\ OwnsExchange'
      /\ conn'[c] = x \/ conn'[c].phase = "idle"
      /\ \A k \in Conn \ {c} : conn'[k] = conn[k]
  BY AnswerKeeps DEF IInv
<1>2. TypeOK'
  BY <1>1 DEF IInv, TypeOK
<1>3. WireSound'
  BY <1>1 DEF IInv, WireSound, Sound, HeldRow
<1> QED BY <1>1, <1>2, <1>3
        DEF IInv, Numbered, HeldIsSealed, SyncedCovered, PageSound, HeldRow

\* A server that refuses or rolls back stores nothing.
LEMMA RefusalsKeep ==
    ASSUME IInv, NEW c \in Conn,
           Unauthorised(c) \/ UniqueViolation(c) \/ AuthFault(c) \/ Abort(c)
    PROVE  IInv'
<1>1. PICK why \in Rejection : Answer(c, Refused(conn[c].dev, why))
  BY DEF Unauthorised, UniqueViolation, AuthFault, Abort, Rejection
<1> DEFINE x == Refused(conn[c].dev, why)
<1>2. conn[c].dev \in Device
  BY ExchangeFields
     DEF Unauthorised, UniqueViolation, AuthFault, Abort, Request, InTransaction,
         IInv, TypeOK
<1>3. x \in Exchange /\ x.phase # "idle" /\ x.dev = conn[c].dev /\ Sound(x)
  BY <1>2, ExchangeKinds DEF Refused, Sound
<1>4. /\ faults' \in Nat
      /\ UNCHANGED <<log, synced, remote, cursor, book, thread,
                     held, pos, nextSeq, revoked>>
  BY DEF Unauthorised, UniqueViolation, AuthFault, Abort, IInv, TypeOK
<1> QED BY <1>1, <1>3, <1>4, AnswerOnlyKeeps

\* Revoking a device changes its standing and no event.
LEMMA RevokeKeeps ==
    ASSUME IInv, NEW d \in Device, Revoke(d)
    PROVE  IInv'
BY DEF IInv, TypeOK, Numbered, HeldIsSealed, SyncedCovered, OwnsExchange, Waiting,
       WireSound, Sound, PageSound, HeldRow, Revoke

\* plan_batch starts a transaction only for a batch that continues the
\* committed chain and goes past its end.
LEMMA PlanInserts ==
    ASSUME NEW first, NEW chain, NEW tip, PlanBatch(first, chain, tip) = "insert"
    PROVE  IsPrefix(tip, chain) /\ ~(Len(chain) <= Len(tip))
BY DEF PlanBatch

\* A transaction that opens on a request, or goes on, keeps the invariant if it
\* is sound.
LEMMA OpenKeeps ==
    ASSUME IInv, NEW c \in Conn, NEW x \in Exchange,
           x.phase # "idle", x.dev = conn[c].dev, Sound(x),
           conn' = [conn EXCEPT ![c] = x],
           UNCHANGED <<log, synced, remote, cursor, book, thread,
                       held, pos, nextSeq, revoked, faults>>
    PROVE  IInv'
<1>1. TypeOK'
  BY DEF IInv, TypeOK
<1>2. OwnsExchange'
  BY ThreadFields DEF IInv, TypeOK, OwnsExchange, Waiting
<1>3. WireSound'
  BY DEF IInv, TypeOK, WireSound, Sound, HeldRow
<1> QED BY <1>1, <1>2, <1>3
        DEF IInv, Numbered, HeldIsSealed, SyncedCovered, PageSound, HeldRow

\* plan_batch refuses, repeats the tip of what is held already, or starts to
\* write past the tip it read.
LEMMA PlanPushKeeps ==
    ASSUME IInv, NEW c \in Conn, PlanPush(c)
    PROVE  IInv'
<1> DEFINE d == conn[c].dev
           chain == conn[c].chain
           plan == PlanBatch(conn[c].first, chain, held[d])
<1>1. /\ conn[c].phase = "push"
      /\ d \in Device
      /\ chain \in Seq(Payload)
      /\ held[d] \in Seq(Payload)
      /\ IsPrefix(chain, log[d])
  BY ExchangeFields DEF PlanPush, IInv, TypeOK, WireSound, Sound
<1>2. CASE plan \in Rejection /\ Answer(c, Refused(d, plan))
  <2>1. /\ Refused(d, plan) \in Exchange
        /\ Refused(d, plan).phase = "refused"
        /\ Refused(d, plan).dev = d
        /\ Sound(Refused(d, plan))
    BY <1>1, <1>2, ExchangeKinds DEF Refused, Sound
  <2> HIDE DEF plan
  <2> QED BY <1>2, <2>1, AnswerOnlyKeeps DEF PlanPush, IInv, TypeOK
<1>3. CASE conn' = [conn EXCEPT ![c] = Repeating(d, Len(held[d]))]
  <2> DEFINE x == Repeating(d, Len(held[d]))
  <2>1. x \in Exchange /\ x.phase # "idle" /\ x.dev = d /\ Sound(x)
    BY <1>1, ExchangeKinds DEF Repeating, Sound
  <2>2. conn' = [conn EXCEPT ![c] = x]
    BY <1>3
  <2> HIDE DEF x
  <2> QED BY <2>1, <2>2, OpenKeeps DEF PlanPush
<1>4. CASE /\ plan = "insert"
           /\ conn' = [conn EXCEPT ![c] = Writing(d, Len(held[d]), chain, <<>>)]
  <2> DEFINE x == Writing(d, Len(held[d]), chain, <<>>)
  <2>1. Len(held[d]) < Len(chain)
    BY <1>1, <1>4, PlanInserts
  <2>2. x \in Exchange /\ Sound(x)
    <3>1. Len(held[d]) \in Nat /\ <<>> \in Seq(Nat)
      BY <1>1
    <3>2. x \in Exchange
      BY <1>1, <3>1, ExchangeKinds
    <3>3. Sound(x)
      BY <1>1, <2>1 DEF Writing, Sound
    <3> QED BY <3>2, <3>3
  <2>3. x.phase # "idle" /\ x.dev = d
    BY DEF Writing
  <2>4. conn' = [conn EXCEPT ![c] = x]
    BY <1>4
  <2> HIDE DEF x
  <2> QED BY <2>2, <2>3, <2>4, OpenKeeps DEF PlanPush
<1> QED BY <1>2, <1>3, <1>4 DEF PlanPush

\* A repeated batch is acknowledged up to a tip the server held already.
LEMMA AnswerRepeatKeeps ==
    ASSUME IInv, NEW c \in Conn, AnswerRepeat(c)
    PROVE  IInv'
<1> DEFINE x == Pushed(conn[c].dev, conn[c].tip)
<1>1. /\ conn[c].dev \in Device
      /\ conn[c].tip \in Nat
      /\ conn[c].tip <= Len(held[conn[c].dev])
  BY ExchangeFields DEF AnswerRepeat, IInv, TypeOK, WireSound, Sound
<1>2. x \in Exchange /\ x.phase # "idle" /\ x.dev = conn[c].dev /\ Sound(x)
  BY <1>1, ExchangeKinds DEF Pushed, Sound
<1>3. Answer(c, x) /\ faults' \in Nat
  BY DEF AnswerRepeat, IInv, TypeOK
<1> HIDE DEF x
<1> QED BY <1>2, <1>3, AnswerOnlyKeeps DEF AnswerRepeat

\* An authenticated pull has nothing to show yet.
LEMMA OpenPullKeeps ==
    ASSUME IInv, NEW c \in Conn, OpenPull(c)
    PROVE  IInv'
<1> DEFINE x == Reading(conn[c].dev, conn[c].cursor)
<1>1. conn[c].dev \in Device /\ conn[c].cursor \in Nat
  BY ExchangeFields DEF OpenPull, IInv, TypeOK
<1>2. x \in Exchange /\ x.phase # "idle" /\ x.dev = conn[c].dev /\ Sound(x)
  BY <1>1, ExchangeKinds DEF Reading, Sound
<1>3. conn' = [conn EXCEPT ![c] = x]
  BY DEF OpenPull
<1> HIDE DEF x
<1> QED BY <1>2, <1>3, OpenKeeps DEF OpenPull

\* An inserted row takes the next server_seq inside its open transaction.
LEMMA InsertRowKeeps ==
    ASSUME IInv, NEW c \in Conn, InsertRow(c)
    PROVE  IInv'
<1> DEFINE x == [conn[c] EXCEPT !.pos = Append(@, nextSeq)]
<1>1. /\ conn[c].phase = "writing"
      /\ conn[c].dev \in Device
      /\ conn[c].tip \in Nat
      /\ conn[c].chain \in Seq(Payload)
      /\ conn[c].pos \in Seq(Nat)
      /\ conn[c] \in [phase : {"writing"}, dev : Device, tip : Nat,
                      chain : Seq(Payload), pos : Seq(Nat)]
  BY WritingFields DEF InsertRow, IInv, TypeOK
<1>2. Append(conn[c].pos, nextSeq) \in Seq(Nat)
  BY <1>1, AppendProperties DEF IInv, TypeOK
<1>3. /\ x \in Exchange
      /\ x.phase = "writing"
      /\ x.dev = conn[c].dev
      /\ x.tip = conn[c].tip
      /\ x.chain = conn[c].chain
  BY <1>1, <1>2 DEF Exchange
<1>4. conn' = [conn EXCEPT ![c] = x]
  BY DEF InsertRow
<1> HIDE DEF x
<1>5. TypeOK'
  <2>1. conn' \in [Conn -> Exchange]
    BY <1>3, <1>4 DEF IInv, TypeOK
  <2>2. nextSeq' \in Nat
    BY DEF InsertRow, IInv, TypeOK
  <2> QED BY <2>1, <2>2 DEF InsertRow, IInv, TypeOK
<1>6. OwnsExchange'
  BY <1>1, <1>3, <1>4, ThreadFields, SMTT(60) DEF InsertRow, IInv, TypeOK, OwnsExchange, Waiting
<1>7. WireSound'
  BY <1>1, <1>3, <1>4, SMTT(60) DEF InsertRow, IInv, TypeOK, WireSound, Sound, HeldRow
<1> QED BY <1>5, <1>6, <1>7
        DEF InsertRow, IInv, Numbered, HeldIsSealed, SyncedCovered, PageSound, HeldRow

\* A transaction commits only on the tip it read: the committed chain grows.
LEMMA CommitGrows ==
    ASSUME IInv, NEW c \in Conn, CommitPush(c)
    PROVE  LET d == conn[c].dev
           IN /\ conn[c].phase = "writing"
              /\ d \in Device
              /\ conn[c].chain \in Seq(Payload)
              /\ conn[c].pos \in Seq(Nat)
              /\ IsPrefix(conn[c].chain, log[d])
              /\ Len(held[d]) < Len(conn[c].chain)
              /\ Len(held[d]) + Len(conn[c].pos) = Len(conn[c].chain)
              /\ held' = [held EXCEPT ![d] = conn[c].chain]
<1>1. /\ conn[c].phase = "writing"
      /\ conn[c].dev \in Device
      /\ conn[c].tip \in Nat
      /\ conn[c].chain \in Seq(Payload)
      /\ conn[c].pos \in Seq(Nat)
  BY ExchangeFields DEF CommitPush, IInv, TypeOK
<1>2. conn[c].tip < Len(conn[c].chain) /\ IsPrefix(conn[c].chain, log[conn[c].dev])
  BY <1>1 DEF IInv, WireSound, Sound
<1>3. conn[c].pos # <<>>
  BY <1>1, <1>2 DEF CommitPush
<1>4. Len(held[conn[c].dev]) = conn[c].tip
  BY <1>3 DEF CommitPush, Conflict
<1> QED BY <1>1, <1>2, <1>4 DEF CommitPush

\* A commit keeps the chain a beginning of the disk's and its rows numbered.
LEMMA CommitPushKeeps ==
    ASSUME IInv, NEW c \in Conn, CommitPush(c)
    PROVE  IInv'
<1> DEFINE d == conn[c].dev
           chain == conn[c].chain
           x == Pushed(d, Len(chain))
<1>1. /\ conn[c].phase = "writing"
      /\ d \in Device
      /\ chain \in Seq(Payload)
      /\ conn[c].pos \in Seq(Nat)
      /\ IsPrefix(chain, log[d])
      /\ Len(held[d]) < Len(chain)
      /\ Len(held[d]) + Len(conn[c].pos) = Len(chain)
      /\ held' = [held EXCEPT ![d] = chain]
  BY CommitGrows
<1>2. \A e \in Device : Len(held[e]) <= Len(held'[e])
  BY <1>1 DEF IInv, TypeOK
<1>3. held' \in [Device -> Seq(Payload)] /\ held'[d] = chain
  BY <1>1 DEF IInv, TypeOK
<1>4. x \in Exchange /\ x.phase = "pushed" /\ x.dev = d /\ x.tip = Len(chain)
  <2>1. Len(chain) \in Nat
    BY <1>1
  <2> QED BY <1>1, <2>1, ExchangeKinds DEF Pushed
<1>5. /\ conn' \in [Conn -> Exchange]
      /\ OwnsExchange'
      /\ conn'[c] = x \/ conn'[c].phase = "idle"
      /\ \A k \in Conn \ {c} : conn'[k] = conn[k]
  <2> HIDE DEF x
  <2>1. Answer(c, x) /\ UNCHANGED thread
    BY DEF CommitPush, x
  <2> QED BY <1>4, <2>1, AnswerKeeps DEF IInv
<1>6. pos' \in [Device -> Seq(Nat)]
  BY <1>1, ConcatProperties DEF CommitPush, IInv, TypeOK
<1>7. TypeOK'
  BY <1>3, <1>5, <1>6 DEF CommitPush, IInv, TypeOK
<1>8. HeldIsSealed'
  BY <1>1 DEF CommitPush, IInv, TypeOK, HeldIsSealed
<1>9. SyncedCovered'
  BY <1>2, <1>3 DEF CommitPush, IInv, TypeOK, SyncedCovered
<1>10. Numbered'
  <2>1. pos[d] \in Seq(Nat) /\ pos' = [pos EXCEPT ![d] = pos[d] \o conn[c].pos]
    BY <1>1 DEF CommitPush, IInv, TypeOK
  <2>2. Len(pos[d] \o conn[c].pos) = Len(pos[d]) + Len(conn[c].pos)
    BY <1>1, <2>1, ConcatProperties
  <2>3. Len(pos[d] \o conn[c].pos) = Len(chain)
    BY <1>1, <2>2 DEF IInv, Numbered
  <2>4. \A e \in Device \ {d} : pos'[e] = pos[e] /\ held'[e] = held[e]
    BY <1>1, <2>1 DEF IInv, TypeOK
  <2>5. pos'[d] = pos[d] \o conn[c].pos
    BY <1>1, <2>1 DEF IInv, TypeOK
  <2> QED BY <1>3, <2>3, <2>4, <2>5 DEF IInv, Numbered
<1>11. ASSUME NEW e \in Device, NEW row, HeldRow(e, row)
       PROVE  HeldRow(e, row)'
  BY <1>2, <1>3, <1>11 DEF HeldRow, IInv, TypeOK
<1>12. WireSound'
  <2> SUFFICES ASSUME NEW k \in Conn PROVE Sound(conn[k])'
    BY DEF WireSound
  <2>1. CASE conn'[k].phase = "idle"
    BY <2>1 DEF Sound
  <2>2. CASE conn'[k] = x
    BY <1>3, <1>4, <2>2 DEF Sound
  <2>3. CASE k # c /\ conn[k].phase # "idle"
    <3>1. conn'[k] = conn[k] /\ Sound(conn[k]) /\ conn[k].dev \in Device
      BY <1>5, <2>3, ExchangeFields DEF IInv, TypeOK, WireSound
    <3>2. conn[k].phase \in {"repeating", "pushed"} =>
             conn[k].tip <= Len(held'[conn[k].dev])
      BY <1>2, <1>3, <3>1, ExchangeFields DEF IInv, TypeOK, Sound
    <3> QED BY <1>11, <3>1, <3>2 DEF Sound, CommitPush
  <2> QED BY <1>5, <2>1, <2>2, <2>3
<1>13. PageSound'
  BY <1>11 DEF IInv, PageSound, CommitPush
<1> QED BY <1>5, <1>7, <1>8, <1>9, <1>10, <1>12, <1>13 DEF IInv

\* A page holds committed events of siblings, and it ends at a position.
LEMMA PageRows ==
    ASSUME TypeOK, Numbered, NEW d \in Device, NEW from \in Nat
    PROVE  /\ Page(d, from) \subseteq Row
           /\ \A row \in Page(d, from) : HeldRow(d, row)
           /\ PageEnd(Page(d, from), from) \subseteq Nat
<1>1. ASSUME NEW row \in Visible(d, from) PROVE row \in Row /\ HeldRow(d, row)
  <2>1. PICK e \in Device \ {d} : \E n \in 1 .. Len(held[e]) :
            row = [dev |-> e, seq |-> n, pos |-> pos[e][n]]
    BY DEF Visible
  <2>2. PICK n \in 1 .. Len(held[e]) :
            row = [dev |-> e, seq |-> n, pos |-> pos[e][n]]
    BY <2>1
  <2>3. n \in Nat /\ pos[e][n] \in Nat
    BY DEF TypeOK, Numbered
  <2> QED BY <2>2, <2>3 DEF Row, HeldRow
<1>2. Page(d, from) \subseteq Visible(d, from)
  BY DEF Page
<1> QED BY <1>1, <1>2 DEF PageEnd, Row

\* A pull answers with committed rows of siblings and stores nothing.
LEMMA AnswerPullKeeps ==
    ASSUME IInv, NEW c \in Conn, AnswerPull(c)
    PROVE  IInv'
<1> DEFINE d == conn[c].dev
           page == Page(d, conn[c].cursor)
<1>1. d \in Device /\ conn[c].cursor \in Nat
  BY ExchangeFields DEF AnswerPull, IInv, TypeOK
<1>2. PICK upto \in PageEnd(page, conn[c].cursor) : Answer(c, Pulled(d, page, upto))
  BY DEF AnswerPull
<1> DEFINE x == Pulled(d, page, upto)
<1>3. page \in SUBSET Row /\ upto \in Nat /\ \A row \in page : HeldRow(d, row)
  BY <1>1, <1>2, PageRows DEF IInv
<1>4. /\ x \in Exchange
      /\ x.phase = "pulled"
      /\ x.dev = d
      /\ Sound(x)
  BY <1>1, <1>3, ExchangeKinds DEF Pulled, Sound
<1>5. /\ faults' \in Nat
      /\ UNCHANGED <<log, synced, remote, cursor, book, thread,
                     held, pos, nextSeq, revoked>>
  BY DEF AnswerPull, IInv, TypeOK
<1>6. Answer(c, x)
  BY <1>2
<1> HIDE DEF x
<1> QED BY <1>4, <1>5, <1>6, AnswerOnlyKeeps

-----------------------------------------------------------------------------
(***************************************************************************)
(* The theorems.                                                           *)
(***************************************************************************)

\* A fresh outlet satisfies the inductive invariant.
LEMMA InitSound == Init => IInv
<1> SUFFICES ASSUME Init PROVE IInv
  OBVIOUS
<1>1. TypeOK
  <2>1. <<>> \in Seq(Payload) /\ <<>> \in Seq(Nat)
    OBVIOUS
  <2>2. Idle \in Exchange /\ Asleep(TRUE) \in Thread
    BY ExchangeKinds, ThreadKinds
  <2>3. conn \in [Conn -> Exchange] /\ thread \in [Device -> Thread]
    BY <2>2 DEF Init
  <2> QED BY <2>1, <2>3 DEF Init, TypeOK
<1>2. Numbered /\ SyncedCovered
  BY DEF Init, Numbered, SyncedCovered
<1>3. HeldIsSealed
  <2>1. <<>> \in Seq(Payload) /\ Len(<<>>) = 0
    OBVIOUS
  <2>2. IsPrefix(<<>>, <<>>)
    BY <2>1 DEF IsPrefix
  <2> QED BY <2>2 DEF Init, HeldIsSealed
<1>4. OwnsExchange /\ WireSound /\ PageSound
  BY DEF Init, OwnsExchange, Waiting, WireSound, Sound, PageSound, Idle, Asleep
<1> QED BY <1>1, <1>2, <1>3, <1>4 DEF IInv

\* Every step of a till, the network or the server keeps the invariant.
LEMMA StepKeeps == IInv /\ [Next]_vars => IInv'
<1> SUFFICES ASSUME IInv, [Next]_vars PROVE IInv'
  OBVIOUS
<1> USE BatchAssumption
<1>1. CASE \E d \in Device, p \in Payload : Record(d, p)
  BY <1>1, RecordKeeps
<1>2. ASSUME NEW d \in Device, Round(d) PROVE IInv'
  <2>1. CASE SendPush(d) \/ NothingToPush(d) \/ AckPush(d)
    BY <2>1, SendPushKeeps, NothingToPushKeeps, AckPushKeeps
  <2>2. CASE SendPull(d) \/ ReceivePage(d) \/ ApplyRow(d) \/ FinishRound(d)
    BY <2>2, SendPullKeeps, ReceivePageKeeps, ApplyRowKeeps, FinishRoundKeeps
  <2>3. CASE Refuse(d)
    BY <2>3, EarlyEndsKeep
  <2> QED BY <1>2, <2>1, <2>2, <2>3 DEF Round
<1>3. ASSUME NEW d \in Device,
             StoreFault(d) \/ GiveUp(d) \/ TornBody(d) \/ Restart(d) \/ Revoke(d)
      PROVE  IInv'
  BY <1>3, EarlyEndsKeep, RevokeKeeps
<1>4. ASSUME NEW c \in Conn, Serve(c) PROVE IInv'
  <2>1. CASE Unauthorised(c) \/ UniqueViolation(c)
    BY <2>1, RefusalsKeep
  <2>2. CASE PlanPush(c) \/ AnswerRepeat(c) \/ InsertRow(c) \/ CommitPush(c)
    BY <2>2, PlanPushKeeps, AnswerRepeatKeeps, InsertRowKeeps, CommitPushKeeps
  <2>3. CASE OpenPull(c) \/ AnswerPull(c)
    BY <2>3, OpenPullKeeps, AnswerPullKeeps
  <2> QED BY <1>4, <2>1, <2>2, <2>3 DEF Serve
<1>5. ASSUME NEW c \in Conn, AuthFault(c) \/ Abort(c) PROVE IInv'
  BY <1>5, RefusalsKeep
<1>6. CASE UNCHANGED vars
  BY <1>6 DEF vars, IInv, TypeOK, Numbered, HeldIsSealed, SyncedCovered,
              OwnsExchange, Waiting, WireSound, Sound, PageSound, HeldRow
<1> QED BY <1>1, <1>2, <1>3, <1>4, <1>5, <1>6 DEF Next

\* The inductive invariant holds of every behaviour.
LEMMA Invariance == Spec => []IInv
BY InitSound, StepKeeps, PTL DEF Spec

\* Tills, server and wire hold only facts of their kinds: type correctness of
\* every handler, for any number of tills, payloads, exchanges and faults.
THEOREM TypeCorrect == Spec => []TypeOK
<1>1. IInv => TypeOK
  BY DEF IInv
<1> QED BY <1>1, Invariance, PTL

\* The server's chain of a device is always a beginning of the chain on that
\* device's disk, whatever is delayed, repeated or interrupted.
THEOREM ServerHoldsOnlySealed == Spec => []HeldIsSealed
<1>1. IInv => HeldIsSealed
  BY DEF IInv
<1> QED BY <1>1, Invariance, PTL

\* No till ever marks synced an event that the server does not hold: the
\* unsynced queue never drops an event that exists nowhere else.
THEOREM NothingDroppedFromTheQueue == Spec => []SyncedIsHeld
<1>1. IInv => SyncedIsHeld
  <2> SUFFICES ASSUME IInv, NEW d \in Device
               PROVE  IsPrefix(SubSeq(log[d], 1, synced[d]), held[d])
    BY DEF SyncedIsHeld
  <2> DEFINE cut == SubSeq(log[d], 1, synced[d])
  <2>1. /\ log[d] \in Seq(Payload)
        /\ held[d] \in Seq(Payload)
        /\ IsPrefix(held[d], log[d])
        /\ synced[d] \in Nat
        /\ synced[d] <= Len(held[d])
    BY DEF IInv, TypeOK, HeldIsSealed, SyncedCovered
  <2>2. synced[d] \in 0 .. Len(log[d])
    BY <2>1, PrefixByIndex
  <2>3. cut \in Seq(Payload) /\ Len(cut) = synced[d] /\ IsPrefix(cut, log[d])
    BY <2>1, <2>2, PrefixCut
  <2> HIDE DEF cut
  <2>4. IsPrefix(cut, held[d])
    BY <2>1, <2>3, PrefixCompare
  <2> QED BY <2>4 DEF cut
<1> QED BY <1>1, Invariance, PTL

\* What one step may do to an exchange: leave it, close it, refuse it or send a
\* request on it; open a transaction for a device in good standing; carry one
\* on, or answer from one.
Moved(k) ==
    \/ conn'[k] = conn[k]
    \/ conn'[k].phase \in {"idle", "refused", "push", "pull"}
    \/ /\ conn[k].dev \notin revoked
       /\ conn'[k].dev = conn[k].dev
       /\ conn'[k].phase \in {"writing", "repeating", "reading"}
    \/ /\ InTransaction(k)
       /\ conn'[k].dev = conn[k].dev
       /\ conn'[k].phase \in {"writing", "pushed", "pulled"}

\* A step of a till, or of the operator, moves exchanges so and stores nothing.
LEMMA TillMoves ==
    ASSUME conn \in [Conn -> Exchange], NEW d \in Device,
           \/ \E p \in Payload : Record(d, p)
           \/ Round(d) \/ StoreFault(d) \/ GiveUp(d) \/ TornBody(d)
           \/ Restart(d) \/ Revoke(d)
    PROVE  (\A k \in Conn : Moved(k)) /\ held' = held
<1>1. CASE SendPush(d) \/ SendPull(d)
  BY <1>1 DEF SendPush, SendPull, Push, Pull, Moved
<1>2. CASE AckPush(d) \/ ReceivePage(d) \/ Refuse(d)
  <2>1. conn' = [conn EXCEPT ![thread[d].conn] = Idle] /\ held' = held
    BY <1>2 DEF AckPush, ReceivePage, Refuse
  <2> QED BY <2>1 DEF Idle, Moved
<1>3. CASE NothingToPush(d) \/ ApplyRow(d) \/ FinishRound(d)
  BY <1>3 DEF NothingToPush, ApplyRow, FinishRound, Moved
<1>4. CASE \/ StoreFault(d) \/ GiveUp(d) \/ TornBody(d) \/ Restart(d) \/ Revoke(d)
           \/ \E p \in Payload : Record(d, p)
  <2>1. /\ conn' = conn \/ conn' = [conn EXCEPT ![thread[d].conn] = Idle]
        /\ held' = held
    BY <1>4 DEF StoreFault, GiveUp, TornBody, Restart, Revoke, Record, Abandon
  <2> QED BY <2>1 DEF Idle, Moved
<1> QED BY <1>1, <1>2, <1>3, <1>4 DEF Round

\* So does a step of the server, and only the commit that ends a device's
\* transaction adds to what is held of it.
LEMMA ServerMoves ==
    ASSUME TypeOK, NEW c \in Conn, Serve(c) \/ AuthFault(c) \/ Abort(c)
    PROVE  /\ \A k \in Conn : Moved(k)
           /\ \A d \in Device : held'[d] # held[d] =>
                 /\ InTransaction(c)
                 /\ conn[c].dev = d
                 /\ conn'[c].phase \in {"idle", "pushed"}
<1>1. conn \in [Conn -> Exchange]
  BY DEF TypeOK
<1>2. CASE Unauthorised(c) \/ UniqueViolation(c) \/ AuthFault(c) \/ Abort(c)
  <2>1. PICK why \in Rejection : Answer(c, Refused(conn[c].dev, why))
    BY <1>2 DEF Unauthorised, AuthFault, Abort, UniqueViolation, Rejection
  <2>2. held' = held
    BY <1>2 DEF Unauthorised, AuthFault, Abort, UniqueViolation
  <2> QED BY <1>1, <2>1, <2>2 DEF Answer, Refused, Idle, Moved
<1>3. CASE PlanPush(c) \/ OpenPull(c)
  BY <1>1, <1>3 DEF PlanPush, OpenPull, Authorised, Answer, Refused, Repeating,
                    Writing, Reading, Idle, Moved
<1>4. CASE AnswerRepeat(c) \/ AnswerPull(c)
  BY <1>1, <1>4 DEF AnswerRepeat, AnswerPull, Answer, Pushed, Pulled, Idle,
                    InTransaction, Moved
<1>5. CASE InsertRow(c)
  BY <1>1, <1>5, ExchangeFields DEF InsertRow, InTransaction, Moved
<1>6. CASE CommitPush(c)
  <2>1. /\ conn'[c] = Idle \/ conn'[c] = Pushed(conn[c].dev, Len(conn[c].chain))
        /\ \A k \in Conn \ {c} : conn'[k] = conn[k]
        /\ conn[c].phase = "writing"
    BY <1>1, <1>6 DEF CommitPush, Answer
  <2>2. \A k \in Conn : Moved(k)
    BY <2>1 DEF Pushed, Idle, InTransaction, Moved
  <2>3. \A d \in Device : held'[d] # held[d] => conn[c].dev = d
    BY <1>6 DEF CommitPush, TypeOK
  <2> QED BY <2>1, <2>2, <2>3 DEF Pushed, Idle, InTransaction
<1> QED BY <1>2, <1>3, <1>4, <1>5, <1>6 DEF Serve

\* A revoked device is cut off, but for what it had open: the transactions that
\* were authenticated before it was revoked end one by one, no more are opened
\* for it, and only as one of them ends is anything of it stored, acknowledged
\* or sent to it.
THEOREM RevocationHolds == Spec => RevokedIsCutOff
<1> DEFINE CutOff == \A d \in revoked :
                        LET ended == OpenFor(d) \ OpenFor(d)'
                        IN /\ OpenFor(d)' \subseteq OpenFor(d)
                           /\ ServedTo(d)' \subseteq ServedTo(d) \cup ended
                           /\ held'[d] # held[d] => ended # {}
<1>1. IInv /\ [Next]_vars => [CutOff]_vars
  <2> SUFFICES ASSUME IInv, Next, NEW d \in revoked
               PROVE  LET ended == OpenFor(d) \ OpenFor(d)'
                      IN /\ OpenFor(d)' \subseteq OpenFor(d)
                         /\ ServedTo(d)' \subseteq ServedTo(d) \cup ended
                         /\ held'[d] # held[d] => ended # {}
    OBVIOUS
  <2>1. TypeOK /\ conn \in [Conn -> Exchange] /\ d \in Device
    BY DEF IInv, TypeOK
  <2>2. /\ \A k \in Conn : Moved(k)
        /\ held'[d] # held[d] =>
              \E k \in Conn : /\ InTransaction(k)
                              /\ conn[k].dev = d
                              /\ conn'[k].phase \in {"idle", "pushed"}
    <3>1. CASE \E e \in Device : \/ \E p \in Payload : Record(e, p)
                                 \/ Round(e) \/ StoreFault(e) \/ GiveUp(e)
                                 \/ TornBody(e) \/ Restart(e) \/ Revoke(e)
      BY <2>1, <3>1, TillMoves
    <3>2. CASE \E c \in Conn : Serve(c) \/ AuthFault(c) \/ Abort(c)
      BY <2>1, <3>2, ServerMoves
    <3> QED BY <3>1, <3>2 DEF Next
  <2>3. ASSUME NEW k \in Conn, InTransaction(k)', conn'[k].dev = d
        PROVE  InTransaction(k) /\ conn[k].dev = d
    BY <2>2, <2>3 DEF Moved, InTransaction
  <2>4. ASSUME NEW k \in Conn, conn'[k].phase \in {"pushed", "pulled"},
               conn'[k].dev = d
        PROVE  \/ conn[k].phase \in {"pushed", "pulled"} /\ conn[k].dev = d
               \/ InTransaction(k) /\ conn[k].dev = d /\ ~InTransaction(k)'
    BY <2>2, <2>4 DEF Moved, InTransaction
  <2>5. OpenFor(d)' \subseteq OpenFor(d)
    BY <2>3 DEF OpenFor
  <2>6. ServedTo(d)' \subseteq ServedTo(d) \cup (OpenFor(d) \ OpenFor(d)')
    BY <2>4 DEF OpenFor, ServedTo
  <2>7. held'[d] # held[d] => OpenFor(d) \ OpenFor(d)' # {}
    <3> SUFFICES ASSUME held'[d] # held[d] PROVE OpenFor(d) \ OpenFor(d)' # {}
      OBVIOUS
    <3>1. PICK k \in Conn : /\ InTransaction(k)
                            /\ conn[k].dev = d
                            /\ conn'[k].phase \in {"idle", "pushed"}
      BY <2>2
    <3>2. ~InTransaction(k)'
      BY <3>1 DEF InTransaction
    <3> QED BY <3>1, <3>2 DEF OpenFor
  <2> QED BY <2>5, <2>6, <2>7
<1> QED BY <1>1, Invariance, PTL DEF Spec, RevokedIsCutOff

-----------------------------------------------------------------------------
(***************************************************************************)
(* Refinement: tills, network, transactions and faults keep the promise.   *)
(***************************************************************************)

\* A step of a till maps to Sell, Acknowledge, Learn or a stutter.
LEMMA TillKeepsPromise ==
    ASSUME IInv, NEW d \in Device,
           \/ \E p \in Payload : Record(d, p)
           \/ Round(d) \/ StoreFault(d) \/ GiveUp(d) \/ TornBody(d)
           \/ Restart(d) \/ Revoke(d)
    PROVE  [Promise!Next]_(Promise!vars)
<1>1. CASE \E p \in Payload : Record(d, p)
  BY <1>1 DEF Record, Promise!Next, Promise!Sell
<1>2. CASE AckPush(d)
  <2> DEFINE answer == conn[thread[d].conn]
             n == MarkSynced(d, answer.tip)
  <2>1. CASE UNCHANGED synced
    BY <1>2, <2>1 DEF AckPush, Promise!vars
  <2>2. CASE synced' = [synced EXCEPT ![d] = n]
    <3>1. /\ thread[d].conn \in Conn
          /\ answer.phase = "pushed"
          /\ answer.dev = d
          /\ answer.tip \in Nat
          /\ answer.tip <= Len(held[d])
      BY <1>2, ThreadFields, ExchangeFields
         DEF AckPush, IInv, TypeOK, OwnsExchange, Waiting, WireSound, Sound
    <3>2. n \in Nat /\ synced[d] <= n /\ n <= Len(held[d]) /\ synced[d] \in Nat
      BY <3>1 DEF MarkSynced, Max2, Min2, IInv, TypeOK, SyncedCovered
    <3> HIDE DEF n
    <3>3. CASE n = synced[d]
      BY <1>2, <2>2, <3>3 DEF AckPush, Promise!vars, IInv, TypeOK
    <3>4. CASE synced[d] < n
      <4>1. n \in 1 .. Len(held[d])
        BY <3>2, <3>4 DEF IInv, TypeOK
      <4>2. Promise!Acknowledge(d, n)
        BY <1>2, <2>2, <3>2, <3>4 DEF AckPush, Promise!Acknowledge
      <4> QED BY <4>1, <4>2 DEF Promise!Next
    <3> QED BY <3>2, <3>3, <3>4
  <2> QED BY <1>2, <2>1, <2>2 DEF AckPush
<1>3. CASE ApplyRow(d)
  <2>1. PICK row \in thread[d].page :
            remote' = [remote EXCEPT ![d] = @ \cup {<<row.dev, row.seq>>}]
    BY <1>3 DEF ApplyRow
  <2>2. HeldRow(d, row)
    BY <1>3, <2>1 DEF ApplyRow, IInv, PageSound
  <2>3. Promise!Learn(d, row.dev, row.seq)
    BY <1>3, <2>1, <2>2 DEF ApplyRow, HeldRow, Promise!Learn
  <2> QED BY <2>2, <2>3 DEF HeldRow, Promise!Next
<1>4. CASE \/ SendPush(d) \/ NothingToPush(d) \/ SendPull(d) \/ ReceivePage(d)
           \/ FinishRound(d) \/ Refuse(d) \/ StoreFault(d) \/ GiveUp(d)
           \/ TornBody(d) \/ Restart(d) \/ Revoke(d)
  BY <1>4 DEF SendPush, NothingToPush, SendPull, ReceivePage, FinishRound, Refuse,
              StoreFault, GiveUp, TornBody, Restart, Revoke, Promise!vars
<1> QED BY <1>1, <1>2, <1>3, <1>4 DEF Round

\* A step of the server maps to Accept or a stutter.
LEMMA ServerKeepsPromise ==
    ASSUME IInv, NEW c \in Conn, Serve(c) \/ AuthFault(c) \/ Abort(c)
    PROVE  [Promise!Next]_(Promise!vars)
<1>1. CASE CommitPush(c)
  <2> DEFINE d == conn[c].dev
             chain == conn[c].chain
  <2>1. /\ d \in Device
        /\ chain \in Seq(Payload)
        /\ IsPrefix(chain, log[d])
        /\ Len(held[d]) < Len(chain)
        /\ held' = [held EXCEPT ![d] = chain]
        /\ log[d] \in Seq(Payload)
        /\ held[d] \in Seq(Payload)
    BY <1>1, CommitGrows DEF IInv, TypeOK
  <2>2. Len(chain) \in 1 .. Len(log[d]) /\ chain = SubSeq(log[d], 1, Len(chain))
    BY <2>1, PrefixIsCut
  <2>3. UNCHANGED <<log, synced, remote>>
    BY <1>1 DEF CommitPush
  <2> HIDE DEF d, chain
  <2>4. Promise!Accept(d, Len(chain))
    <3>1. held' = [held EXCEPT ![d] = SubSeq(log[d], 1, Len(chain))]
      BY <2>1, <2>2, ZenonT(60)
    <3>2. Len(held[d]) < Len(chain) /\ Len(chain) <= Len(log[d])
      BY <2>1, <2>2
    <3> QED BY <2>3, <3>1, <3>2, ZenonT(60) DEF Promise!Accept
  <2> QED BY <2>1, <2>2, <2>4 DEF Promise!Next
<1>2. CASE \/ Unauthorised(c) \/ PlanPush(c) \/ AnswerRepeat(c) \/ InsertRow(c)
           \/ UniqueViolation(c) \/ OpenPull(c) \/ AnswerPull(c)
           \/ AuthFault(c) \/ Abort(c)
  BY <1>2 DEF Unauthorised, PlanPush, AnswerRepeat, InsertRow, UniqueViolation,
              OpenPull, AnswerPull, AuthFault, Abort, Promise!vars
<1> QED BY <1>1, <1>2 DEF Serve

\* Seen through log, synced, remote and held, the whole protocol is the
\* outlet's log of OutletLog: sell, accept, acknowledge, learn.
THEOREM Implements == Spec => ImplementsOutletLog
<1>1. Init => Promise!Init
  BY DEF Init, Promise!Init
<1>2. IInv /\ [Next]_vars => [Promise!Next]_(Promise!vars)
  <2> SUFFICES ASSUME IInv, [Next]_vars PROVE [Promise!Next]_(Promise!vars)
    OBVIOUS
  <2>1. CASE UNCHANGED vars
    BY <2>1 DEF vars, Promise!vars
  <2>2. CASE Next
    BY <2>2, TillKeepsPromise, ServerKeepsPromise DEF Next
  <2> QED BY <2>1, <2>2
<1> QED BY <1>1, <1>2, Invariance, PTL DEF Spec, ImplementsOutletLog, Promise!Spec

-----------------------------------------------------------------------------
(***************************************************************************)
(* Books, stops and cursors.                                               *)
(***************************************************************************)

\* A book lags behind the disk only while the round that stored something
\* new is still applying its page.
BookInv ==
    \A d \in Device : \/ book[d] = remote[d]
                      \/ thread[d].at = "apply" /\ thread[d].fresh

\* A batch on its way continues what the server holds and is of legal size.
BatchFits(x) ==
    x.phase = "push" => /\ x.first <= Len(held[x.dev]) + 1
                        /\ Len(x.chain) + 1 <= x.first + MaxBatch

\* Only a revoked device is told anything but "Unavailable".
RefusedForCause(x) ==
    x.phase = "refused" => x.why = "Unavailable" \/ x.dev \in revoked

\* The exchange a pushing thread waits on carries all it sent, and the
\* acknowledgement covers it.
CarriesBatch(d) ==
    thread[d].at = "push" =>
        LET x == conn[thread[d].conn]
        IN /\ x.phase \in {"push", "writing"} => Len(x.chain) = thread[d].last
           /\ x.phase \in {"repeating", "pushed"} => thread[d].last <= x.tip

StopInv ==
    /\ StoppedForCause
    /\ \A c \in Conn : BatchFits(conn[c]) /\ RefusedForCause(conn[c])
    /\ \A d \in Device : CarriesBatch(d)

Increasing(s) == \A i, j \in 1 .. Len(s) : i < j => s[i] < s[j]

\* Every number of a sequence was drawn from the server_seq sequence.
Drawn(s) == \A i \in 1 .. Len(s) : s[i] \in 1 .. nextSeq - 1

\* The committed numbers of each device are in the order of its chain, and an
\* open transaction that can still commit has drawn only later ones.
Later(x) ==
    x.phase = "writing" =>
        /\ x.tip <= Len(held[x.dev])
        /\ Increasing(x.pos) /\ Drawn(x.pos)
        /\ x.tip = Len(held[x.dev]) =>
              \A i \in 1 .. Len(pos[x.dev]), j \in 1 .. Len(x.pos) :
                  pos[x.dev][i] < x.pos[j]

InOrder ==
    /\ nextSeq >= 1
    /\ \A d \in Device : Increasing(pos[d]) /\ Drawn(pos[d])
    /\ \A c \in Conn : Later(conn[c])

\* A cursor is where a page began or ended: nothing yet, or the number of a
\* sibling's committed event.
Mark(d, v) ==
    \/ v = 0
    \/ \E e \in Device \ {d} : \E n \in 1 .. Len(held[e]) : v = pos[e][n]

\* Every committed sibling event up to v is in the page or on the disk.
Covers(d, page, v) ==
    \A e \in Device \ {d} : \A n \in 1 .. Len(held[e]) :
        pos[e][n] <= v =>
            \/ [dev |-> e, seq |-> n, pos |-> pos[e][n]] \in page
            \/ <<e, n>> \in remote[d]

PullSound(x) ==
    /\ x.phase \in {"pull", "reading"} =>
          Mark(x.dev, x.cursor) /\ x.cursor <= cursor[x.dev]
    /\ x.phase = "pulled" =>
          Mark(x.dev, x.cursor) /\ Covers(x.dev, x.page, x.cursor)

ApplySound(d) ==
    thread[d].at = "apply" =>
        /\ Mark(d, thread[d].cursor)
        /\ Covers(d, thread[d].page, thread[d].cursor)

PullInv ==
    /\ InOrder
    /\ \A d \in Device : /\ Mark(d, cursor[d])
                         /\ Covers(d, {}, cursor[d])
                         /\ ApplySound(d)
    /\ \A c \in Conn : PullSound(conn[c])

-----------------------------------------------------------------------------
(***************************************************************************)
(* The book shows what was pulled.                                         *)
(***************************************************************************)

\* A thread that is not applying a page moves without touching the book.
LEMMA BookStays ==
    ASSUME TypeOK, BookInv, NEW d \in Device, NEW x,
           thread[d].at # "apply", thread' = [thread EXCEPT ![d] = x],
           UNCHANGED <<book, remote>>
    PROVE  BookInv'
BY DEF TypeOK, BookInv

\* A row that is new to the disk makes the round owe a rebuild.
LEMMA ApplyRowOwes ==
    ASSUME TypeOK, BookInv, NEW d \in Device, ApplyRow(d)
    PROVE  BookInv'
<1>1. PICK row \in thread[d].page :
          /\ remote' = [remote EXCEPT ![d] = @ \cup {<<row.dev, row.seq>>}]
          /\ thread' = [thread EXCEPT ![d] =
                Applying(@.page \ {row}, @.cursor,
                         @.fresh \/ <<row.dev, row.seq>> \notin remote[d])]
  BY DEF ApplyRow
<1> DEFINE new == <<row.dev, row.seq>> \notin remote[d]
<1>2. /\ thread[d].at = "apply"
      /\ thread'[d].at = "apply"
      /\ thread'[d].fresh <=> thread[d].fresh \/ new
  BY <1>1 DEF TypeOK, ApplyRow, Applying
<1>3. remote'[d] = remote[d] \cup {<<row.dev, row.seq>>} /\ book' = book
  BY <1>1 DEF TypeOK, ApplyRow
<1>4. \A e \in Device \ {d} : /\ remote'[e] = remote[e]
                              /\ thread'[e] = thread[e]
  BY <1>1 DEF TypeOK
<1>5. \/ book'[d] = remote'[d]
      \/ thread'[d].at = "apply" /\ thread'[d].fresh
  <2>1. CASE new
    BY <1>2, <2>1
  <2>2. CASE ~new
    <3>1. remote'[d] = remote[d]
      BY <1>3, <2>2
    <3> QED BY <1>2, <1>3, <3>1 DEF BookInv
  <2> QED BY <2>1, <2>2
<1> QED BY <1>3, <1>4, <1>5 DEF BookInv

\* The end of a round pays what it owes, and a restart rebuilds the book.
LEMMA BookRebuilt ==
    ASSUME TypeOK, BookInv, NEW d \in Device, FinishRound(d) \/ Restart(d)
    PROVE  BookInv'
<1>1. CASE FinishRound(d)
  BY <1>1 DEF FinishRound, TypeOK, BookInv
<1>2. CASE Restart(d)
  BY <1>2 DEF Restart, TypeOK, BookInv
<1> QED BY <1>1, <1>2

\* Every step keeps the book no further behind than the round under way.
LEMMA BookStep ==
    ASSUME TypeOK, BookInv, "store" \notin Flaky, [Next]_vars
    PROVE  BookInv'
<1>1. CASE UNCHANGED <<book, remote, thread>>
  BY <1>1 DEF BookInv
<1>2. ASSUME NEW d \in Device, Round(d) PROVE BookInv'
  <2>1. CASE SendPush(d) \/ NothingToPush(d) \/ AckPush(d)
    <3>1. \E x : thread' = [thread EXCEPT ![d] = x]
      BY <2>1 DEF SendPush, NothingToPush, AckPush
    <3>2. thread[d].at # "apply" /\ UNCHANGED <<book, remote>>
      BY <2>1 DEF SendPush, NothingToPush, AckPush
    <3> QED BY <3>1, <3>2, BookStays
  <2>2. CASE SendPull(d) \/ ReceivePage(d) \/ Refuse(d)
    <3>1. \E x : thread' = [thread EXCEPT ![d] = x]
      BY <2>2 DEF SendPull, ReceivePage, Refuse
    <3>2. thread[d].at # "apply" /\ UNCHANGED <<book, remote>>
      BY <2>2 DEF SendPull, ReceivePage, Refuse, Waiting
    <3> QED BY <3>1, <3>2, BookStays
  <2>3. CASE ApplyRow(d) \/ FinishRound(d)
    BY <2>3, ApplyRowOwes, BookRebuilt
  <2> QED BY <1>2, <2>1, <2>2, <2>3 DEF Round
<1>3. ASSUME NEW d \in Device, GiveUp(d) \/ TornBody(d) PROVE BookInv'
  <2>1. \E x : thread' = [thread EXCEPT ![d] = x]
    BY <1>3 DEF GiveUp, TornBody
  <2>2. thread[d].at # "apply" /\ UNCHANGED <<book, remote>>
    BY <1>3 DEF GiveUp, TornBody, Waiting
  <2> QED BY <2>1, <2>2, BookStays
<1>4. ASSUME NEW d \in Device, StoreFault(d) PROVE BookInv'
  BY <1>4 DEF StoreFault
<1>5. ASSUME NEW d \in Device, NEW p \in Payload, Record(d, p) \/ Revoke(d)
      PROVE  UNCHANGED <<book, remote, thread>>
  BY <1>5 DEF Record, Revoke
<1>6. ASSUME NEW d \in Device, Revoke(d) PROVE UNCHANGED <<book, remote, thread>>
  BY <1>6 DEF Revoke
<1>7. ASSUME NEW c \in Conn, Serve(c) \/ AuthFault(c) \/ Abort(c)
      PROVE  UNCHANGED <<book, remote, thread>>
  BY <1>7 DEF Serve, Unauthorised, PlanPush, AnswerRepeat, InsertRow, UniqueViolation,
              CommitPush, OpenPull, AnswerPull, AuthFault, Abort
<1>8. CASE UNCHANGED vars
  BY <1>1, <1>8 DEF vars
<1> QED BY <1>1, <1>2, <1>3, <1>4, <1>5, <1>6, <1>7, <1>8, BookRebuilt DEF Next

\* A till whose badge says UpToDate has every event it pulled in its live
\* SaleBook, as long as the local database answers: whatever is lost on the
\* wire, a round that stored something new ends in a rebuild.
THEOREM BookIsUpToDate == "store" \notin Flaky => (Spec => []BookShowsPulled)
<1> SUFFICES ASSUME "store" \notin Flaky PROVE Spec => []BookShowsPulled
  OBVIOUS
<1>1. Init => BookInv
  BY DEF Init, BookInv
<1>2. IInv /\ BookInv /\ [Next]_vars => BookInv'
  BY BookStep DEF IInv
<1>3. BookInv => BookShowsPulled
  BY DEF BookInv, BookShowsPulled, Asleep
<1> QED BY <1>1, <1>2, <1>3, Invariance, PTL DEF Spec

-----------------------------------------------------------------------------
(***************************************************************************)
(* Only a revoked device stops.                                            *)
(***************************************************************************)

\* Chains only grow on the server and a revocation is never taken back, so
\* what fitted still fits and what was a cause still is one.
LEMMA CauseLasts ==
    ASSUME NEW x \in Exchange, BatchFits(x), RefusedForCause(x), TypeOK, TypeOK',
           \A e \in Device : Len(held[e]) <= Len(held'[e]),
           revoked \subseteq revoked'
    PROVE  BatchFits(x)' /\ RefusedForCause(x)'
<1>1. x.phase = "push" => x.dev \in Device /\ x.first \in Nat
  BY ExchangeFields
<1>2. BatchFits(x)'
  BY <1>1, SMTT(60) DEF BatchFits, TypeOK
<1>3. RefusedForCause(x)'
  BY DEF RefusedForCause
<1> QED BY <1>2, <1>3

\* A batch cut from the disk that continues the server's chain is never
\* rejected by plan_batch: too long, a gap and a fork are all ruled out.
LEMMA NeverRejected ==
    ASSUME NEW own \in Seq(Payload), NEW chain \in Seq(Payload),
           NEW tip \in Seq(Payload), NEW first \in Nat,
           IsPrefix(chain, own), IsPrefix(tip, own), BatchAssumption,
           first <= Len(tip) + 1, Len(chain) + 1 <= first + MaxBatch
    PROVE  PlanBatch(first, chain, tip) \notin Rejection
<1>1. Len(tip) <= Len(chain) => IsPrefix(tip, chain)
  BY PrefixCompare
<1>2. Len(tip) \in Nat /\ Len(chain) \in Nat /\ MaxBatch \in Nat
  BY DEF BatchAssumption
<1> QED BY <1>1, <1>2 DEF PlanBatch, Rejection

\* A thread that leaves its exchange, or had none, stops only for cause.
LEMMA StopLeave ==
    ASSUME IInv, StopInv,
           NEW d \in Device, NEW x \in Thread, x.at \notin {"push", "pull"},
           x = Stopped => d \in revoked,
           thread' = [thread EXCEPT ![d] = x],
           \/ conn' = conn
           \/ Waiting(d) /\ conn' = [conn EXCEPT ![thread[d].conn] = Idle],
           UNCHANGED <<held, revoked>>
    PROVE  StopInv'
<1>1. \A k \in Conn : conn'[k] = conn[k] \/ conn'[k].phase = "idle"
  BY LeaveKeeps DEF IInv
<1>2. StoppedForCause'
  BY DEF IInv, TypeOK, StopInv, StoppedForCause
<1>3. \A c \in Conn : BatchFits(conn[c])' /\ RefusedForCause(conn[c])'
  BY <1>1 DEF StopInv, BatchFits, RefusedForCause
<1>4. ASSUME NEW e \in Device, thread'[e].at = "push"
      PROVE  CarriesBatch(e)'
  <2>1. e # d /\ thread'[e] = thread[e]
    BY <1>4 DEF IInv, TypeOK
  <2>2. thread[e].conn \in Conn
    BY <1>4, <2>1, ThreadFields DEF IInv, TypeOK
  <2>3. CarriesBatch(e)
    BY DEF StopInv
  <2> QED BY <1>1, <1>4, <2>1, <2>2, <2>3 DEF CarriesBatch
<1>5. \A e \in Device : CarriesBatch(e)'
  BY <1>4 DEF CarriesBatch
<1> QED BY <1>2, <1>3, <1>5 DEF StopInv

\* A thread that sends on an idle exchange sends a batch that fits.
LEMMA StopSend ==
    ASSUME IInv, StopInv,
           NEW d \in Device, NEW c \in Conn, NEW x \in Thread, NEW req \in Exchange,
           conn[c] = Idle, x.conn = c, x # Stopped,
           req.phase \in {"push", "pull"}, BatchFits(req),
           x.at = "push" => req.phase = "push" /\ Len(req.chain) = x.last,
           conn' = [conn EXCEPT ![c] = req],
           thread' = [thread EXCEPT ![d] = x],
           UNCHANGED <<held, revoked>>
    PROVE  StopInv'
<1>1. StoppedForCause'
  BY DEF IInv, TypeOK, StopInv, StoppedForCause
<1>2. \A k \in Conn : BatchFits(conn[k])' /\ RefusedForCause(conn[k])'
  BY DEF IInv, TypeOK, StopInv, BatchFits, RefusedForCause
<1>3. CarriesBatch(d)'
  BY DEF IInv, TypeOK, CarriesBatch
<1>4. ASSUME NEW e \in Device \ {d}, thread[e].at = "push"
      PROVE  CarriesBatch(e)'
  <2>1. thread'[e] = thread[e] /\ thread[e].conn \in Conn
    BY <1>4, ThreadFields DEF IInv, TypeOK
  <2>2. thread[e].conn # c
    BY <1>4 DEF IInv, OwnsExchange, Waiting, Idle
  <2>3. conn'[thread[e].conn] = conn[thread[e].conn]
    BY <2>1, <2>2 DEF IInv, TypeOK
  <2> QED BY <2>1, <2>3 DEF StopInv, CarriesBatch
<1>5. \A e \in Device : CarriesBatch(e)'
  BY <1>3, <1>4 DEF CarriesBatch, IInv, TypeOK
<1> QED BY <1>1, <1>2, <1>5 DEF StopInv

\* The server moves one exchange: to a refusal with a cause, to a transaction
\* over the same batch, or to an acknowledgement that covers the batch.
LEMMA StopServe ==
    ASSUME IInv, TypeOK', StopInv, NEW c \in Conn, NEW x \in Exchange,
           conn'[c] = x \/ conn'[c].phase = "idle",
           \A k \in Conn \ {c} : conn'[k] = conn[k],
           x.phase # "push", RefusedForCause(x),
           x.phase = "writing" =>
               conn[c].phase \in {"push", "writing"} /\ x.chain = conn[c].chain,
           x.phase \in {"repeating", "pushed"} =>
               \/ conn[c].phase \in {"push", "writing"} /\ Len(conn[c].chain) <= x.tip
               \/ conn[c].phase = "repeating" /\ conn[c].tip <= x.tip,
           \A e \in Device : Len(held[e]) <= Len(held'[e]),
           UNCHANGED <<thread, revoked>>
    PROVE  StopInv'
<1>1. StoppedForCause'
  BY DEF StopInv, StoppedForCause
<1>2. ASSUME NEW k \in Conn PROVE BatchFits(conn[k])' /\ RefusedForCause(conn[k])'
  <2>1. CASE k # c
    <3>1. conn'[k] = conn[k] /\ conn[k] \in Exchange
      BY <2>1 DEF IInv, TypeOK
    <3>2. BatchFits(conn[k]) /\ RefusedForCause(conn[k])
      BY DEF StopInv
    <3> QED BY <3>1, <3>2, CauseLasts DEF IInv, BatchFits, RefusedForCause
  <2>2. CASE k = c
    BY <2>2 DEF BatchFits, RefusedForCause
  <2> QED BY <2>1, <2>2
<1>3. ASSUME NEW e \in Device, thread[e].at = "push"
      PROVE  CarriesBatch(e)'
  <2>1. thread[e].conn \in Conn /\ CarriesBatch(e)
    BY <1>3, ThreadFields DEF IInv, TypeOK, StopInv
  <2>2. CASE thread[e].conn # c
    BY <2>1, <2>2 DEF CarriesBatch
  <2>3. CASE thread[e].conn = c
    <3>1. /\ conn[c].phase \in {"push", "writing"} => Len(conn[c].chain) = thread[e].last
          /\ conn[c].phase = "repeating" => thread[e].last <= conn[c].tip
      BY <1>3, <2>1, <2>3 DEF CarriesBatch
    <3>2. CASE conn'[c] = x /\ x.phase = "writing"
      BY <2>3, <3>1, <3>2 DEF CarriesBatch
    <3>3. CASE conn'[c] = x /\ x.phase \in {"repeating", "pushed"}
      <4>1. x.tip \in Nat /\ thread[e].last \in Nat
        BY <1>3, <3>3, ExchangeFields, ThreadFields DEF IInv, TypeOK
      <4>2. conn[c].phase = "repeating" => conn[c].tip \in Nat
        BY ExchangeFields DEF IInv, TypeOK
      <4>3. thread[e].last <= x.tip
        BY <3>1, <3>3, <4>1, <4>2
      <4> QED BY <2>3, <3>3, <4>3 DEF CarriesBatch
    <3>4. CASE conn'[c].phase \notin {"push", "writing", "repeating", "pushed"}
      BY <2>3, <3>4 DEF CarriesBatch
    <3> QED BY <3>2, <3>3, <3>4
  <2> QED BY <2>2, <2>3
<1>4. \A e \in Device : CarriesBatch(e)'
  BY <1>3 DEF CarriesBatch
<1> QED BY <1>1, <1>2, <1>4 DEF StopInv

\* A round sends the oldest unsynced events, and no more than fit.
LEMMA StopSendPush ==
    ASSUME IInv, StopInv, BatchAssumption, NEW d \in Device, SendPush(d)
    PROVE  StopInv'
<1> DEFINE last == Min2(synced[d] + MaxBatch, Len(log[d]))
           cut == SubSeq(log[d], 1, last)
           req == Push(d, synced[d] + 1, cut)
<1>1. PICK c \in Conn :
          /\ conn[c] = Idle
          /\ conn' = [conn EXCEPT ![c] = req]
          /\ thread' = [thread EXCEPT ![d] = AwaitPush(c, last)]
  BY DEF SendPush
<1>2. /\ last \in 0 .. Len(log[d])
      /\ last <= synced[d] + MaxBatch
      /\ synced[d] \in Nat
      /\ synced[d] <= Len(held[d])
  BY DEF IInv, TypeOK, SyncedCovered, BatchAssumption, Min2
<1>3. cut \in Seq(Payload) /\ Len(cut) = last
  BY <1>2, PrefixCut DEF IInv, TypeOK
<1> HIDE DEF cut, last
<1>4. req \in Exchange /\ AwaitPush(c, last) \in Thread
  <2>1. synced[d] + 1 \in Nat /\ last \in Nat
    BY <1>2
  <2> QED BY <1>3, <2>1, ExchangeKinds, ThreadKinds
<1>5. BatchFits(req)
  BY <1>2, <1>3 DEF BatchFits, Push, BatchAssumption, IInv, TypeOK
<1>6. /\ AwaitPush(c, last).conn = c
      /\ AwaitPush(c, last).last = last
      /\ AwaitPush(c, last) # Stopped
      /\ req.phase = "push"
      /\ req.chain = cut
  BY DEF AwaitPush, Stopped, Push
<1> HIDE DEF req
<1> QED BY <1>1, <1>3, <1>4, <1>5, <1>6, StopSend DEF SendPush

\* A page is asked for; no batch is under way.
LEMMA StopSendPull ==
    ASSUME IInv, StopInv, NEW d \in Device, SendPull(d)
    PROVE  StopInv'
<1>1. PICK c \in Conn :
          /\ conn[c] = Idle
          /\ conn' = [conn EXCEPT ![c] = Pull(d, cursor[d])]
          /\ thread' = [thread EXCEPT ![d] = AwaitPull(c)]
  BY DEF SendPull
<1>2. Pull(d, cursor[d]) \in Exchange /\ AwaitPull(c) \in Thread
  BY ExchangeKinds, ThreadKinds DEF IInv, TypeOK
<1>3. /\ AwaitPull(c).conn = c
      /\ AwaitPull(c).at = "pull"
      /\ AwaitPull(c) # Stopped
      /\ Pull(d, cursor[d]).phase = "pull"
      /\ BatchFits(Pull(d, cursor[d]))
  BY DEF AwaitPull, Stopped, Pull, BatchFits
<1> QED BY <1>1, <1>2, <1>3, StopSend DEF SendPull

\* The acknowledgement a thread receives covers what it sent, so it drains.
LEMMA StopAck ==
    ASSUME IInv, StopInv, NEW d \in Device, AckPush(d)
    PROVE  StopInv'
<1>1. /\ thread[d].conn \in Conn
      /\ conn[thread[d].conn].phase = "pushed"
      /\ thread[d].last \in Nat
      /\ conn[thread[d].conn].tip \in Nat
  BY ThreadFields, ExchangeFields DEF AckPush, IInv, TypeOK
<1>2. thread[d].last <= conn[thread[d].conn].tip
  BY <1>1 DEF AckPush, StopInv, CarriesBatch
<1>3. thread' = [thread EXCEPT ![d] = Drained]
  BY <1>1, <1>2 DEF AckPush
<1>4. Drained \in Thread /\ Drained.at = "drained" /\ Drained # Stopped
  BY ThreadKinds DEF Drained, Stopped
<1> QED BY <1>3, <1>4, StopLeave DEF AckPush, Waiting

\* A refusal stops the thread of a revoked device only.
LEMMA StopRefuse ==
    ASSUME IInv, StopInv, NEW d \in Device, Refuse(d)
    PROVE  StopInv'
<1> DEFINE x == IF Retryable(conn[thread[d].conn].why) THEN Asleep(FALSE) ELSE Stopped
<1>1. /\ thread[d].conn \in Conn
      /\ conn[thread[d].conn].phase = "refused"
      /\ conn[thread[d].conn].dev = d
  BY ThreadFields DEF Refuse, Waiting, IInv, TypeOK, OwnsExchange
<1>2. x = Stopped => d \in revoked
  BY <1>1 DEF StopInv, RefusedForCause, Retryable, Asleep, Stopped
<1>3. x \in Thread /\ x.at \notin {"push", "pull"}
  BY ThreadKinds DEF Asleep, Stopped
<1>4. thread' = [thread EXCEPT ![d] = x]
  BY DEF Refuse
<1> HIDE DEF x
<1> QED BY <1>2, <1>3, <1>4, StopLeave DEF Refuse

\* No other end of a round stops a thread.
LEMMA StopOtherEnds ==
    ASSUME IInv, StopInv, NEW d \in Device,
           \/ NothingToPush(d) \/ ReceivePage(d) \/ ApplyRow(d) \/ FinishRound(d)
           \/ StoreFault(d) \/ GiveUp(d) \/ Restart(d)
    PROVE  StopInv'
<1>1. PICK x : /\ thread' = [thread EXCEPT ![d] = x]
               /\ x.at \in {"drained", "asleep", "apply"}
  <2>1. CASE \E y \in {Drained, Asleep(TRUE), Asleep(FALSE)} :
                 thread' = [thread EXCEPT ![d] = y]
    <3>1. PICK y \in {Drained, Asleep(TRUE), Asleep(FALSE)} :
              thread' = [thread EXCEPT ![d] = y]
      BY <2>1
    <3>2. y.at \in {"drained", "asleep"}
      BY DEF Drained, Asleep
    <3> QED BY <3>1, <3>2, ZenonT(60)
  <2>2. CASE NothingToPush(d) \/ FinishRound(d) \/ StoreFault(d) \/ GiveUp(d) \/ Restart(d)
    BY <2>1, <2>2 DEF NothingToPush, FinishRound, StoreFault, GiveUp, Restart
  <2>3. CASE ReceivePage(d) \/ ApplyRow(d)
    <3>1. \A page, upto, fresh : Applying(page, upto, fresh).at = "apply"
      BY DEF Applying
    <3>2. CASE ReceivePage(d)
      BY <3>1, <3>2, ZenonT(60) DEF ReceivePage
    <3>3. CASE ApplyRow(d)
      <4>1. PICK row \in thread[d].page :
               thread' = [thread EXCEPT ![d] =
                  Applying(thread[d].page \ {row}, thread[d].cursor,
                           thread[d].fresh \/ <<row.dev, row.seq>> \notin remote[d])]
        BY <3>3 DEF ApplyRow
      <4> QED BY <3>1, <4>1
    <3> QED BY <2>3, <3>2, <3>3
  <2> QED BY <2>1, <2>2, <2>3
<1>2. x \in Thread
  <2>1. IInv'
    BY NothingToPushKeeps, ReceivePageKeeps, ApplyRowKeeps, FinishRoundKeeps, EarlyEndsKeep
  <2> QED BY <1>1, <2>1 DEF IInv, TypeOK
<1>3. x # Stopped
  BY <1>1 DEF Stopped
<1>4. \/ conn' = conn
      \/ Waiting(d) /\ conn' = [conn EXCEPT ![thread[d].conn] = Idle]
  BY DEF NothingToPush, ReceivePage, ApplyRow, FinishRound, StoreFault, GiveUp, Restart,
         Abandon, Waiting
<1>5. UNCHANGED <<held, revoked>>
  BY DEF NothingToPush, ReceivePage, ApplyRow, FinishRound, StoreFault, GiveUp, Restart
<1> QED BY <1>1, <1>2, <1>3, <1>4, <1>5, StopLeave

\* The server refuses a revoked device, and otherwise only rolls back.
LEMMA StopRefusals ==
    ASSUME IInv, StopInv, NEW c \in Conn,
           Unauthorised(c) \/ UniqueViolation(c) \/ Abort(c)
    PROVE  StopInv'
<1>1. PICK why \in Rejection :
          /\ Answer(c, Refused(conn[c].dev, why))
          /\ why = "Unavailable" \/ conn[c].dev \in revoked
  BY DEF Unauthorised, Authorised, UniqueViolation, Abort, Rejection
<1> DEFINE x == Refused(conn[c].dev, why)
<1>2. conn[c].dev \in Device
  BY ExchangeFields
     DEF Unauthorised, UniqueViolation, Abort, Request, InTransaction, IInv, TypeOK
<1>3. /\ x \in Exchange
      /\ x.phase = "refused"
      /\ x.dev = conn[c].dev
      /\ RefusedForCause(x)
  BY <1>1, <1>2, ExchangeKinds DEF Refused, RefusedForCause
<1>4. TypeOK'
  BY RefusalsKeep DEF IInv
<1>5. UNCHANGED <<thread, held, revoked>>
  BY DEF Unauthorised, UniqueViolation, Abort
<1>6. Answer(c, x)
  BY <1>1
<1> HIDE DEF x
<1>7. \A e \in Device : Len(held[e]) <= Len(held'[e])
  BY <1>5 DEF IInv, TypeOK
<1>8. /\ conn'[c] = x \/ conn'[c].phase = "idle"
      /\ \A k \in Conn \ {c} : conn'[k] = conn[k]
  BY <1>3, <1>5, <1>6, AnswerKeeps DEF IInv
<1> QED BY <1>3, <1>4, <1>5, <1>7, <1>8, StopServe

\* A page is no refusal.
LEMMA StopAnswerPull ==
    ASSUME IInv, StopInv, NEW c \in Conn, AnswerPull(c)
    PROVE  StopInv'
<1> DEFINE page == Page(conn[c].dev, conn[c].cursor)
<1>1. PICK upto \in PageEnd(page, conn[c].cursor) :
          Answer(c, Pulled(conn[c].dev, page, upto))
  BY DEF AnswerPull
<1> DEFINE x == Pulled(conn[c].dev, page, upto)
<1>2. conn[c].dev \in Device /\ conn[c].cursor \in Nat
  BY ExchangeFields DEF AnswerPull, IInv, TypeOK
<1>3. page \in SUBSET Row /\ upto \in Nat
  BY <1>1, <1>2, PageRows DEF IInv
<1>4. /\ x \in Exchange
      /\ x.phase = "pulled"
      /\ x.dev = conn[c].dev
      /\ RefusedForCause(x)
  BY <1>2, <1>3, ExchangeKinds DEF Pulled, RefusedForCause
<1>5. TypeOK' /\ UNCHANGED <<thread, held, revoked>>
  BY AnswerPullKeeps DEF AnswerPull, IInv
<1>6. Answer(c, x)
  BY <1>1
<1> HIDE DEF x
<1>7. \A e \in Device : Len(held[e]) <= Len(held'[e])
  BY <1>5 DEF IInv, TypeOK
<1>8. /\ conn'[c] = x \/ conn'[c].phase = "idle"
      /\ \A k \in Conn \ {c} : conn'[k] = conn[k]
  BY <1>4, <1>5, <1>6, AnswerKeeps DEF IInv
<1> QED BY <1>4, <1>5, <1>7, <1>8, StopServe

\* Starting to read a page refuses nothing.
LEMMA StopOpenPull ==
    ASSUME IInv, StopInv, NEW c \in Conn, OpenPull(c)
    PROVE  StopInv'
<1> DEFINE x == Reading(conn[c].dev, conn[c].cursor)
<1>1. conn[c].dev \in Device /\ conn[c].cursor \in Nat
  BY ExchangeFields DEF OpenPull, IInv, TypeOK
<1>2. x \in Exchange /\ x.phase = "reading" /\ RefusedForCause(x)
  BY <1>1, ExchangeKinds DEF Reading, RefusedForCause
<1>3. TypeOK' /\ UNCHANGED <<thread, held, revoked>>
  BY OpenPullKeeps DEF OpenPull, IInv
<1>4. conn' = [conn EXCEPT ![c] = x]
  BY DEF OpenPull
<1> HIDE DEF x
<1>5. conn'[c] = x /\ \A k \in Conn \ {c} : conn'[k] = conn[k]
  BY <1>4 DEF IInv, TypeOK
<1>6. \A e \in Device : Len(held[e]) <= Len(held'[e])
  BY <1>3 DEF IInv, TypeOK
<1> QED BY <1>2, <1>3, <1>5, <1>6, StopServe

\* A repeated batch is acknowledged as far as it was found held.
LEMMA StopAnswerRepeat ==
    ASSUME IInv, StopInv, NEW c \in Conn, AnswerRepeat(c)
    PROVE  StopInv'
<1> DEFINE x == Pushed(conn[c].dev, conn[c].tip)
<1>1. conn[c].phase = "repeating" /\ conn[c].dev \in Device /\ conn[c].tip \in Nat
  BY ExchangeFields DEF AnswerRepeat, IInv, TypeOK
<1>2. /\ x \in Exchange
      /\ x.phase = "pushed"
      /\ x.dev = conn[c].dev
      /\ conn[c].tip <= x.tip
      /\ RefusedForCause(x)
  BY <1>1, ExchangeKinds DEF Pushed, RefusedForCause
<1>3. TypeOK' /\ UNCHANGED <<thread, held, revoked>>
  BY AnswerRepeatKeeps DEF AnswerRepeat, IInv
<1>4. Answer(c, x)
  BY DEF AnswerRepeat
<1> HIDE DEF x
<1>5. \A e \in Device : Len(held[e]) <= Len(held'[e])
  BY <1>3 DEF IInv, TypeOK
<1>6. /\ conn'[c] = x \/ conn'[c].phase = "idle"
      /\ \A k \in Conn \ {c} : conn'[k] = conn[k]
  BY <1>2, <1>3, <1>4, AnswerKeeps DEF IInv
<1> QED BY <1>1, <1>2, <1>3, <1>5, <1>6, StopServe

\* plan_batch finds the batch held already, or opens a transaction over it.
LEMMA StopPlanPush ==
    ASSUME IInv, StopInv, BatchAssumption, NEW c \in Conn, PlanPush(c)
    PROVE  StopInv'
<1> DEFINE d == conn[c].dev
           chain == conn[c].chain
           plan == PlanBatch(conn[c].first, chain, held[d])
<1>1. /\ conn[c].phase = "push"
      /\ d \in Device
      /\ chain \in Seq(Payload)
      /\ held[d] \in Seq(Payload)
      /\ log[d] \in Seq(Payload)
      /\ conn[c].first \in Nat
      /\ IsPrefix(chain, log[d])
      /\ IsPrefix(held[d], log[d])
  BY ExchangeFields DEF PlanPush, IInv, TypeOK, WireSound, Sound, HeldIsSealed
<1>2. BatchFits(conn[c])
  BY DEF StopInv
<1>3. plan \notin Rejection
  <2>1. /\ conn[c].first <= Len(held[d]) + 1
        /\ Len(chain) + 1 <= conn[c].first + MaxBatch
    BY <1>1, <1>2 DEF BatchFits
  <2> QED BY <1>1, <2>1, NeverRejected
<1>4. TypeOK' /\ UNCHANGED <<thread, held, revoked>>
  BY PlanPushKeeps DEF PlanPush, IInv
<1>5. \A e \in Device : Len(held[e]) <= Len(held'[e])
  BY <1>4 DEF IInv, TypeOK
<1>6. CASE /\ plan = "noop"
           /\ conn' = [conn EXCEPT ![c] = Repeating(d, Len(held[d]))]
  <2> DEFINE x == Repeating(d, Len(held[d]))
  <2>1. Len(chain) <= Len(held[d])
    BY <1>6 DEF PlanBatch
  <2>2. /\ x \in Exchange
        /\ x.phase = "repeating"
        /\ x.tip = Len(held[d])
        /\ RefusedForCause(x)
    BY <1>1, ExchangeKinds DEF Repeating, RefusedForCause
  <2>3. conn' = [conn EXCEPT ![c] = x]
    BY <1>6
  <2> HIDE DEF x
  <2>4. conn'[c] = x /\ \A k \in Conn \ {c} : conn'[k] = conn[k]
    BY <2>3 DEF IInv, TypeOK
  <2> QED BY <1>1, <1>4, <1>5, <2>1, <2>2, <2>4, StopServe
<1>7. CASE conn' = [conn EXCEPT ![c] = Writing(d, Len(held[d]), chain, <<>>)]
  <2> DEFINE x == Writing(d, Len(held[d]), chain, <<>>)
  <2>1. Len(held[d]) \in Nat /\ <<>> \in Seq(Nat)
    BY <1>1
  <2>2. x \in Exchange
    BY <1>1, <2>1, ExchangeKinds
  <2>3. x.phase = "writing" /\ x.chain = chain /\ RefusedForCause(x)
    BY DEF Writing, RefusedForCause
  <2>4. conn' = [conn EXCEPT ![c] = x]
    BY <1>7
  <2> HIDE DEF x
  <2>5. conn'[c] = x /\ \A k \in Conn \ {c} : conn'[k] = conn[k]
    BY <2>4 DEF IInv, TypeOK
  <2> QED BY <1>1, <1>4, <1>5, <2>2, <2>3, <2>5, StopServe
<1> QED BY <1>3, <1>6, <1>7 DEF PlanPush

\* An open transaction keeps its batch, and its commit acknowledges all of it.
LEMMA StopWrite ==
    ASSUME IInv, StopInv, NEW c \in Conn, InsertRow(c) \/ CommitPush(c)
    PROVE  StopInv'
<1>1. CASE InsertRow(c)
  <2>1. IInv' /\ UNCHANGED <<thread, held, revoked>>
    BY <1>1, InsertRowKeeps DEF InsertRow
  <2>2. conn'[c] = [conn[c] EXCEPT !.pos = Append(@, nextSeq)]
    BY <1>1, ZenonT(60) DEF InsertRow, IInv, TypeOK
  <2>3. /\ conn[c].phase = "writing"
        /\ conn[c] \in [phase : {"writing"}, dev : Device, tip : Nat,
                        chain : Seq(Payload), pos : Seq(Nat)]
    BY <1>1, WritingFields DEF InsertRow, IInv, TypeOK
  <2>4. conn'[c].phase = "writing" /\ conn'[c].chain = conn[c].chain
    BY <2>2, <2>3
  <2>5. conn'[c] \in Exchange
    BY <2>1 DEF IInv, TypeOK
  <2>6. \A k \in Conn \ {c} : conn'[k] = conn[k]
    BY <1>1 DEF InsertRow, IInv, TypeOK
  <2>7. \A e \in Device : Len(held[e]) <= Len(held'[e])
    BY <2>1 DEF IInv, TypeOK
  <2>8. RefusedForCause(conn'[c])
    BY <2>4 DEF RefusedForCause
  <2> QED BY <2>1, <2>3, <2>4, <2>5, <2>6, <2>7, <2>8, StopServe DEF IInv
<1>2. CASE CommitPush(c)
  <2> DEFINE d == conn[c].dev
             chain == conn[c].chain
             x == Pushed(d, Len(chain))
  <2>1. /\ conn[c].phase = "writing"
        /\ d \in Device
        /\ chain \in Seq(Payload)
        /\ Len(held[d]) < Len(chain)
        /\ held' = [held EXCEPT ![d] = chain]
    BY <1>2, CommitGrows
  <2>2. TypeOK' /\ UNCHANGED <<thread, revoked>>
    BY <1>2, CommitPushKeeps DEF CommitPush, IInv
  <2>3. \A e \in Device : Len(held[e]) <= Len(held'[e])
    BY <2>1 DEF IInv, TypeOK
  <2>4. Len(chain) \in Nat
    BY <2>1
  <2>5. /\ x \in Exchange
        /\ x.phase = "pushed"
        /\ x.dev = d
        /\ x.tip = Len(chain)
        /\ RefusedForCause(x)
    BY <2>1, <2>4, ExchangeKinds DEF Pushed, RefusedForCause
  <2>6. Answer(c, x)
    BY <1>2 DEF CommitPush
  <2> HIDE DEF x
  <2>7. /\ conn'[c] = x \/ conn'[c].phase = "idle"
        /\ \A k \in Conn \ {c} : conn'[k] = conn[k]
    BY <2>2, <2>5, <2>6, AnswerKeeps DEF IInv
  <2>8. Len(conn[c].chain) <= x.tip
    BY <2>4, <2>5
  <2> QED BY <2>1, <2>2, <2>3, <2>5, <2>7, <2>8, StopServe
<1> QED BY <1>1, <1>2

\* A sale or a revocation stops no thread.
LEMMA StopStays ==
    ASSUME IInv, StopInv,
           UNCHANGED <<thread, held, conn>>, revoked \subseteq revoked'
    PROVE  StopInv'
BY DEF StopInv, StoppedForCause, BatchFits, RefusedForCause, CarriesBatch

\* Every step but a torn answer and a failed authentication stops a thread
\* for cause only.
LEMMA StopStep ==
    ASSUME IInv, StopInv, Flaky \cap {"auth", "body"} = {}, [Next]_vars
    PROVE  StopInv'
<1> USE BatchAssumption
<1>1. ASSUME NEW d \in Device, Round(d) PROVE StopInv'
  <2>1. CASE SendPush(d) \/ AckPush(d) \/ SendPull(d) \/ Refuse(d)
    BY <2>1, StopSendPush, StopAck, StopSendPull, StopRefuse
  <2>2. CASE NothingToPush(d) \/ ReceivePage(d) \/ ApplyRow(d) \/ FinishRound(d)
    BY <2>2, StopOtherEnds
  <2> QED BY <1>1, <2>1, <2>2 DEF Round
<1>2. ASSUME NEW d \in Device, StoreFault(d) \/ GiveUp(d) \/ Restart(d) PROVE StopInv'
  BY <1>2, StopOtherEnds
<1>3. ASSUME NEW d \in Device PROVE ~TornBody(d)
  BY DEF TornBody
<1>4. ASSUME NEW c \in Conn PROVE ~AuthFault(c)
  BY DEF AuthFault
<1>5. ASSUME NEW c \in Conn, Serve(c) \/ Abort(c) PROVE StopInv'
  <2>1. CASE Unauthorised(c) \/ UniqueViolation(c) \/ Abort(c)
    BY <2>1, StopRefusals
  <2>2. CASE PlanPush(c) \/ AnswerRepeat(c) \/ InsertRow(c) \/ CommitPush(c)
    BY <2>2, StopPlanPush, StopAnswerRepeat, StopWrite
  <2>3. CASE OpenPull(c) \/ AnswerPull(c)
    BY <2>3, StopOpenPull, StopAnswerPull
  <2> QED BY <1>5, <2>1, <2>2, <2>3 DEF Serve
<1>6. ASSUME NEW d \in Device, NEW p \in Payload, Record(d, p) PROVE StopInv'
  BY <1>6, StopStays DEF Record
<1>7. ASSUME NEW d \in Device, Revoke(d) PROVE StopInv'
  BY <1>7, StopStays DEF Revoke
<1>8. CASE UNCHANGED vars
  BY <1>8, StopStays DEF vars
<1> QED BY <1>1, <1>2, <1>3, <1>4, <1>5, <1>6, <1>7, <1>8 DEF Next

\* Lost answers, late duplicates, repeated batches, aborted transactions and
\* restarts never end a sync thread: only a revoked device stops for good,
\* unless a torn answer or a failed authentication query is mistaken for a
\* refusal (the two kinds of fault that Flaky can add).
THEOREM StopsForCause ==
    Flaky \cap {"auth", "body"} = {} => (Spec => []StoppedForCause)
<1> SUFFICES ASSUME Flaky \cap {"auth", "body"} = {}
             PROVE  Spec => []StoppedForCause
  OBVIOUS
<1>1. Init => StopInv
  BY DEF Init, StopInv, StoppedForCause, BatchFits, RefusedForCause, CarriesBatch,
         Idle, Asleep, Stopped
<1>2. IInv /\ StopInv /\ [Next]_vars => StopInv'
  BY StopStep
<1>3. StopInv => StoppedForCause
  BY DEF StopInv
<1> QED BY <1>1, <1>2, <1>3, Invariance, PTL DEF Spec

-----------------------------------------------------------------------------
(***************************************************************************)
(* Committed numbers follow the order of the chains.                       *)
(***************************************************************************)

\* Drawing the next number keeps what was drawn in order.
LEMMA DrawNext ==
    ASSUME NEW s \in Seq(Nat), NEW n \in Nat, NEW t, n >= 1, t = Append(s, n),
           Increasing(s), \A i \in 1 .. Len(s) : s[i] \in 1 .. n - 1
    PROVE  /\ Increasing(t)
           /\ \A i \in 1 .. Len(t) : t[i] \in 1 .. n
<1>1. /\ Len(t) = Len(s) + 1
      /\ \A i \in 1 .. Len(s) : t[i] = s[i]
      /\ t[Len(s) + 1] = n
  BY AppendProperties
<1>2. Len(s) \in Nat /\ \A i \in 1 .. Len(s) : s[i] \in Nat
  OBVIOUS
<1>3. Increasing(t)
  BY <1>1, <1>2 DEF Increasing
<1>4. \A i \in 1 .. Len(t) : t[i] \in 1 .. n
  BY <1>1, <1>2
<1> QED BY <1>3, <1>4

\* Two runs of numbers up to n, the second above the first, are one such run.
LEMMA JoinRuns ==
    ASSUME NEW s \in Seq(Nat), NEW t \in Seq(Nat), NEW n \in Nat,
           Increasing(s), Increasing(t),
           \A i \in 1 .. Len(s) : s[i] \in 1 .. n,
           \A i \in 1 .. Len(t) : t[i] \in 1 .. n,
           \A i \in 1 .. Len(s), j \in 1 .. Len(t) : s[i] < t[j],
           NEW u, u = s \o t
    PROVE  /\ Increasing(u)
           /\ \A i \in 1 .. Len(u) : u[i] \in 1 .. n
           /\ Len(u) = Len(s) + Len(t)
           /\ \A i \in 1 .. Len(s) : u[i] = s[i]
           /\ \A j \in 1 .. Len(u) : j > Len(s) =>
                 /\ u[j] >= 1
                 /\ \A i \in 1 .. Len(s) : s[i] < u[j]
<1>1. /\ Len(u) = Len(s) + Len(t)
      /\ \A i \in 1 .. Len(u) : u[i] = IF i <= Len(s) THEN s[i] ELSE t[i - Len(s)]
  BY ConcatProperties
<1>2. Len(s) \in Nat /\ Len(t) \in Nat
  OBVIOUS
<1>3. ASSUME NEW i \in 1 .. Len(u), NEW j \in 1 .. Len(u), i < j
      PROVE  u[i] < u[j]
  <2>1. CASE j <= Len(s)
    <3>1. i \in 1 .. Len(s) /\ j \in 1 .. Len(s)
      BY <1>1, <1>2, <1>3, <2>1
    <3>2. s[i] < s[j]
      BY <1>3, <3>1 DEF Increasing
    <3> QED BY <1>1, <1>2, <3>1, <3>2
  <2>2. CASE i <= Len(s) /\ Len(s) < j
    <3>1. i \in 1 .. Len(s) /\ j - Len(s) \in 1 .. Len(t)
      BY <1>1, <1>2, <1>3, <2>2
    <3>2. s[i] < t[j - Len(s)]
      BY <3>1
    <3> QED BY <1>1, <1>2, <2>2, <3>1, <3>2
  <2>3. CASE Len(s) < i
    <3>1. /\ i - Len(s) \in 1 .. Len(t)
          /\ j - Len(s) \in 1 .. Len(t)
          /\ i - Len(s) < j - Len(s)
      BY <1>1, <1>2, <1>3, <2>3
    <3>2. t[i - Len(s)] < t[j - Len(s)]
      BY <3>1 DEF Increasing
    <3> QED BY <1>1, <1>2, <1>3, <2>3, <3>2
  <2> QED BY <1>2, <1>3, <2>1, <2>2, <2>3, SMTT(60)
<1>4. \A i \in 1 .. Len(s) : u[i] = s[i]
  BY <1>1, <1>2
<1>5. ASSUME NEW j \in 1 .. Len(u), j > Len(s)
      PROVE  j - Len(s) \in 1 .. Len(t) /\ u[j] = t[j - Len(s)]
  BY <1>1, <1>2, <1>5
<1>6. \A i \in 1 .. Len(u) : u[i] \in 1 .. n
  <2> TAKE i \in 1 .. Len(u)
  <2>1. CASE i <= Len(s)
    <3>1. i \in 1 .. Len(s)
      BY <1>2, <2>1
    <3> QED BY <1>4, <3>1
  <2>2. CASE i > Len(s)
    BY <1>5, <2>2
  <2> QED BY <1>2, <2>1, <2>2
<1>7. \A j \in 1 .. Len(u) : j > Len(s) =>
          u[j] >= 1 /\ \A i \in 1 .. Len(s) : s[i] < u[j]
  BY <1>5
<1> QED BY <1>1, <1>3, <1>4, <1>6, <1>7 DEF Increasing

\* The order stands while nothing is written or committed.
LEMMA OrderStays ==
    ASSUME InOrder, UNCHANGED <<held, pos, nextSeq>>,
           \A k \in Conn : conn'[k] = conn[k] \/ conn'[k].phase # "writing"
    PROVE  InOrder'
BY DEF InOrder, Increasing, Drawn, Later

\* A transaction opens with no number drawn, on the tip it read.
LEMMA OrderOpens ==
    ASSUME TypeOK, InOrder, NEW c \in Conn, NEW d \in Device, NEW chain,
           conn' = [conn EXCEPT ![c] = Writing(d, Len(held[d]), chain, <<>>)],
           UNCHANGED <<held, pos, nextSeq>>
    PROVE  InOrder'
<1>1. /\ conn'[c].phase = "writing"
      /\ conn'[c].dev = d
      /\ conn'[c].tip = Len(held[d])
      /\ conn'[c].pos = <<>>
  BY DEF TypeOK, Writing
<1>2. \A k \in Conn \ {c} : conn'[k] = conn[k]
  BY DEF TypeOK
<1>3. Len(conn'[c].pos) = 0 /\ Len(held[d]) \in Nat
  BY <1>1 DEF TypeOK
<1>4. Later(conn[c])'
  BY <1>1, <1>3 DEF Later, Increasing, Drawn
<1> QED BY <1>2, <1>4, SMTT(60) DEF InOrder, Increasing, Drawn, Later

\* An inserted row draws a number above every committed one.
LEMMA OrderInserts ==
    ASSUME TypeOK, InOrder, NEW c \in Conn, InsertRow(c)
    PROVE  InOrder'
<1> DEFINE s == conn[c].pos
           e == conn[c].dev
<1>1. /\ conn[c].phase = "writing"
      /\ e \in Device
      /\ conn[c].tip \in Nat
      /\ s \in Seq(Nat)
      /\ conn[c] \in [phase : {"writing"}, dev : Device, tip : Nat,
                      chain : Seq(Payload), pos : Seq(Nat)]
  BY ExchangeFields, WritingFields DEF InsertRow, TypeOK
<1>2. conn'[c] = [conn[c] EXCEPT !.pos = Append(@, nextSeq)]
  BY ZenonT(60) DEF InsertRow, TypeOK
<1>3. /\ conn'[c].phase = "writing"
      /\ conn'[c].dev = e
      /\ conn'[c].tip = conn[c].tip
      /\ conn'[c].pos = Append(s, nextSeq)
  BY <1>1, <1>2
<1>4. /\ \A k \in Conn \ {c} : conn'[k] = conn[k]
      /\ nextSeq \in Nat /\ nextSeq >= 1
      /\ nextSeq' = nextSeq + 1
      /\ held' = held /\ pos' = pos
  BY DEF InsertRow, TypeOK, InOrder
<1>5. Later(conn[c])
  BY DEF InOrder
<1>6. /\ Increasing(conn'[c].pos)
      /\ \A i \in 1 .. Len(conn'[c].pos) : conn'[c].pos[i] \in 1 .. nextSeq
  <2>1. Increasing(s) /\ \A i \in 1 .. Len(s) : s[i] \in 1 .. nextSeq - 1
    BY <1>1, <1>5 DEF Later, Drawn
  <2> QED BY <1>1, <1>3, <1>4, <2>1, DrawNext
<1>7. ASSUME conn[c].tip = Len(held[e]), NEW i \in 1 .. Len(pos[e]),
             NEW j \in 1 .. Len(conn'[c].pos)
      PROVE  pos[e][i] < conn'[c].pos[j]
  <2>1. /\ Len(conn'[c].pos) = Len(s) + 1
        /\ \A n \in 1 .. Len(s) : conn'[c].pos[n] = s[n]
        /\ conn'[c].pos[Len(s) + 1] = nextSeq
    BY <1>1, <1>3, <1>4, AppendProperties
  <2>2. Len(s) \in Nat
    BY <1>1
  <2>3. CASE j = Len(s) + 1
    <3>1. pos[e][i] \in 1 .. nextSeq - 1
      BY <1>1 DEF InOrder, Drawn
    <3> QED BY <1>4, <2>1, <2>3, <3>1, SMTT(60)
  <2>4. CASE j \in 1 .. Len(s)
    <3>1. pos[e][i] < s[j]
      BY <1>1, <1>5, <1>7, <2>4 DEF Later
    <3> QED BY <2>1, <2>4, <3>1
  <2> QED BY <2>1, <2>2, <2>3, <2>4, SMTT(60)
<1>8. Later(conn[c])'
  <2>1. Drawn(conn[c].pos)'
    BY <1>4, <1>6 DEF Drawn
  <2>2. conn'[c].tip <= Len(held'[e]) /\ (conn'[c].tip = Len(held'[e]) => conn[c].tip = Len(held[e]))
    BY <1>1, <1>3, <1>4, <1>5 DEF Later
  <2> QED BY <1>3, <1>4, <1>6, <1>7, <2>1, <2>2 DEF Later
<1>9. ASSUME NEW k \in Conn \ {c} PROVE Later(conn[k])'
  <2>1. Later(conn[k]) /\ conn'[k] = conn[k]
    BY <1>4 DEF InOrder
  <2>2. ASSUME NEW t, Drawn(t) PROVE Drawn(t)'
    BY <1>4, <2>2 DEF Drawn
  <2> QED BY <1>4, <2>1, <2>2 DEF Later
<1>10. \A d \in Device : Increasing(pos'[d]) /\ Drawn(pos[d])'
  BY <1>4, SMTT(60) DEF InOrder, Drawn
<1> QED BY <1>4, <1>8, <1>9, <1>10 DEF InOrder

\* What a device's committed chain may become: it keeps its numbers, and
\* those of new events come after them.
Grown(e) ==
    /\ Len(held[e]) <= Len(held'[e])
    /\ \A n \in 1 .. Len(held[e]) : pos'[e][n] = pos[e][n]
    /\ \A n \in 1 .. Len(held'[e]) : n > Len(held[e]) =>
          /\ pos'[e][n] >= 1
          /\ \A m \in 1 .. Len(held[e]) : pos[e][m] < pos'[e][n]

\* A commit puts its numbers after the committed ones.
LEMMA CommitOrders ==
    ASSUME IInv, InOrder, NEW c \in Conn, CommitPush(c)
    PROVE  LET e == conn[c].dev
           IN  /\ e \in Device
               /\ Len(held[e]) < Len(held'[e])
               /\ \A d \in Device \ {e} : held'[d] = held[d] /\ pos'[d] = pos[d]
               /\ Increasing(pos'[e])
               /\ \A i \in 1 .. Len(pos'[e]) : pos'[e][i] \in 1 .. nextSeq - 1
               /\ Grown(e)
<1>1. PICK e \in Device, s \in Seq(Nat), chain \in Seq(Payload) :
        /\ conn[c].phase = "writing"
        /\ e = conn[c].dev /\ s = conn[c].pos /\ chain = conn[c].chain
        /\ Len(held[e]) < Len(chain)
        /\ Len(held[e]) + Len(s) = Len(chain)
        /\ held' = [held EXCEPT ![e] = chain]
  <2>1. /\ conn[c].phase = "writing"
        /\ conn[c].dev \in Device
        /\ conn[c].chain \in Seq(Payload)
        /\ conn[c].pos \in Seq(Nat)
        /\ Len(held[conn[c].dev]) < Len(conn[c].chain)
        /\ Len(held[conn[c].dev]) + Len(conn[c].pos) = Len(conn[c].chain)
        /\ held' = [held EXCEPT ![conn[c].dev] = conn[c].chain]
    BY CommitGrows
  <2> QED BY <2>1, ZenonT(60)
<1>2. /\ pos[e] \in Seq(Nat)
      /\ held[e] \in Seq(Payload)
      /\ Len(pos[e]) = Len(held[e])
      /\ nextSeq \in Nat /\ nextSeq >= 1
  BY <1>1 DEF IInv, TypeOK, Numbered, InOrder
<1>3. conn[c].tip = Len(held[e])
  <2>1. conn[c].tip \in Nat /\ conn[c].tip + Len(s) = Len(chain)
    BY <1>1, ExchangeFields DEF CommitPush, IInv, TypeOK
  <2>2. Len(s) \in Nat /\ Len(chain) \in Nat /\ Len(held[e]) \in Nat
    BY <1>2
  <2>3. Len(held[e]) + Len(s) = Len(chain)
    BY <1>1
  <2> QED BY <2>1, <2>2, <2>3
<1>4. /\ Increasing(s) /\ Drawn(s)
      /\ Increasing(pos[e]) /\ Drawn(pos[e])
      /\ \A i \in 1 .. Len(pos[e]), j \in 1 .. Len(s) : pos[e][i] < s[j]
  BY <1>1, <1>3 DEF InOrder, Later
<1>5. pos' = [pos EXCEPT ![e] = @ \o s]
  BY <1>1 DEF CommitPush
<1>6. /\ pos'[e] = pos[e] \o s
      /\ held'[e] = chain
      /\ \A d \in Device \ {e} : held'[d] = held[d] /\ pos'[d] = pos[d]
  BY <1>1, <1>5 DEF IInv, TypeOK
<1>7. /\ Increasing(pos'[e])
      /\ \A i \in 1 .. Len(pos'[e]) : pos'[e][i] \in 1 .. nextSeq - 1
      /\ Len(pos'[e]) = Len(held'[e])
      /\ \A i \in 1 .. Len(held[e]) : pos'[e][i] = pos[e][i]
      /\ \A j \in 1 .. Len(pos'[e]) : j > Len(held[e]) =>
            /\ pos'[e][j] >= 1
            /\ \A i \in 1 .. Len(held[e]) : pos[e][i] < pos'[e][j]
  <2>1. nextSeq - 1 \in Nat
    BY <1>2
  <2>2. /\ \A i \in 1 .. Len(pos[e]) : pos[e][i] \in 1 .. nextSeq - 1
        /\ \A i \in 1 .. Len(s) : s[i] \in 1 .. nextSeq - 1
    BY <1>4 DEF Drawn
  <2> DEFINE u == pos[e] \o s
  <2>3. /\ Increasing(u)
        /\ \A i \in 1 .. Len(u) : u[i] \in 1 .. nextSeq - 1
        /\ Len(u) = Len(pos[e]) + Len(s)
        /\ \A i \in 1 .. Len(pos[e]) : u[i] = pos[e][i]
        /\ \A j \in 1 .. Len(u) : j > Len(pos[e]) =>
              /\ u[j] >= 1
              /\ \A i \in 1 .. Len(pos[e]) : pos[e][i] < u[j]
    BY <1>2, <1>4, <2>1, <2>2, JoinRuns
  <2> HIDE DEF u
  <2>4. pos'[e] = u
    BY <1>6 DEF u
  <2> QED BY <1>1, <1>2, <1>6, <2>3, <2>4
<1>8. Grown(e)
  <2>1. Len(held[e]) \in Nat /\ Len(held'[e]) \in Nat /\ Len(held[e]) < Len(held'[e])
    BY <1>1, <1>2, <1>6
  <2> QED BY <1>7, <2>1 DEF Grown
<1> QED BY <1>1, <1>6, <1>7, <1>8

\* A commit keeps the order; a rival transaction on the old tip is behind.
LEMMA OrderCommits ==
    ASSUME IInv, InOrder, NEW c \in Conn, CommitPush(c)
    PROVE  InOrder'
<1>1. PICK e \in Device :
        /\ e = conn[c].dev
        /\ Len(held[e]) < Len(held'[e])
        /\ \A d \in Device \ {e} : held'[d] = held[d] /\ pos'[d] = pos[d]
        /\ Increasing(pos'[e])
        /\ \A i \in 1 .. Len(pos'[e]) : pos'[e][i] \in 1 .. nextSeq - 1
  BY CommitOrders
<1>2. nextSeq' = nextSeq
  BY DEF CommitPush
<1>3. \A d \in Device : Increasing(pos'[d]) /\ Drawn(pos[d])'
  BY <1>1, <1>2 DEF InOrder, Drawn
<1>4. conn'[c].phase # "writing" /\ \A k \in Conn \ {c} : conn'[k] = conn[k]
  BY DEF CommitPush, Answer, IInv, TypeOK, Pushed, Idle
<1>5. \A d \in Device : Len(held[d]) \in Nat /\ Len(held'[d]) \in Nat
  <2>1. TypeOK /\ TypeOK'
    BY CommitPushKeeps DEF IInv
  <2>2. held \in [Device -> Seq(Payload)] /\ held' \in [Device -> Seq(Payload)]
    BY <2>1 DEF TypeOK
  <2> QED BY <2>2
<1>6. ASSUME NEW k \in Conn \ {c}, conn[k].phase = "writing"
      PROVE  Later(conn[k])'
  <2>1. /\ Later(conn[k]) /\ conn'[k] = conn[k]
        /\ conn[k].dev \in Device /\ conn[k].tip \in Nat
    BY <1>4, <1>6, ExchangeFields DEF InOrder, IInv, TypeOK
  <2>2. CASE conn[k].dev = e
    <3>1. conn[k].tip < Len(held'[e])
      BY <1>1, <1>5, <1>6, <2>1, <2>2 DEF Later
    <3> QED BY <1>2, <1>5, <1>6, <2>1, <2>2, <3>1 DEF Later, Drawn
  <2>3. CASE conn[k].dev # e
    BY <1>1, <1>2, <1>6, <2>1, <2>3, SMTT(60) DEF Later, Drawn
  <2> QED BY <2>2, <2>3
<1>7. \A k \in Conn : Later(conn[k])'
  BY <1>4, <1>6 DEF Later
<1> QED BY <1>2, <1>3, <1>7 DEF InOrder

-----------------------------------------------------------------------------
(***************************************************************************)
(* Pages and cursors of an outlet with two tills.                          *)
(***************************************************************************)

\* Each till has at most one sibling: numbers commit in the order they were
\* drawn.  With three tills they do not, and NothingSkipped fails.
TwoTills == \A d, e, f \in Device : d = e \/ e = f \/ d = f

\* A committed number stays where it is.
LEMMA MarkLasts ==
    ASSUME TypeOK, TypeOK', \A e \in Device : Grown(e), NEW d \in Device, NEW v, Mark(d, v)
    PROVE  Mark(d, v)'
<1>1. CASE v = 0
  BY <1>1 DEF Mark
<1>2. CASE \E e \in Device \ {d} : \E n \in 1 .. Len(held[e]) : v = pos[e][n]
  <2>1. PICK e \in Device \ {d} : \E n \in 1 .. Len(held[e]) : v = pos[e][n]
    BY <1>2
  <2>2. PICK n \in 1 .. Len(held[e]) : v = pos[e][n]
    BY <2>1
  <2>3. Len(held[e]) \in Nat /\ Len(held'[e]) \in Nat
    <3>1. held \in [Device -> Seq(Payload)] /\ held' \in [Device -> Seq(Payload)]
      BY DEF TypeOK
    <3> QED BY <3>1
  <2>4. n \in 1 .. Len(held'[e]) /\ pos'[e][n] = pos[e][n]
    BY <2>2, <2>3 DEF Grown
  <2> QED BY <2>2, <2>4 DEF Mark
<1> QED BY <1>1, <1>2 DEF Mark

\* What a cursor covers it covers for good: with one sibling, whatever
\* commits later has a number above it.
LEMMA CoversLasts ==
    ASSUME TwoTills, TypeOK, TypeOK', Numbered', \A e \in Device : Grown(e),
           NEW d \in Device, NEW page, NEW v \in Nat,
           Mark(d, v), Covers(d, page, v), remote[d] \subseteq remote'[d]
    PROVE  Covers(d, page, v)'
<1> SUFFICES ASSUME NEW e \in Device \ {d}, NEW n \in 1 .. Len(held'[e]), pos'[e][n] <= v
             PROVE  \/ [dev |-> e, seq |-> n, pos |-> pos'[e][n]] \in page
                    \/ <<e, n>> \in remote'[d]
  BY DEF Covers
<1>1. /\ Len(held[e]) \in Nat /\ Len(held'[e]) \in Nat
      /\ pos'[e][n] \in Nat
      /\ Grown(e)
  <2>1. /\ held \in [Device -> Seq(Payload)]
        /\ held' \in [Device -> Seq(Payload)]
        /\ pos' \in [Device -> Seq(Nat)]
    BY DEF TypeOK
  <2>2. Len(pos'[e]) = Len(held'[e])
    BY DEF Numbered
  <2> QED BY <2>1, <2>2
<1>2. CASE n <= Len(held[e])
  <2>1. n \in 1 .. Len(held[e]) /\ pos'[e][n] = pos[e][n]
    BY <1>1, <1>2 DEF Grown
  <2> QED BY <2>1 DEF Covers
<1>3. CASE n > Len(held[e])
  <2>1. pos'[e][n] >= 1 /\ \A m \in 1 .. Len(held[e]) : pos[e][m] < pos'[e][n]
    BY <1>1, <1>3 DEF Grown
  <2>2. v # 0
    BY <1>1, <2>1
  <2>3. PICK f \in Device \ {d} : \E m \in 1 .. Len(held[f]) : v = pos[f][m]
    BY <2>2 DEF Mark
  <2>4. f = e
    BY <2>3 DEF TwoTills
  <2>5. PICK m \in 1 .. Len(held[e]) : v = pos[e][m]
    BY <2>3, <2>4
  <2>6. v < pos'[e][n]
    BY <2>1, <2>5
  <2> QED BY <1>1, <2>6
<1> QED BY <1>1, <1>2, <1>3

\* The invariant survives a step that leaves cursors, threads and exchanges
\* sound wherever it changes them.
LEMMA PullKeeps ==
    ASSUME TwoTills, IInv, IInv', PullInv, InOrder',
           \A d \in Device : /\ Grown(d)
                             /\ remote[d] \subseteq remote'[d]
                             /\ cursor[d] <= cursor'[d]
                             /\ \/ cursor'[d] = cursor[d]
                                \/ Mark(d, cursor[d])' /\ Covers(d, {}, cursor[d])'
                             /\ thread'[d] = thread[d] \/ ApplySound(d)',
           \A c \in Conn : conn'[c] = conn[c] \/ PullSound(conn[c])'
    PROVE  PullInv'
<1> USE DEF IInv
<1>1. ASSUME NEW d \in Device
      PROVE  Mark(d, cursor[d])' /\ Covers(d, {}, cursor[d])'
  <2>1. CASE cursor'[d] = cursor[d]
    <3>1. PICK v \in Nat : v = cursor[d]
      BY DEF TypeOK
    <3>2. Mark(d, v) /\ Covers(d, {}, v)
      BY <3>1 DEF PullInv
    <3>3. Mark(d, v)' /\ Covers(d, {}, v)'
      BY <3>2, MarkLasts, CoversLasts
    <3> QED BY <2>1, <3>1, <3>3 DEF Mark, Covers
  <2> QED BY <2>1
<1>2. ASSUME NEW d \in Device PROVE ApplySound(d)'
  <2>1. CASE thread'[d] = thread[d] /\ thread[d].at = "apply"
    <3>1. PICK v \in Nat, page \in SUBSET Row : v = thread[d].cursor /\ page = thread[d].page
      BY <2>1, ThreadFields DEF TypeOK
    <3>2. Mark(d, v) /\ Covers(d, page, v)
      BY <2>1, <3>1 DEF PullInv, ApplySound
    <3>3. Mark(d, v)' /\ Covers(d, page, v)'
      BY <3>2, MarkLasts, CoversLasts
    <3>4. v = thread'[d].cursor /\ page = thread'[d].page
      BY <2>1, <3>1
    <3> QED BY <3>3, <3>4 DEF ApplySound, Mark, Covers
  <2>2. CASE thread'[d] = thread[d] /\ thread[d].at # "apply"
    BY <2>2 DEF ApplySound
  <2> QED BY <2>1, <2>2
<1>3. ASSUME NEW c \in Conn PROVE PullSound(conn[c])'
  <2>1. CASE conn'[c] = conn[c] /\ conn[c].phase \in {"pull", "reading", "pulled"}
    <3>1. PICK d \in Device, v \in Nat : d = conn[c].dev /\ v = conn[c].cursor
      BY <2>1, ExchangeFields DEF TypeOK
    <3>2. d = conn'[c].dev /\ v = conn'[c].cursor
      BY <2>1, <3>1
    <3>3. Mark(d, v) /\ PullSound(conn[c])
      BY <2>1, <3>1 DEF PullInv, PullSound
    <3>4. Mark(d, v)'
      BY <3>3, MarkLasts
    <3>5. CASE conn[c].phase \in {"pull", "reading"}
      <4>1. v <= cursor[d] /\ cursor[d] \in Nat /\ cursor'[d] \in Nat /\ cursor[d] <= cursor'[d]
        BY <3>1, <3>3, <3>5 DEF TypeOK, PullSound
      <4> QED BY <2>1, <3>2, <3>4, <3>5, <4>1 DEF PullSound, Mark
    <3>6. CASE conn[c].phase = "pulled"
      <4>1. PICK page \in SUBSET Row : page = conn[c].page
        BY <3>6, ExchangeFields DEF TypeOK
      <4>2. Covers(d, page, v)
        BY <3>1, <3>3, <3>6, <4>1 DEF PullSound
      <4>3. Covers(d, page, v)'
        BY <3>3, <4>2, CoversLasts
      <4>4. page = conn'[c].page /\ conn'[c].phase = "pulled"
        BY <2>1, <3>6, <4>1
      <4> QED BY <3>2, <3>4, <4>3, <4>4 DEF PullSound, Mark, Covers
    <3> QED BY <2>1, <3>5, <3>6
  <2>2. CASE conn'[c] = conn[c] /\ conn[c].phase \notin {"pull", "reading", "pulled"}
    BY <2>2 DEF PullSound
  <2> QED BY <2>1, <2>2
<1> QED BY <1>1, <1>2, <1>3 DEF PullInv

\* With one sibling the rows a pull can see are finitely many.
LEMMA VisibleFinite ==
    ASSUME TwoTills, TypeOK, NEW d \in Device, NEW from
    PROVE  IsFiniteSet(Visible(d, from))
<1> DEFINE RowOf(e) == [n \in 1 .. Len(held[e]) |-> [dev |-> e, seq |-> n, pos |-> pos[e][n]]]
           RowsOf(e) == {RowOf(e)[n] : n \in 1 .. Len(held[e])}
<1>1. ASSUME NEW e \in Device PROVE IsFiniteSet(RowsOf(e))
  <2> DEFINE dom == 1 .. Len(held[e])
             f == RowOf(e)
  <2>1. IsFiniteSet(dom)
    <3>1. Len(held[e]) \in Nat
      BY DEF TypeOK
    <3>2. \A n \in Nat : IsFiniteSet(1 .. n)
      BY FS_Interval
    <3> QED BY <3>1, <3>2
  <2>2. f \in Surjection(dom, RowsOf(e))
    BY DEF Surjection
  <2> HIDE DEF dom, f
  <2> QED BY <2>1, <2>2, FS_Surjection
<1>2. CASE \A e \in Device : e = d
  <2>1. Visible(d, from) = {}
    BY <1>2 DEF Visible
  <2> QED BY <2>1, FS_EmptySet
<1>3. CASE \E e \in Device : e # d
  <2>1. PICK e \in Device : e # d
    BY <1>3
  <2>2. \A f \in Device \ {d} : f = e
    BY <2>1 DEF TwoTills
  <2>3. ASSUME NEW row \in Visible(d, from) PROVE row \in RowsOf(e)
    <3>1. PICK f \in Device \ {d} : \E n \in 1 .. Len(held[f]) :
              row = [dev |-> f, seq |-> n, pos |-> pos[f][n]]
      BY DEF Visible
    <3> QED BY <2>2, <3>1
  <2>4. Visible(d, from) \in SUBSET RowsOf(e)
    BY <2>3
  <2> HIDE DEF RowsOf
  <2> QED BY <1>1, <2>4, FS_Subset
<1> QED BY <1>2, <1>3

\* A page is closed downwards: it holds every visible row up to one it holds.
LEMMA PageClosed ==
    ASSUME TwoTills, TypeOK, Numbered, NEW d \in Device, NEW from \in Nat,
           NEW last \in Page(d, from), NEW row \in Visible(d, from),
           row.pos <= last.pos
    PROVE  row \in Page(d, from)
<1> DEFINE V == Visible(d, from)
           UpTo(r) == {other \in V : other.pos <= r.pos}
<1>1. /\ last \in V
      /\ Cardinality(UpTo(last)) <= PullPage
  BY DEF Page
<1>2. \A r \in V : r.pos \in Nat
  <2> SUFFICES ASSUME NEW r \in V PROVE r.pos \in Nat
    OBVIOUS
  <2>1. PICK e \in Device \ {d} : \E n \in 1 .. Len(held[e]) :
            r = [dev |-> e, seq |-> n, pos |-> pos[e][n]]
    BY DEF Visible
  <2>2. PICK n \in 1 .. Len(held[e]) : r = [dev |-> e, seq |-> n, pos |-> pos[e][n]]
    BY <2>1
  <2> QED BY <2>2, SMTT(60) DEF TypeOK, Numbered
<1>3. UpTo(row) \in SUBSET UpTo(last)
  BY <1>1, <1>2
<1>4. IsFiniteSet(UpTo(last))
  <2>1. IsFiniteSet(V) /\ UpTo(last) \in SUBSET V
    BY VisibleFinite
  <2> HIDE DEF V, UpTo
  <2> QED BY <2>1, FS_Subset
<1>5. Cardinality(UpTo(row)) <= Cardinality(UpTo(last))
  <2> HIDE DEF V, UpTo
  <2> QED BY <1>3, <1>4, FS_Subset
<1>6. /\ Cardinality(UpTo(row)) \in Nat
      /\ Cardinality(UpTo(last)) \in Nat
      /\ PullPage \in Nat
  <2>1. IsFiniteSet(UpTo(row))
    <3> HIDE DEF V, UpTo
    <3> QED BY <1>3, <1>4, FS_Subset
  <2> HIDE DEF V, UpTo
  <2> QED BY <1>4, <2>1, FS_CardinalityType, BatchAssumption DEF BatchAssumption
<1>7. Cardinality(UpTo(row)) <= PullPage
  <2> HIDE DEF V, UpTo
  <2> QED BY <1>1, <1>5, <1>6
<1> QED BY <1>7 DEF Page

\* The page answered covers every sibling event up to where it ends, counting
\* what the till had already stored up to where it began.
LEMMA PageCovers ==
    ASSUME TwoTills, TypeOK, Numbered, NEW d \in Device, NEW from \in Nat,
           NEW upto \in PageEnd(Page(d, from), from),
           Mark(d, from), Covers(d, {}, cursor[d]), from <= cursor[d]
    PROVE  Mark(d, upto) /\ Covers(d, Page(d, from), upto)
<1>1. upto = from \/ \E row \in Page(d, from) : upto = row.pos
  BY DEF PageEnd
<1>2. ASSUME NEW row \in Page(d, from)
      PROVE  \E e \in Device \ {d} : \E n \in 1 .. Len(held[e]) :
                 row = [dev |-> e, seq |-> n, pos |-> pos[e][n]]
  BY DEF Page, Visible
<1>3. Mark(d, upto)
  <2>1. ASSUME NEW row \in Page(d, from), upto = row.pos PROVE Mark(d, upto)
    <3>1. PICK e \in Device \ {d} : \E n \in 1 .. Len(held[e]) :
              row = [dev |-> e, seq |-> n, pos |-> pos[e][n]]
      BY <1>2
    <3>2. \E n \in 1 .. Len(held[e]) : upto = pos[e][n]
      BY <2>1, <3>1
    <3> QED BY <3>2 DEF Mark
  <2> QED BY <1>1, <2>1
<1>4. ASSUME NEW e \in Device \ {d}, NEW n \in 1 .. Len(held[e]), pos[e][n] <= upto
      PROVE  \/ [dev |-> e, seq |-> n, pos |-> pos[e][n]] \in Page(d, from)
             \/ <<e, n>> \in remote[d]
  <2> DEFINE row == [dev |-> e, seq |-> n, pos |-> pos[e][n]]
  <2>1. pos[e][n] \in Nat /\ cursor[d] \in Nat
    BY SMTT(60) DEF TypeOK, Numbered
  <2>2. CASE pos[e][n] <= from
    <3>1. pos[e][n] <= cursor[d]
      BY <2>1, <2>2
    <3> QED BY <3>1 DEF Covers
  <2>3. CASE pos[e][n] > from
    <3>1. row \in Visible(d, from)
      BY <2>3 DEF Visible
    <3>2. PICK last \in Page(d, from) : upto = last.pos
      BY <1>1, <1>4, <2>1, <2>3
    <3>3. row.pos <= last.pos
      BY <1>4, <3>2
    <3> HIDE DEF row
    <3>4. row \in Page(d, from)
      BY <3>1, <3>3, PageClosed
    <3> QED BY <3>4 DEF row
  <2> QED BY <2>1, <2>2, <2>3
<1> QED BY <1>3, <1>4 DEF Covers

-----------------------------------------------------------------------------
(***************************************************************************)
(* Each step keeps what the cursors promise.                               *)
(***************************************************************************)

\* A chain that nothing is committed to has grown by nothing.
LEMMA GrownStays ==
    ASSUME TypeOK, UNCHANGED <<held, pos>>
    PROVE  \A d \in Device : Grown(d)
<1>1. \A d \in Device : Len(held[d]) \in Nat
  BY DEF TypeOK
<1> QED BY <1>1 DEF Grown

\* A step that starts no page and moves no cursor keeps the invariant.
LEMMA PullSteady ==
    ASSUME TwoTills, IInv, IInv', PullInv, InOrder', \A d \in Device : Grown(d),
           UNCHANGED <<remote, cursor>>,
           \A d \in Device : thread'[d] = thread[d] \/ thread'[d].at # "apply",
           \A c \in Conn : \/ conn'[c] = conn[c]
                           \/ conn'[c].phase \notin {"pull", "reading", "pulled"}
    PROVE  PullInv'
<1>1. \A d \in Device : cursor[d] <= cursor'[d]
  <2>1. \A d \in Device : cursor[d] \in Nat
    BY DEF IInv, TypeOK
  <2> QED BY <2>1
<1>2. \A d \in Device : thread'[d] = thread[d] \/ ApplySound(d)'
  BY DEF ApplySound
<1>3. \A c \in Conn : conn'[c] = conn[c] \/ PullSound(conn[c])'
  BY DEF PullSound
<1> QED BY <1>1, <1>2, <1>3, PullKeeps

\* A till that pushes, is refused, gives up or restarts moves no cursor.
LEMMA PullAside ==
    ASSUME TwoTills, IInv, IInv', PullInv, NEW d \in Device,
           \/ \E p \in Payload : Record(d, p)
           \/ SendPush(d) \/ NothingToPush(d) \/ AckPush(d) \/ Refuse(d)
           \/ GiveUp(d) \/ TornBody(d) \/ Restart(d) \/ Revoke(d)
    PROVE  PullInv'
<1>1. UNCHANGED <<held, pos, nextSeq, remote, cursor>>
  BY DEF Record, SendPush, NothingToPush, AckPush, Refuse, GiveUp, TornBody, Restart, Revoke
<1>2. \A e \in Device : thread'[e] = thread[e] \/ thread'[e].at # "apply"
  <2>1. CASE SendPush(d)
    <3>1. PICK c \in Conn : thread' = [thread EXCEPT ![d] =
              AwaitPush(c, Min2(synced[d] + MaxBatch, Len(log[d])))]
      BY <2>1 DEF SendPush
    <3>2. \A n : AwaitPush(c, n).at = "push"
      BY DEF AwaitPush
    <3> QED BY <3>1, <3>2 DEF IInv, TypeOK
  <2>2. CASE NothingToPush(d) \/ AckPush(d) \/ Refuse(d) \/ GiveUp(d) \/ TornBody(d)
             \/ Restart(d)
    <3>1. PICK y \in {Stopped, Drained, Asleep(TRUE), Asleep(FALSE)} :
              thread' = [thread EXCEPT ![d] = y]
      <4>1. CASE NothingToPush(d) \/ AckPush(d)
        BY <4>1 DEF NothingToPush, AckPush
      <4>2. CASE Refuse(d)
        BY <4>2 DEF Refuse
      <4>3. CASE GiveUp(d) \/ TornBody(d) \/ Restart(d)
        BY <4>3 DEF GiveUp, TornBody, Restart
      <4> QED BY <2>2, <4>1, <4>2, <4>3
    <3>2. y.at # "apply"
      BY DEF Stopped, Drained, Asleep
    <3> QED BY <3>1, <3>2 DEF IInv, TypeOK
  <2>3. CASE Revoke(d) \/ \E p \in Payload : Record(d, p)
    BY <2>3 DEF Revoke, Record
  <2> QED BY <2>1, <2>2, <2>3
<1>3. \A c \in Conn : conn'[c] = conn[c] \/ conn'[c].phase \in {"idle", "push"}
  <2>1. CASE SendPush(d)
    BY <2>1 DEF SendPush, Push, IInv, TypeOK
  <2>2. CASE ~SendPush(d)
    <3>1. conn' = conn \/ conn' = [conn EXCEPT ![thread[d].conn] = Idle]
      BY <2>2 DEF Record, NothingToPush, AckPush, Refuse, GiveUp, TornBody, Restart, Revoke,
                  Abandon
    <3> QED BY <3>1 DEF IInv, TypeOK, Idle
  <2> QED BY <2>1, <2>2
<1>4. InOrder'
  BY <1>1, <1>3, OrderStays DEF PullInv
<1> QED BY <1>1, <1>2, <1>3, <1>4, GrownStays, PullSteady DEF IInv

\* The server refuses, plans, writes or commits without answering a pull.
LEMMA PullWhilePushing ==
    ASSUME TwoTills, IInv, IInv', PullInv, NEW c \in Conn,
           \/ Unauthorised(c) \/ AuthFault(c) \/ Abort(c) \/ UniqueViolation(c)
           \/ PlanPush(c) \/ AnswerRepeat(c) \/ InsertRow(c) \/ CommitPush(c)
    PROVE  PullInv'
<1>1. UNCHANGED <<remote, cursor, thread>>
  BY DEF Unauthorised, AuthFault, Abort, UniqueViolation, PlanPush, AnswerRepeat,
         InsertRow, CommitPush
<1>2. InOrder /\ TypeOK
  BY DEF PullInv, IInv
<1>3. CASE Unauthorised(c) \/ AuthFault(c) \/ Abort(c) \/ UniqueViolation(c)
           \/ AnswerRepeat(c)
  <2>1. PICK x : Answer(c, x) /\ x.phase \in {"refused", "pushed"}
    BY <1>3 DEF Unauthorised, AuthFault, Abort, UniqueViolation, AnswerRepeat,
                Refused, Pushed
  <2>2. \A k \in Conn : \/ conn'[k] = conn[k]
                        \/ conn'[k].phase \in {"idle", "refused", "pushed"}
    BY <1>2, <2>1 DEF Answer, Idle, TypeOK
  <2>3. UNCHANGED <<held, pos, nextSeq>>
    BY <1>3 DEF Unauthorised, AuthFault, Abort, UniqueViolation, AnswerRepeat
  <2>4. InOrder'
    BY <1>2, <2>2, <2>3, OrderStays
  <2> QED BY <1>1, <1>2, <2>2, <2>3, <2>4, GrownStays, PullSteady
<1>4. CASE PlanPush(c)
  <2> DEFINE d == conn[c].dev
             plan == PlanBatch(conn[c].first, conn[c].chain, held[d])
  <2>1. UNCHANGED <<held, pos, nextSeq>>
    BY <1>4 DEF PlanPush
  <2>2. d \in Device
    BY <1>2, <1>4, ExchangeFields DEF PlanPush, TypeOK
  <2>3. \/ Answer(c, Refused(d, plan))
        \/ conn' = [conn EXCEPT ![c] = Repeating(d, Len(held[d]))]
        \/ conn' = [conn EXCEPT ![c] = Writing(d, Len(held[d]), conn[c].chain, <<>>)]
    BY <1>4 DEF PlanPush
  <2> HIDE DEF plan
  <2>4. \A k \in Conn : \/ conn'[k] = conn[k]
                        \/ conn'[k].phase \in {"idle", "refused", "repeating", "writing"}
    BY <1>2, <2>3 DEF Answer, Refused, Repeating, Writing, Idle, TypeOK
  <2>5. InOrder'
    <3>1. CASE conn' = [conn EXCEPT ![c] = Writing(d, Len(held[d]), conn[c].chain, <<>>)]
      BY <1>2, <2>1, <2>2, <3>1, OrderOpens
    <3>2. CASE \/ Answer(c, Refused(d, plan))
               \/ conn' = [conn EXCEPT ![c] = Repeating(d, Len(held[d]))]
      <4>1. \A k \in Conn : conn'[k] = conn[k] \/ conn'[k].phase # "writing"
        BY <1>2, <3>2 DEF Answer, Refused, Repeating, Idle, TypeOK
      <4> QED BY <1>2, <2>1, <4>1, OrderStays
    <3> QED BY <2>3, <3>1, <3>2
  <2> QED BY <1>1, <1>2, <2>1, <2>4, <2>5, GrownStays, PullSteady
<1>5. CASE InsertRow(c)
  <2>1. UNCHANGED <<held, pos>> /\ conn[c].phase = "writing"
    BY <1>5 DEF InsertRow
  <2>2. conn[c] \in [phase : {"writing"}, dev : Device, tip : Nat,
                      chain : Seq(Payload), pos : Seq(Nat)]
    BY <1>2, <2>1, WritingFields DEF TypeOK
  <2>3. conn'[c] = [conn[c] EXCEPT !.pos = Append(@, nextSeq)]
    BY <1>2, <1>5, ZenonT(60) DEF InsertRow, TypeOK
  <2>4. conn'[c].phase = "writing"
    BY <2>2, <2>3
  <2>5. \A k \in Conn \ {c} : conn'[k] = conn[k]
    BY <1>2, <1>5 DEF InsertRow, TypeOK
  <2>6. InOrder'
    BY <1>2, <1>5, OrderInserts
  <2> QED BY <1>1, <1>2, <2>1, <2>4, <2>5, <2>6, GrownStays, PullSteady
<1>6. CASE CommitPush(c)
  <2>1. PICK e \in Device :
          /\ \A d \in Device \ {e} : held'[d] = held[d] /\ pos'[d] = pos[d]
          /\ Grown(e)
    BY <1>2, <1>6, CommitOrders
  <2>2. \A d \in Device : Grown(d)
    <3>1. \A d \in Device : Len(held[d]) \in Nat
      BY <1>2 DEF TypeOK
    <3> QED BY <2>1, <3>1 DEF Grown
  <2>3. \A k \in Conn : conn'[k] = conn[k] \/ conn'[k].phase \in {"idle", "pushed"}
    BY <1>2, <1>6 DEF CommitPush, Answer, Pushed, Idle, TypeOK
  <2>4. InOrder'
    BY <1>2, <1>6, OrderCommits
  <2> QED BY <1>1, <2>2, <2>3, <2>4, PullSteady
<1> QED BY <1>3, <1>4, <1>5, <1>6

\* A cursor that is not touched has not gone backwards.
LEMMA CursorStays ==
    ASSUME TypeOK, UNCHANGED cursor
    PROVE  \A d \in Device : cursor[d] <= cursor'[d]
<1>1. \A d \in Device : cursor[d] \in Nat
  BY DEF TypeOK
<1> QED BY <1>1

\* A page is asked for from the cursor on disk.
LEMMA PullSends ==
    ASSUME TwoTills, IInv, IInv', PullInv, NEW d \in Device, SendPull(d)
    PROVE  PullInv'
<1>1. PICK c \in Conn :
          /\ conn' = [conn EXCEPT ![c] = Pull(d, cursor[d])]
          /\ thread' = [thread EXCEPT ![d] = AwaitPull(c)]
  BY DEF SendPull
<1>2. UNCHANGED <<held, pos, nextSeq, remote, cursor>>
  BY DEF SendPull
<1>3. \A k \in Conn : conn'[k] = conn[k] \/ conn'[k] = Pull(d, cursor[d])
  BY <1>1 DEF IInv, TypeOK
<1>4. cursor[d] \in Nat /\ Mark(d, cursor[d])
  BY DEF IInv, TypeOK, PullInv
<1>5. \A k \in Conn : conn'[k] = conn[k] \/ PullSound(conn[k])'
  BY <1>2, <1>3, <1>4 DEF PullSound, Pull, Mark
<1>6. \A e \in Device : thread'[e] = thread[e] \/ ApplySound(e)'
  BY <1>1 DEF IInv, TypeOK, AwaitPull, ApplySound
<1>7. InOrder'
  <2>1. \A k \in Conn : conn'[k] = conn[k] \/ conn'[k].phase # "writing"
    BY <1>3 DEF Pull
  <2> QED BY <1>2, <2>1, OrderStays DEF PullInv
<1>8. \A e \in Device : cursor[e] <= cursor'[e] /\ Grown(e)
  BY <1>2, CursorStays, GrownStays DEF IInv
<1> QED BY <1>2, <1>5, <1>6, <1>7, <1>8, PullKeeps

\* An authenticated pull starts from where it was asked to.
LEMMA PullOpens ==
    ASSUME TwoTills, IInv, IInv', PullInv, NEW c \in Conn, OpenPull(c)
    PROVE  PullInv'
<1>1. PICK d \in Device, from \in Nat :
          conn[c].phase = "pull" /\ d = conn[c].dev /\ from = conn[c].cursor
  BY ExchangeFields DEF OpenPull, IInv, TypeOK
<1>2. UNCHANGED <<held, pos, nextSeq, remote, cursor, thread>>
  BY DEF OpenPull
<1>3. \A k \in Conn : conn'[k] = conn[k] \/ conn'[k] = Reading(d, from)
  BY <1>1 DEF OpenPull, IInv, TypeOK
<1>4. Mark(d, from) /\ from <= cursor[d]
  BY <1>1 DEF PullInv, PullSound
<1>5. \A k \in Conn : conn'[k] = conn[k] \/ PullSound(conn[k])'
  BY <1>2, <1>3, <1>4 DEF PullSound, Reading, Mark
<1>6. InOrder'
  <2>1. \A k \in Conn : conn'[k] = conn[k] \/ conn'[k].phase # "writing"
    BY <1>3 DEF Reading
  <2> QED BY <1>2, <2>1, OrderStays DEF PullInv
<1>7. \A e \in Device : cursor[e] <= cursor'[e] /\ Grown(e)
  BY <1>2, CursorStays, GrownStays DEF IInv
<1> QED BY <1>2, <1>5, <1>6, <1>7, PullKeeps

\* The server answers with a page that covers what lies below its end.
LEMMA PullAnswers ==
    ASSUME TwoTills, IInv, IInv', PullInv, NEW c \in Conn, AnswerPull(c)
    PROVE  PullInv'
<1>1. PICK d \in Device, from \in Nat :
          conn[c].phase = "reading" /\ d = conn[c].dev /\ from = conn[c].cursor
  BY ExchangeFields DEF AnswerPull, IInv, TypeOK
<1>2. PICK upto \in PageEnd(Page(d, from), from) : Answer(c, Pulled(d, Page(d, from), upto))
  BY <1>1 DEF AnswerPull
<1>3. UNCHANGED <<held, pos, nextSeq, remote, cursor, thread>>
  BY DEF AnswerPull
<1>4. \A k \in Conn : \/ conn'[k] = conn[k]
                      \/ conn'[k].phase = "idle"
                      \/ conn'[k] = Pulled(d, Page(d, from), upto)
  BY <1>2 DEF Answer, Idle, IInv, TypeOK
<1>5. PICK page : page = Page(d, from)
  OBVIOUS
<1>6. Mark(d, upto) /\ Covers(d, page, upto)
  <2>1. Mark(d, from) /\ from <= cursor[d] /\ Covers(d, {}, cursor[d])
    BY <1>1 DEF PullInv, PullSound
  <2> QED BY <1>2, <1>5, <2>1, PageCovers DEF IInv
<1>7. \A k \in Conn : conn'[k] = conn[k] \/ PullSound(conn[k])'
  BY <1>3, <1>4, <1>5, <1>6 DEF PullSound, Pulled, Mark, Covers
<1>8. InOrder'
  <2>1. \A k \in Conn : conn'[k] = conn[k] \/ conn'[k].phase # "writing"
    BY <1>4 DEF Pulled
  <2> QED BY <1>3, <2>1, OrderStays DEF PullInv
<1>9. \A e \in Device : cursor[e] <= cursor'[e] /\ Grown(e)
  BY <1>3, CursorStays, GrownStays DEF IInv
<1> QED BY <1>3, <1>7, <1>8, <1>9, PullKeeps

\* The page being applied covers what the answer covered.
LEMMA PullReceives ==
    ASSUME TwoTills, IInv, IInv', PullInv, NEW d \in Device, ReceivePage(d)
    PROVE  PullInv'
<1>1. /\ thread[d].conn \in Conn
      /\ conn[thread[d].conn].phase = "pulled"
      /\ conn[thread[d].conn].dev = d
  BY ThreadFields, ZenonT(60) DEF ReceivePage, IInv, TypeOK, OwnsExchange, Waiting
<1>2. PICK page, upto :
          /\ page = conn[thread[d].conn].page
          /\ upto = conn[thread[d].conn].cursor
  OBVIOUS
<1>3. Mark(d, upto) /\ Covers(d, page, upto)
  BY <1>1, <1>2 DEF PullInv, PullSound
<1>4. thread' = [thread EXCEPT ![d] = Applying(page, upto, FALSE)]
  BY <1>2 DEF ReceivePage
<1>5. UNCHANGED <<held, pos, nextSeq, remote, cursor>>
  BY DEF ReceivePage
<1>6. \A e \in Device : thread'[e] = thread[e] \/ ApplySound(e)'
  <2>1. \A e \in Device : \/ thread'[e] = thread[e]
                          \/ e = d /\ thread'[e] = Applying(page, upto, FALSE)
    BY <1>4 DEF IInv, TypeOK
  <2> QED BY <1>3, <1>5, <2>1 DEF ApplySound, Applying, Mark, Covers
<1>7. \A k \in Conn : conn'[k] = conn[k] \/ conn'[k].phase = "idle"
  BY DEF ReceivePage, IInv, TypeOK, Idle
<1>8. \A k \in Conn : conn'[k] = conn[k] \/ PullSound(conn[k])'
  BY <1>7 DEF PullSound
<1>9. InOrder'
  BY <1>5, <1>7, OrderStays DEF PullInv
<1>10. \A e \in Device : cursor[e] <= cursor'[e] /\ Grown(e)
  BY <1>5, CursorStays, GrownStays DEF IInv
<1> QED BY <1>5, <1>6, <1>8, <1>9, <1>10, PullKeeps, SMTT(60)

\* A row leaves the page for the disk.
LEMMA PullApplies ==
    ASSUME TwoTills, IInv, IInv', PullInv, NEW d \in Device, ApplyRow(d)
    PROVE  PullInv'
<1>1. PICK row \in thread[d].page :
          /\ remote' = [remote EXCEPT ![d] = @ \cup {<<row.dev, row.seq>>}]
          /\ thread' = [thread EXCEPT ![d] =
                Applying(@.page \ {row}, @.cursor,
                         @.fresh \/ <<row.dev, row.seq>> \notin remote[d])]
  BY DEF ApplyRow
<1>2. PICK page, upto : page = thread[d].page /\ upto = thread[d].cursor
  OBVIOUS
<1>3. /\ thread'[d].at = "apply"
      /\ thread'[d].page = page \ {row}
      /\ thread'[d].cursor = upto
      /\ \A e \in Device \ {d} : thread'[e] = thread[e]
  BY <1>1, <1>2 DEF IInv, TypeOK, Applying
<1>4. /\ remote'[d] = remote[d] \cup {<<row.dev, row.seq>>}
      /\ \A e \in Device \ {d} : remote'[e] = remote[e]
  BY <1>1 DEF IInv, TypeOK
<1>5. UNCHANGED <<held, pos, nextSeq, cursor, conn>>
  BY DEF ApplyRow
<1>6. Mark(d, upto) /\ Covers(d, page, upto)
  BY <1>2 DEF ApplyRow, PullInv, ApplySound
<1>7. Covers(d, page \ {row}, upto)'
  <2> SUFFICES ASSUME NEW e \in Device \ {d}, NEW n \in 1 .. Len(held[e]), pos[e][n] <= upto
               PROVE  \/ [dev |-> e, seq |-> n, pos |-> pos[e][n]] \in page \ {row}
                      \/ <<e, n>> \in remote'[d]
    BY <1>5 DEF Covers
  <2>1. \/ [dev |-> e, seq |-> n, pos |-> pos[e][n]] \in page
        \/ <<e, n>> \in remote[d]
    BY <1>6 DEF Covers
  <2>2. CASE [dev |-> e, seq |-> n, pos |-> pos[e][n]] = row
    BY <1>4, <2>2
  <2> QED BY <1>4, <2>1, <2>2
<1>8. \A e \in Device : thread'[e] = thread[e] \/ ApplySound(e)'
  <2>1. ApplySound(d)'
    BY <1>3, <1>5, <1>6, <1>7 DEF ApplySound, Mark, Covers
  <2> QED BY <1>3, <2>1
<1>9. InOrder'
  BY <1>5, OrderStays DEF PullInv
<1>10. \A e \in Device : remote[e] \subseteq remote'[e] /\ cursor[e] <= cursor'[e] /\ Grown(e)
  BY <1>4, <1>5, CursorStays, GrownStays DEF IInv
<1> QED BY <1>5, <1>8, <1>9, <1>10, PullKeeps

\* The cursor moves only when nothing of the page is left to store.
LEMMA PullAdvances ==
    ASSUME TwoTills, IInv, IInv', PullInv, NEW d \in Device,
           FinishRound(d) \/ StoreFault(d)
    PROVE  PullInv'
<1>1. UNCHANGED <<held, pos, nextSeq, remote, conn>>
  BY DEF FinishRound, StoreFault
<1>2. PICK ok \in BOOLEAN : thread' = [thread EXCEPT ![d] = Asleep(ok)]
  BY DEF FinishRound, StoreFault
<1>3. \/ cursor' = cursor
      \/ /\ thread[d].at = "apply"
         /\ thread[d].page = {}
         /\ cursor' = [cursor EXCEPT ![d] = Max2(@, thread[d].cursor)]
  BY DEF FinishRound, StoreFault
<1>4. \A e \in Device : \/ cursor'[e] = cursor[e]
                        \/ /\ e = d
                           /\ cursor[d] <= cursor'[d]
                           /\ Mark(d, cursor[d])' /\ Covers(d, {}, cursor[d])'
  <2>1. CASE cursor' = cursor
    BY <2>1
  <2>2. CASE /\ thread[d].at = "apply"
             /\ thread[d].page = {}
             /\ cursor' = [cursor EXCEPT ![d] = Max2(@, thread[d].cursor)]
    <3>1. PICK v \in Nat : v = thread[d].cursor
      BY <2>2, ThreadFields DEF IInv, TypeOK
    <3>2. Mark(d, v) /\ Covers(d, {}, v)
      BY <2>2, <3>1 DEF PullInv, ApplySound
    <3>3. /\ \A e \in Device \ {d} : cursor'[e] = cursor[e]
          /\ cursor'[d] # cursor[d] => cursor'[d] = v /\ cursor[d] <= cursor'[d]
      BY <2>2, <3>1 DEF IInv, TypeOK, Max2
    <3>4. CASE cursor'[d] = v /\ cursor[d] <= cursor'[d]
      <4>1. Mark(d, cursor[d])' /\ Covers(d, {}, cursor[d])'
        BY <1>1, <3>2, <3>4 DEF Mark, Covers
      <4> QED BY <3>3, <3>4, <4>1
    <3> QED BY <3>3, <3>4
  <2> QED BY <1>3, <2>1, <2>2
<1>5. \A e \in Device : thread'[e] = thread[e] \/ ApplySound(e)'
  BY <1>2 DEF IInv, TypeOK, Asleep, ApplySound
<1>6. InOrder'
  BY <1>1, OrderStays DEF PullInv
<1>7. \A e \in Device : cursor[e] \in Nat /\ Grown(e)
  <2>1. \A e \in Device : cursor[e] \in Nat
    BY DEF IInv, TypeOK
  <2> QED BY <1>1, <2>1, GrownStays DEF IInv
<1>8. \A e \in Device : cursor[e] <= cursor'[e]
  BY <1>4, <1>7
<1> QED BY <1>1, <1>4, <1>5, <1>6, <1>7, <1>8, PullKeeps

\* Every step of an outlet with two tills keeps the invariant.
LEMMA PullStep ==
    ASSUME TwoTills, IInv, IInv', PullInv, [Next]_vars
    PROVE  PullInv'
<1>1. ASSUME NEW d \in Device, Round(d) PROVE PullInv'
  <2>1. CASE SendPush(d) \/ NothingToPush(d) \/ AckPush(d) \/ Refuse(d)
    BY <2>1, PullAside
  <2>2. CASE SendPull(d) \/ ReceivePage(d) \/ ApplyRow(d) \/ FinishRound(d)
    BY <2>2, PullSends, PullReceives, PullApplies, PullAdvances
  <2> QED BY <1>1, <2>1, <2>2 DEF Round
<1>2. ASSUME NEW d \in Device,
             StoreFault(d) \/ GiveUp(d) \/ TornBody(d) \/ Restart(d) \/ Revoke(d)
      PROVE  PullInv'
  BY <1>2, PullAside, PullAdvances
<1>3. CASE \E d \in Device, p \in Payload : Record(d, p)
  BY <1>3, PullAside
<1>4. ASSUME NEW c \in Conn, Serve(c) PROVE PullInv'
  <2>1. CASE OpenPull(c) \/ AnswerPull(c)
    BY <2>1, PullOpens, PullAnswers
  <2>2. CASE Unauthorised(c) \/ PlanPush(c) \/ AnswerRepeat(c) \/ InsertRow(c)
             \/ UniqueViolation(c) \/ CommitPush(c)
    BY <2>2, PullWhilePushing
  <2> QED BY <1>4, <2>1, <2>2 DEF Serve
<1>5. ASSUME NEW c \in Conn, AuthFault(c) \/ Abort(c) PROVE PullInv'
  BY <1>5, PullWhilePushing
<1>6. CASE UNCHANGED vars
  <2>1. UNCHANGED <<held, pos, nextSeq, remote, cursor, thread, conn>>
    BY <1>6 DEF vars
  <2>2. InOrder'
    BY <2>1, OrderStays DEF PullInv
  <2> QED BY <2>1, <2>2, GrownStays, PullSteady DEF IInv
<1> QED BY <1>1, <1>2, <1>3, <1>4, <1>5, <1>6 DEF Next

\* In an outlet of two tills the pull cursor never passes a sibling's event
\* the till does not hold: whatever is delayed, repeated, rolled back or
\* interrupted between a batch's rows and its commit, numbers become visible
\* in the order they were drawn.  A third till breaks the hypothesis and the
\* property: two devices' transactions may commit in either order.
THEOREM TwoTillsSkipNothing == TwoTills => (Spec => []NothingSkipped)
<1> SUFFICES ASSUME TwoTills PROVE Spec => []NothingSkipped
  OBVIOUS
<1>1. Init => PullInv
  <2> SUFFICES ASSUME Init PROVE PullInv
    OBVIOUS
  <2>1. InOrder
    BY DEF Init, InOrder, Increasing, Drawn, Later, Idle
  <2>2. \A d \in Device : /\ Mark(d, cursor[d])
                          /\ Covers(d, {}, cursor[d])
                          /\ ApplySound(d)
    BY DEF Init, Mark, Covers, ApplySound, Asleep
  <2>3. \A c \in Conn : PullSound(conn[c])
    BY DEF Init, PullSound, Idle
  <2> QED BY <2>1, <2>2, <2>3 DEF PullInv
<1>2. IInv /\ IInv' /\ PullInv /\ [Next]_vars => PullInv'
  BY PullStep
<1>3. PullInv => NothingSkipped
  BY DEF PullInv, Covers, NothingSkipped
<1> QED BY <1>1, <1>2, <1>3, Invariance, PTL DEF Spec
-----------------------------------------------------------------------------
(***************************************************************************)
(* Restored disks.  A till may now hold another chain than the one it      *)
(* sent, so what keeps the server's history is the server's own doing: a   *)
(* transaction writes a chain that begins with the chain it read, and      *)
(* commits only while that is still the whole of it.                       *)
(***************************************************************************)

\* What a request and an acknowledgement say.
Sent(x) ==
    /\ x.phase \in {"push", "writing"} => x.dev \in Device /\ x.chain \in Seq(Payload)
    /\ x.phase \in {"repeating", "pushed"} => x.tip \in Nat

\* What an open transaction writes goes past the tip it read, up to which it
\* agrees with the server's chain.
Continues(x) ==
    x.phase = "writing" =>
        /\ x = Writing(x.dev, x.tip, x.chain, x.pos)
        /\ x.tip \in Nat /\ x.tip < Len(x.chain) /\ x.tip <= Len(held[x.dev])
        /\ \A i \in 1 .. x.tip : x.chain[i] = held[x.dev][i]

\* What the proof needs of the tills: that a disk and its copy hold a chain
\* and a mark, whichever, and that a thread waits on an exchange.
DisksTyped ==
    /\ log \in [Device -> Seq(Payload)] /\ synced \in [Device -> Nat]
    /\ backup = [d \in Device |-> backup[d]]
    /\ \A d \in Device : backup[d].log \in Seq(Payload) /\ backup[d].synced \in Nat

ThreadsTyped ==
    /\ thread = [d \in Device |-> thread[d]]
    /\ \A d \in Device : Waiting(d) => thread[d].conn \in Conn

\* The inductive invariant.
HistoryInv ==
    /\ DisksTyped
    /\ ThreadsTyped
    /\ held \in [Device -> Seq(Payload)]
    /\ conn = [c \in Conn |-> conn[c]]
    /\ \A c \in Conn : Sent(conn[c]) /\ Continues(conn[c])

\* A step that leaves the server's chains alone, and puts nothing on the wire
\* but requests and answers that say what they should.
LEMMA QuietKeepsHistory ==
    ASSUME HistoryInv, UNCHANGED held, DisksTyped', ThreadsTyped',
           conn' = [c \in Conn |-> conn'[c]],
           \A c \in Conn : \/ conn'[c] = conn[c]
                           \/ conn'[c].phase # "writing" /\ Sent(conn'[c])
    PROVE  HistoryInv'
<1>1. ASSUME NEW c \in Conn PROVE Sent(conn[c])' /\ Continues(conn[c])'
  <2>1. Sent(conn[c]) /\ Continues(conn[c])
    BY DEF HistoryInv
  <2>2. CASE conn'[c] = conn[c]
    BY <2>1, <2>2 DEF Sent, Continues
  <2>3. CASE conn'[c].phase # "writing" /\ Sent(conn'[c])
    BY <2>3 DEF Sent, Continues
  <2> QED BY <2>2, <2>3
<1> QED BY <1>1 DEF HistoryInv

\* Threads go on to something else than waiting, and exchanges close.
LEMMA ClosingKeepsHistory ==
    ASSUME HistoryInv, UNCHANGED held, DisksTyped', NEW d \in Device, NEW t,
           thread' = [thread EXCEPT ![d] = t], t.at \notin {"push", "pull"},
           conn' = [c \in Conn |-> conn'[c]],
           \A c \in Conn : conn'[c] = conn[c] \/ conn'[c] = Idle
    PROVE  HistoryInv'
<1>1. ThreadsTyped'
  BY DEF HistoryInv, ThreadsTyped, Waiting
<1>2. Idle.phase # "writing" /\ Sent(Idle)
  BY DEF Idle, Sent
<1> QED BY <1>1, <1>2, QuietKeepsHistory

\* Hanging up leaves the exchange to the server or closes it; the till that
\* was answered closes it.
LEMMA HangingUpCloses ==
    ASSUME HistoryInv, NEW k,
           \/ Abandon(k) \/ UNCHANGED conn \/ conn' = [conn EXCEPT ![k] = Idle]
    PROVE  /\ conn' = [c \in Conn |-> conn'[c]]
           /\ \A c \in Conn : conn'[c] = conn[c] \/ conn'[c] = Idle
BY DEF HistoryInv, Abandon

\* A request goes out on one exchange, on which the thread then waits.
LEMMA SendingKeepsHistory ==
    ASSUME HistoryInv, UNCHANGED <<log, synced, backup, held>>,
           NEW d \in Device, NEW c \in Conn, NEW x, NEW t,
           conn' = [conn EXCEPT ![c] = x], x.phase # "writing", Sent(x),
           thread' = [thread EXCEPT ![d] = t], t.conn = c
    PROVE  HistoryInv'
<1>1. DisksTyped' /\ ThreadsTyped'
  BY DEF HistoryInv, DisksTyped, ThreadsTyped, Waiting
<1>2. /\ conn' = [k \in Conn |-> conn'[k]]
      /\ \A k \in Conn : conn'[k] = conn[k] \/ conn'[k] = x
  BY DEF HistoryInv
<1> QED BY <1>1, <1>2, QuietKeepsHistory

\* A till sends a chain it has.
LEMMA PushingKeepsHistory ==
    ASSUME HistoryInv, BatchAssumption, NEW d \in Device, SendPush(d), UNCHANGED backup
    PROVE  HistoryInv'
<1> DEFINE last == Min2(synced[d] + MaxBatch, Len(log[d]))
           req == Push(d, synced[d] + 1, SubSeq(log[d], 1, last))
<1>1. PICK c \in Conn : /\ conn' = [conn EXCEPT ![c] = req]
                        /\ thread' = [thread EXCEPT ![d] = AwaitPush(c, last)]
  BY DEF SendPush
<1>2. SubSeq(log[d], 1, last) \in Seq(Payload)
  <2>1. last \in 0 .. Len(log[d]) /\ log[d] \in Seq(Payload)
    BY DEF HistoryInv, DisksTyped, BatchAssumption, Min2
  <2> QED BY <2>1, PrefixCut
<1>3. req.phase # "writing" /\ Sent(req)
  BY <1>2 DEF Sent, Push
<1>4. AwaitPush(c, last).conn = c
  BY DEF AwaitPush
<1> HIDE DEF req, last
<1> QED BY <1>1, <1>3, <1>4, SendingKeepsHistory DEF SendPush

\* An acknowledgement moves the till's mark, by a number.
LEMMA AckKeepsHistory ==
    ASSUME HistoryInv, NEW d \in Device, AckPush(d), UNCHANGED backup
    PROVE  HistoryInv'
<1> DEFINE c == thread[d].conn
<1>1. c \in Conn
  BY DEF AckPush, HistoryInv, ThreadsTyped, Waiting
<1>2. conn[c].tip \in Nat
  BY <1>1 DEF AckPush, HistoryInv, Sent
<1>3. MarkSynced(d, conn[c].tip) \in Nat
  BY <1>2 DEF MarkSynced, Min2, Max2, HistoryInv, DisksTyped
<1>4. DisksTyped' /\ UNCHANGED held
  BY <1>3 DEF AckPush, HistoryInv, DisksTyped
<1>5. PICK t \in {Stopped, Drained} : thread' = [thread EXCEPT ![d] = t]
  BY DEF AckPush
<1>6. t.at \notin {"push", "pull"}
  BY DEF Stopped, Drained
<1>7. conn' = [conn EXCEPT ![c] = Idle]
  BY DEF AckPush
<1> HIDE DEF c
<1> QED BY <1>4, <1>5, <1>6, <1>7, HangingUpCloses, ClosingKeepsHistory

\* The rest of a till's round, its faults, and its restarts change no chain
\* and no mark.
LEMMA TillKeepsHistory ==
    ASSUME HistoryInv, NEW d \in Device, UNCHANGED backup,
           \/ NothingToPush(d) \/ ReceivePage(d) \/ ApplyRow(d) \/ FinishRound(d)
           \/ Refuse(d) \/ StoreFault(d) \/ GiveUp(d) \/ TornBody(d) \/ Restart(d)
    PROVE  HistoryInv'
<1>1. UNCHANGED <<log, synced, held>>
  BY DEF NothingToPush, ReceivePage, ApplyRow, FinishRound, Refuse,
         StoreFault, GiveUp, TornBody, Restart
<1>2. DisksTyped'
  BY <1>1 DEF HistoryInv, DisksTyped
<1>3. \/ Abandon(thread[d].conn) \/ UNCHANGED conn
      \/ conn' = [conn EXCEPT ![thread[d].conn] = Idle]
  BY DEF NothingToPush, ReceivePage, ApplyRow, FinishRound, Refuse,
         StoreFault, GiveUp, TornBody, Restart
<1>4. \E t : t.at \notin {"push", "pull"} /\ thread' = [thread EXCEPT ![d] = t]
  <2>1. CASE ReceivePage(d) \/ ApplyRow(d)
    <3>1. \A page, upto, fresh : Applying(page, upto, fresh).at = "apply"
      BY DEF Applying
    <3>2. CASE ReceivePage(d)
      BY <3>1, <3>2 DEF ReceivePage
    <3>3. CASE ApplyRow(d)
      <4>1. PICK row \in thread[d].page :
               thread' = [thread EXCEPT ![d] =
                  Applying(thread[d].page \ {row}, thread[d].cursor,
                           thread[d].fresh \/ <<row.dev, row.seq>> \notin remote[d])]
        BY <3>3 DEF ApplyRow
      <4> QED BY <3>1, <4>1
    <3> QED BY <2>1, <3>2, <3>3
  <2>2. CASE Refuse(d)
    <3>1. \/ thread' = [thread EXCEPT ![d] = Asleep(FALSE)]
          \/ thread' = [thread EXCEPT ![d] = Stopped]
      BY <2>2 DEF Refuse
    <3> QED BY <3>1 DEF Asleep, Stopped
  <2>3. CASE ~(ReceivePage(d) \/ ApplyRow(d) \/ Refuse(d))
    BY <2>3 DEF NothingToPush, FinishRound, StoreFault, GiveUp, TornBody, Restart,
                Drained, Asleep, Stopped
  <2> QED BY <2>1, <2>2, <2>3
<1> QED BY <1>1, <1>2, <1>3, <1>4, HangingUpCloses, ClosingKeepsHistory

LEMMA PullingKeepsHistory ==
    ASSUME HistoryInv, NEW d \in Device, SendPull(d), UNCHANGED backup
    PROVE  HistoryInv'
<1>1. PICK c \in Conn : /\ conn' = [conn EXCEPT ![c] = Pull(d, cursor[d])]
                        /\ thread' = [thread EXCEPT ![d] = AwaitPull(c)]
  BY DEF SendPull
<1>2. /\ Pull(d, cursor[d]).phase # "writing" /\ Sent(Pull(d, cursor[d]))
      /\ AwaitPull(c).conn = c
  BY DEF Pull, AwaitPull, Sent
<1> QED BY <1>1, <1>2, SendingKeepsHistory DEF SendPull

\* A sale grows a chain; a copy is taken; the disk becomes the copy.
LEMMA DiskKeepsHistory ==
    ASSUME HistoryInv, NEW d \in Device,
           \/ \E p \in Payload : Record(d, p) /\ UNCHANGED backup
           \/ Revoke(d) /\ UNCHANGED backup
           \/ TakeBackup(d)
    PROVE  HistoryInv'
<1>1. UNCHANGED <<held, conn, thread>>
  BY DEF Record, Revoke, TakeBackup, vars
<1>2. DisksTyped'
  <2>1. CASE \E p \in Payload : Record(d, p) /\ UNCHANGED backup
    <3>1. PICK p \in Payload : Record(d, p) /\ UNCHANGED backup
      BY <2>1
    <3>2. Append(log[d], p) \in Seq(Payload)
      BY AppendProperties DEF HistoryInv, DisksTyped
    <3> QED BY <3>1, <3>2 DEF Record, HistoryInv, DisksTyped
  <2>2. CASE Revoke(d) /\ UNCHANGED backup
    BY <2>2 DEF Revoke, HistoryInv, DisksTyped
  <2>3. CASE TakeBackup(d)
    BY <2>3 DEF TakeBackup, Disk, vars, HistoryInv, DisksTyped
  <2> QED BY <2>1, <2>2, <2>3
<1>3. ThreadsTyped'
  BY <1>1 DEF HistoryInv, ThreadsTyped, Waiting
<1>4. conn' = [c \in Conn |-> conn'[c]]
  BY <1>1 DEF HistoryInv
<1> QED BY <1>1, <1>2, <1>3, <1>4, QuietKeepsHistory

LEMMA RestoreKeepsHistory ==
    ASSUME HistoryInv, NEW d \in Device, Restore(d)
    PROVE  HistoryInv'
<1>1. /\ log' = [log EXCEPT ![d] = backup[d].log]
      /\ synced' = [synced EXCEPT ![d] = backup[d].synced]
      /\ thread' = [thread EXCEPT ![d] = Asleep(TRUE)]
      /\ Abandon(thread[d].conn) \/ UNCHANGED conn
      /\ UNCHANGED <<held, backup>>
  BY DEF Restore
<1>2. DisksTyped'
  BY <1>1 DEF HistoryInv, DisksTyped
<1>3. Asleep(TRUE).at \notin {"push", "pull"}
  BY DEF Asleep
<1> QED BY <1>1, <1>2, <1>3, HangingUpCloses, ClosingKeepsHistory

\* A server step that only answers.
LEMMA AnsweringKeepsHistory ==
    ASSUME HistoryInv, UNCHANGED <<log, synced, backup, held, thread>>,
           NEW c \in Conn, NEW x, Answer(c, x), x.phase # "writing", Sent(x)
    PROVE  HistoryInv'
<1>1. DisksTyped' /\ ThreadsTyped'
  BY DEF HistoryInv, DisksTyped, ThreadsTyped, Waiting
<1>2. /\ conn' = [k \in Conn |-> conn'[k]]
      /\ \A k \in Conn : conn'[k] = conn[k] \/ conn'[k] = x \/ conn'[k] = Idle
  BY DEF HistoryInv, Answer
<1>3. Idle.phase # "writing" /\ Sent(Idle)
  BY DEF Idle, Sent
<1> QED BY <1>1, <1>2, <1>3, QuietKeepsHistory

LEMMA RefusalKeepsHistory ==
    ASSUME HistoryInv, NEW c \in Conn, UNCHANGED backup,
           \/ Unauthorised(c) \/ AuthFault(c) \/ UniqueViolation(c) \/ Abort(c)
           \/ AnswerPull(c)
    PROVE  HistoryInv'
<1>1. UNCHANGED <<log, synced, backup, held, thread>>
  BY DEF Unauthorised, AuthFault, UniqueViolation, Abort, AnswerPull
<1>2. \E x : Answer(c, x) /\ x.phase \in {"refused", "pulled"}
  <2>1. CASE AnswerPull(c)
    BY <2>1 DEF AnswerPull, Pulled
  <2>2. CASE Unauthorised(c) \/ AuthFault(c) \/ UniqueViolation(c) \/ Abort(c)
    BY <2>2 DEF Unauthorised, AuthFault, UniqueViolation, Abort, Refused
  <2> QED BY <2>1, <2>2
<1>3. PICK x : Answer(c, x) /\ x.phase \in {"refused", "pulled"}
  BY <1>2
<1>4. Sent(x)
  BY <1>3 DEF Sent
<1> QED BY <1>1, <1>3, <1>4, AnsweringKeepsHistory

\* A server step that opens a transaction which writes nothing.
LEMMA OpeningKeepsHistory ==
    ASSUME HistoryInv, UNCHANGED <<log, synced, backup, held, thread>>,
           NEW c \in Conn, NEW x, conn' = [conn EXCEPT ![c] = x],
           x.phase # "writing", Sent(x)
    PROVE  HistoryInv'
<1>1. DisksTyped' /\ ThreadsTyped'
  BY DEF HistoryInv, DisksTyped, ThreadsTyped, Waiting
<1>2. /\ conn' = [k \in Conn |-> conn'[k]]
      /\ \A k \in Conn : conn'[k] = conn[k] \/ conn'[k] = x
  BY DEF HistoryInv
<1> QED BY <1>1, <1>2, QuietKeepsHistory

\* A repeated batch is answered with the tip it was planned on, and a pull is
\* opened on the cursor it asks for.
LEMMA RepeatKeepsHistory ==
    ASSUME HistoryInv, NEW c \in Conn, UNCHANGED backup,
           AnswerRepeat(c) \/ OpenPull(c)
    PROVE  HistoryInv'
<1>1. UNCHANGED <<log, synced, backup, held, thread>> /\ Sent(conn[c])
  BY DEF AnswerRepeat, OpenPull, HistoryInv
<1>2. CASE AnswerRepeat(c)
  <2> DEFINE x == Pushed(conn[c].dev, conn[c].tip)
  <2>1. Answer(c, x)
    BY <1>2 DEF AnswerRepeat
  <2>2. x.phase # "writing" /\ Sent(x)
    BY <1>1, <1>2 DEF AnswerRepeat, Pushed, Sent
  <2> QED BY <1>1, <2>1, <2>2, AnsweringKeepsHistory
<1>3. CASE OpenPull(c)
  <2> DEFINE x == Reading(conn[c].dev, conn[c].cursor)
  <2>1. conn' = [conn EXCEPT ![c] = x]
    BY <1>3 DEF OpenPull
  <2>2. x.phase # "writing" /\ Sent(x)
    BY DEF Reading, Sent
  <2> QED BY <1>1, <2>1, <2>2, OpeningKeepsHistory
<1> QED BY <1>2, <1>3

\* plan_batch opens a transaction only for a chain that begins with the one
\* it reads.
LEMMA PlanningKeepsHistory ==
    ASSUME HistoryInv, NEW c \in Conn, PlanPush(c), UNCHANGED backup
    PROVE  HistoryInv'
<1> DEFINE d == conn[c].dev
           chain == conn[c].chain
           plan == PlanBatch(conn[c].first, chain, held[d])
<1>1. /\ UNCHANGED <<log, synced, backup, held, thread>>
      /\ d \in Device /\ chain \in Seq(Payload) /\ held[d] \in Seq(Payload)
  BY DEF PlanPush, HistoryInv, Sent
<1>2. CASE plan \in Rejection /\ Answer(c, Refused(d, plan))
  <2>1. Refused(d, plan).phase # "writing" /\ Sent(Refused(d, plan))
    BY DEF Refused, Sent
  <2> QED BY <1>1, <1>2, <2>1, AnsweringKeepsHistory
<1>3. CASE conn' = [conn EXCEPT ![c] = Repeating(d, Len(held[d]))]
  <2>1. Repeating(d, Len(held[d])).phase # "writing" /\ Sent(Repeating(d, Len(held[d])))
    BY <1>1 DEF Repeating, Sent
  <2> QED BY <1>1, <1>3, <2>1, OpeningKeepsHistory
<1>4. CASE /\ plan = "insert"
           /\ conn' = [conn EXCEPT ![c] = Writing(d, Len(held[d]), chain, <<>>)]
  <2> DEFINE x == Writing(d, Len(held[d]), chain, <<>>)
  <2>1. IsPrefix(held[d], chain) /\ ~(Len(chain) <= Len(held[d]))
    BY <1>4, PlanInserts
  <2>2. \A i \in 1 .. Len(held[d]) : chain[i] = held[d][i]
    BY <1>1, <2>1, PrefixByIndex
  <2>3. /\ x.phase = "writing" /\ x.dev = d /\ x.tip = Len(held[d])
        /\ x.chain = chain /\ x.pos = <<>>
    BY DEF Writing
  <2>4. x = Writing(x.dev, x.tip, x.chain, x.pos)
    BY <2>3
  <2> HIDE DEF x
  <2>5. Sent(x) /\ Continues(x)
    BY <1>1, <2>1, <2>2, <2>3, <2>4 DEF Sent, Continues
  <2>6. /\ conn' = [k \in Conn |-> conn'[k]]
        /\ \A k \in Conn : conn'[k] = conn[k] \/ conn'[k] = x
    BY <1>4 DEF HistoryInv, x
  <2>7. ASSUME NEW k \in Conn PROVE Sent(conn[k])' /\ Continues(conn[k])'
    BY <1>1, <2>5, <2>6, SMTT(60) DEF HistoryInv, Sent, Continues
  <2>8. DisksTyped' /\ ThreadsTyped'
    BY <1>1 DEF HistoryInv, DisksTyped, ThreadsTyped, Waiting
  <2> QED BY <1>1, <2>6, <2>7, <2>8 DEF HistoryInv
<1> QED BY <1>2, <1>3, <1>4 DEF PlanPush

\* An inserted row changes nothing but the numbers the transaction took.
LEMMA InsertingKeepsHistory ==
    ASSUME HistoryInv, NEW c \in Conn, InsertRow(c), UNCHANGED backup
    PROVE  HistoryInv'
<1> DEFINE x == [conn[c] EXCEPT !.pos = Append(@, nextSeq)]
<1>1. UNCHANGED <<log, synced, backup, held, thread>>
  BY DEF InsertRow
<1>2. Sent(conn[c]) /\ Continues(conn[c]) /\ conn[c].phase = "writing"
  BY DEF InsertRow, HistoryInv
<1>3. PICK d, tip, chain, at : conn[c] = Writing(d, tip, chain, at)
  BY <1>2 DEF Continues
<1>4. x = Writing(d, tip, chain, Append(at, nextSeq))
  BY <1>3, SMTT(60) DEF Writing
<1>5. conn' = [conn EXCEPT ![c] = x]
  BY DEF InsertRow
<1> HIDE DEF x
<1>6. /\ x.phase = "writing" /\ x.dev = conn[c].dev /\ x.tip = conn[c].tip
      /\ x.chain = conn[c].chain /\ x = Writing(x.dev, x.tip, x.chain, x.pos)
  BY <1>3, <1>4 DEF Writing
<1>7. Sent(x) /\ Continues(x)
  BY <1>2, <1>6 DEF Sent, Continues
<1>8. /\ conn' = [k \in Conn |-> conn'[k]]
      /\ \A k \in Conn : conn'[k] = conn[k] \/ conn'[k] = x
  BY <1>5 DEF HistoryInv
<1>9. ASSUME NEW k \in Conn PROVE Sent(conn[k])' /\ Continues(conn[k])'
  <2>1. Sent(conn[k]) /\ Continues(conn[k])
    BY DEF HistoryInv
  <2>2. CASE conn'[k] = conn[k]
    BY <1>1, <2>1, <2>2 DEF Sent, Continues
  <2>3. CASE conn'[k] = x
    BY <1>1, <1>7, <2>3 DEF Sent, Continues
  <2> QED BY <1>8, <2>2, <2>3
<1>10. DisksTyped' /\ ThreadsTyped'
  BY <1>1 DEF HistoryInv, DisksTyped, ThreadsTyped, Waiting
<1> QED BY <1>1, <1>8, <1>9, <1>10 DEF HistoryInv

\* A commit on the tip it read extends the chain; another open transaction of
\* the same device still agrees with what it read.
LEMMA CommitExtends ==
    ASSUME HistoryInv, NEW c \in Conn, CommitPush(c)
    PROVE  LET d == conn[c].dev
               chain == conn[c].chain
           IN /\ d \in Device /\ chain \in Seq(Payload)
              /\ Len(held[d]) < Len(chain)
              /\ \A i \in 1 .. Len(held[d]) : chain[i] = held[d][i]
              /\ held' = [held EXCEPT ![d] = chain]
<1> DEFINE d == conn[c].dev
           chain == conn[c].chain
<1>1. Sent(conn[c]) /\ Continues(conn[c]) /\ conn[c].phase = "writing"
  BY DEF CommitPush, HistoryInv
<1>2. /\ d \in Device /\ chain \in Seq(Payload)
      /\ conn[c].tip \in Nat /\ conn[c].tip < Len(chain)
      /\ \A i \in 1 .. conn[c].tip : chain[i] = held[d][i]
  BY <1>1 DEF Sent, Continues
<1>3. conn[c].pos # <<>>
  <2>1. SUFFICES ASSUME conn[c].pos = <<>> PROVE FALSE
    OBVIOUS
  <2>2. Len(conn[c].pos) = 0
    BY <2>1
  <2> QED BY <1>2, <2>2 DEF CommitPush
<1>4. Len(held[d]) = conn[c].tip
  BY <1>3 DEF CommitPush, Conflict
<1> QED BY <1>2, <1>4 DEF CommitPush

LEMMA CommittingKeepsHistory ==
    ASSUME HistoryInv, NEW c \in Conn, CommitPush(c), UNCHANGED backup
    PROVE  HistoryInv'
<1> DEFINE d == conn[c].dev
           chain == conn[c].chain
           x == Pushed(d, Len(chain))
<1>1. UNCHANGED <<log, synced, backup, thread>> /\ Answer(c, x)
  BY DEF CommitPush
<1>2. /\ d \in Device /\ chain \in Seq(Payload)
      /\ Len(held[d]) < Len(chain)
      /\ \A i \in 1 .. Len(held[d]) : chain[i] = held[d][i]
      /\ held' = [held EXCEPT ![d] = chain]
      /\ held \in [Device -> Seq(Payload)]
  BY CommitExtends DEF HistoryInv
<1>3. /\ x.phase # "writing" /\ Sent(x)
      /\ Idle.phase # "writing" /\ Sent(Idle)
  BY <1>2 DEF Pushed, Idle, Sent
<1>4. /\ conn' = [k \in Conn |-> conn'[k]]
      /\ \A k \in Conn : conn'[k] = conn[k] \/ conn'[k] = x \/ conn'[k] = Idle
  BY <1>1 DEF HistoryInv, Answer
<1>5. ASSUME NEW k \in Conn, conn'[k] = conn[k] PROVE Sent(conn[k])' /\ Continues(conn[k])'
  <2>1. Sent(conn[k]) /\ Continues(conn[k])
    BY DEF HistoryInv
  <2> DEFINE y == conn[k]
  <2>2. SUFFICES ASSUME y.phase = "writing"
                 PROVE  /\ y.tip <= Len(held'[y.dev])
                        /\ \A i \in 1 .. y.tip : y.chain[i] = held'[y.dev][i]
    BY <1>5, <2>1 DEF Sent, Continues
  <2>3. /\ y.dev \in Device /\ y.tip \in Nat /\ y.tip <= Len(held[y.dev])
        /\ \A i \in 1 .. y.tip : y.chain[i] = held[y.dev][i]
    BY <2>1, <2>2 DEF Sent, Continues
  <2>4. CASE y.dev = d
    BY <1>2, <2>3, <2>4
  <2>5. CASE y.dev # d
    BY <1>2, <2>3, <2>5
  <2> QED BY <2>4, <2>5
<1> HIDE DEF x
<1>6. ASSUME NEW k \in Conn, conn'[k] \in {x, Idle} PROVE Sent(conn[k])' /\ Continues(conn[k])'
  BY <1>3, <1>6 DEF Sent, Continues
<1>7. DisksTyped' /\ ThreadsTyped'
  BY <1>1 DEF HistoryInv, DisksTyped, ThreadsTyped, Waiting
<1>8. held' \in [Device -> Seq(Payload)]
  BY <1>2
<1> QED BY <1>4, <1>5, <1>6, <1>7, <1>8 DEF HistoryInv

\* Every step keeps the invariant.
LEMMA HistoryStep == HistoryInv /\ [NextR]_rvars => HistoryInv'
<1> SUFFICES ASSUME HistoryInv, [NextR]_rvars PROVE HistoryInv'
  OBVIOUS
<1>1. CASE \E d \in Device : TakeBackup(d) \/ Restore(d)
  BY <1>1, DiskKeepsHistory, RestoreKeepsHistory
<1>2. CASE UNCHANGED backup /\ \E d \in Device, p \in Payload : Record(d, p)
  BY <1>2, DiskKeepsHistory
<1>3. CASE UNCHANGED backup /\ \E d \in Device :
             \/ Round(d) \/ StoreFault(d) \/ GiveUp(d) \/ TornBody(d)
             \/ Restart(d) \/ Revoke(d)
  BY <1>3, BatchAssumption, PushingKeepsHistory, AckKeepsHistory, TillKeepsHistory,
     PullingKeepsHistory, DiskKeepsHistory DEF Round
<1>4. CASE UNCHANGED backup /\ \E c \in Conn : Serve(c) \/ AuthFault(c) \/ Abort(c)
  BY <1>4, RefusalKeepsHistory, RepeatKeepsHistory, PlanningKeepsHistory,
     InsertingKeepsHistory, CommittingKeepsHistory DEF Serve
<1>5. CASE UNCHANGED rvars
  BY <1>5 DEF rvars, vars, HistoryInv, DisksTyped, ThreadsTyped, Waiting, Sent, Continues
<1> QED BY <1>1, <1>2, <1>3, <1>4, <1>5 DEF NextR, Next

LEMMA HistoryStart == InitR => HistoryInv
<1> SUFFICES ASSUME InitR PROVE HistoryInv
  OBVIOUS
<1>1. /\ log = [d \in Device |-> <<>>] /\ held = [d \in Device |-> <<>>]
      /\ synced = [d \in Device |-> 0]
      /\ <<>> \in Seq(Payload)
  BY DEF InitR, Init
<1>2. DisksTyped
  BY <1>1 DEF InitR, Disk, DisksTyped
<1>3. ThreadsTyped
  BY DEF InitR, Init, ThreadsTyped, Waiting, Asleep
<1>4. held \in [Device -> Seq(Payload)]
  BY <1>1
<1>5. conn = [c \in Conn |-> Idle]
  BY DEF InitR, Init
<1>6. \A c \in Conn : Sent(conn[c]) /\ Continues(conn[c])
  BY <1>5 DEF Sent, Continues, Idle
<1> QED BY <1>2, <1>3, <1>4, <1>5, <1>6 DEF HistoryInv

\* No step touches a chain of the server's but a commit, which extends it.
LEMMA HistoryOnlyGrows ==
    HistoryInv /\ [NextR]_rvars => \A d \in Device : IsPrefix(held[d], held'[d])
<1> SUFFICES ASSUME HistoryInv, [NextR]_rvars, NEW d \in Device
             PROVE  IsPrefix(held[d], held'[d])
  OBVIOUS
<1>1. held[d] \in Seq(Payload) /\ held'[d] \in Seq(Payload)
  BY HistoryStep DEF HistoryInv
<1>2. CASE UNCHANGED held
  BY <1>1, <1>2, PrefixByIndex
<1>3. CASE \E c \in Conn : CommitPush(c)
  <2>1. PICK c \in Conn : CommitPush(c)
    BY <1>3
  <2>2. \/ held'[d] = held[d]
        \/ /\ Len(held[d]) <= Len(held'[d])
           /\ \A i \in 1 .. Len(held[d]) : held[d][i] = held'[d][i]
    BY <2>1, CommitExtends, SMTT(60) DEF HistoryInv
  <2> QED BY <1>1, <2>2, PrefixByIndex
<1>4. UNCHANGED held \/ \E c \in Conn : CommitPush(c)
  BY ZenonT(60) DEF NextR, Next, Round, Serve, rvars, vars, Record, SendPush, NothingToPush, AckPush,
         SendPull, ReceivePage, ApplyRow, FinishRound, Refuse, StoreFault, GiveUp, TornBody,
         Restart, Revoke, Unauthorised, AuthFault, Abort, PlanPush, AnswerRepeat, InsertRow,
         UniqueViolation, OpenPull, AnswerPull, TakeBackup, Restore
<1> QED BY <1>2, <1>3, <1>4

\* Whatever disks are restored, and whatever the tills send then, an event
\* the server accepted stays where it is (plan_batch's fork check, and the
\* UNIQUE constraint between two transactions that read the same tip).
THEOREM HistoryIsKept == SpecR => ServerKeepsHistory
<1>1. HistoryInv /\ [NextR]_rvars
      => [\A d \in Device : IsPrefix(held[d], held'[d])]_rvars
  BY HistoryOnlyGrows
<1> QED BY <1>1, HistoryStart, HistoryStep, PTL DEF SpecR, ServerKeepsHistory
=============================================================================
