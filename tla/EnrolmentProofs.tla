--------------------------- MODULE EnrolmentProofs ---------------------------
(***************************************************************************)
(* Enrolment, proved for every number of tills, tokens, attempts and       *)
(* faults: every device row is the one some token names, and the           *)
(* credentials a till holds are a row's.                                   *)
(***************************************************************************)
EXTENDS Enrolment, TLAPS

-----------------------------------------------------------------------------
(***************************************************************************)
(* The inductive invariant.                                                *)
(***************************************************************************)

ConsumedBy(d) == [tag |-> "device", id |-> d]
TokenRow == [tag : {"row"}, expires : Nat,
             consumed_by : {None} \cup [tag : {"device"}, id : Attempts]]
AttemptRow == [tag : {"made"}, till : Tills, token : Tokens, stage : Stage,
               answer : Answer, heard : BOOLEAN]
Held == [tag : {"credentials"}, device_id : Attempts, secret_key : Attempts]

ETypeOK ==
    /\ now \in Nat
    /\ server = Down \/ server \in Setting
    /\ token \in [Tokens -> {Unminted} \cup TokenRow]
    /\ device \in [DOMAIN device -> [public_key : Attempts, revoked : BOOLEAN]]
    /\ DOMAIN device \subseteq Attempts
    /\ attempt \in [Attempts -> {Unmade} \cup AttemptRow]
    /\ disk \in [Tills -> {None, Torn} \cup Held]
    /\ app \in [Tills -> {None, Down} \cup Held]

\* A device row belongs to an attempt, carries its key, and consumed its token.
RowsEarned ==
    \A d \in DOMAIN device :
        /\ attempt[d] # Unmade
        /\ device[d].public_key = d
        /\ token[attempt[d].token] # Unminted
        /\ token[attempt[d].token].consumed_by = ConsumedBy(d)

\* A token that passed the check stays minted.
CheckedIsMinted ==
    \A a \in Attempts :
        (attempt[a] # Unmade /\ attempt[a].stage \in {"checked", "consumed", "inserted"})
            => token[attempt[a].token] # Unminted

\* A transaction that updated a token has it to itself, and the token is
\* nobody's until it commits.
LocksExclusive ==
    \A a \in Attempts :
        (attempt[a] # Unmade /\ attempt[a].stage \in {"consumed", "inserted"}) =>
            /\ token[attempt[a].token].consumed_by = None
            /\ \A b \in Attempts :
                  (attempt[b] # Unmade /\ attempt[b].stage \in {"consumed", "inserted"}
                     /\ attempt[b].token = attempt[a].token) => a = b

\* Success is answered after the commit.
AnswersFollowCommit ==
    \A a \in Attempts :
        (attempt[a] # Unmade /\ attempt[a].answer = "created") => a \in DOMAIN device

\* What a till holds is a row's, with that row's key.
HeldIsARow ==
    \A t \in Tills : \A c \in Held :
        (disk[t] = c \/ app[t] = c) => c.device_id \in DOMAIN device /\ c.secret_key = c.device_id

EInv ==
    /\ ETypeOK
    /\ RowsEarned
    /\ CheckedIsMinted
    /\ LocksExclusive
    /\ AnswersFollowCommit
    /\ HeldIsARow

-----------------------------------------------------------------------------
LEMMA EnrolmentStarts == EInit => EInv
<1> SUFFICES ASSUME EInit PROVE EInv
  OBVIOUS
<1>1. ETypeOK
  BY DEF EInit, ETypeOK
<1>2. RowsEarned /\ CheckedIsMinted /\ LocksExclusive /\ AnswersFollowCommit
  BY DEF EInit, RowsEarned, CheckedIsMinted, LocksExclusive, AnswersFollowCommit
<1>3. HeldIsARow
  BY DEF EInit, HeldIsARow, Held, None, Down
<1> QED
  BY <1>1, <1>2, <1>3 DEF EInv

\* Only an attempt's own side of the table moves it: when nothing but the clock,
\* the schema or the server's configuration changes, everything stands.
LEMMA EnrolmentIdles ==
    ASSUME EInv, now' \in Nat, server' = Down \/ server' \in Setting,
           UNCHANGED <<token, device, attempt, disk, app>>
    PROVE  EInv'
  BY DEF EInv, ETypeOK, RowsEarned, CheckedIsMinted, LocksExclusive,
         AnswersFollowCommit, HeldIsARow

\* What one row of a table holds.
LEMMA AttemptIs ==
    ASSUME EInv, NEW a \in Attempts, attempt[a] # Unmade
    PROVE  attempt[a] \in AttemptRow
  BY DEF EInv, ETypeOK

LEMMA MadeIs ==
    ASSUME EInv, NEW a \in Made
    PROVE  a \in Attempts /\ attempt[a] # Unmade /\ attempt[a] \in AttemptRow
  BY AttemptIs DEF Made

\* The owner mints a token nobody knows of.
LEMMA TokenIssued ==
    ASSUME EInv, NEW k \in Tokens, NEW ttl \in Minutes, IssueToken(k, ttl)
    PROVE  EInv'
<1>1. token' = [token EXCEPT ![k] = Row(now + ttl)] /\ token[k] = Unminted
  BY DEF IssueToken
<1>2. UNCHANGED <<now, server, device, attempt, disk, app>>
  BY DEF IssueToken
<1>3. Row(now + ttl) \in TokenRow
  BY EnrolmentAssumption DEF Row, TokenRow, EInv, ETypeOK
<1>4. ETypeOK'
  BY <1>1, <1>2, <1>3 DEF EInv, ETypeOK
<1>5. RowsEarned' /\ CheckedIsMinted'
  BY <1>1, <1>2, <1>3, AttemptIs
     DEF EInv, ETypeOK, RowsEarned, CheckedIsMinted, TokenRow, Unminted, AttemptRow
<1>6. LocksExclusive'
  BY <1>1, <1>2, AttemptIs
     DEF EInv, ETypeOK, CheckedIsMinted, LocksExclusive, AttemptRow
<1>7. AnswersFollowCommit' /\ HeldIsARow'
  BY <1>2 DEF EInv, AnswersFollowCommit, HeldIsARow
<1> QED
  BY <1>4, <1>5, <1>6, <1>7 DEF EInv

\* Revoking a device leaves its row and its key.
LEMMA DeviceRevoked ==
    ASSUME EInv, NEW d \in Device, Revoke(d)
    PROVE  EInv'
<1>1. device' = [device EXCEPT ![d].revoked = TRUE] /\ d \in DOMAIN device
  BY DEF Revoke
<1>2. UNCHANGED <<now, server, token, attempt, disk, app>>
  BY DEF Revoke
<1>3. DOMAIN device' = DOMAIN device
      /\ \A e \in DOMAIN device : /\ device'[e].public_key = device[e].public_key
                                  /\ device'[e] \in [public_key : Attempts, revoked : BOOLEAN]
  BY <1>1 DEF EInv, ETypeOK
<1>4. ETypeOK'
  BY <1>1, <1>2, <1>3 DEF EInv, ETypeOK
<1>5. RowsEarned' /\ AnswersFollowCommit' /\ HeldIsARow'
  BY <1>2, <1>3 DEF EInv, RowsEarned, AnswersFollowCommit, HeldIsARow
<1>6. CheckedIsMinted' /\ LocksExclusive'
  BY <1>2 DEF EInv, CheckedIsMinted, LocksExclusive
<1> QED
  BY <1>4, <1>5, <1>6 DEF EInv

\* An attempt moves on, or is answered with anything but success: what matters is
\* that it enters a later stage with the guards of that stage.
LEMMA AttemptMoves ==
    ASSUME EInv, NEW a \in Attempts, NEW row \in AttemptRow, attempt[a] # Unmade,
           row.token = attempt[a].token,
           attempt' = [attempt EXCEPT ![a] = row],
           UNCHANGED <<now, token, device, disk, app>>,
           server' = server,
           row.answer = "created" => a \in DOMAIN device,
           row.stage = "checked" => token[row.token] # Unminted,
           row.stage \in {"consumed", "inserted"} =>
               /\ token[row.token] # Unminted
               /\ token[row.token].consumed_by = None
               /\ \A b \in Attempts \ {a} :
                     (attempt[b] # Unmade /\ attempt[b].stage \in {"consumed", "inserted"})
                        => attempt[b].token # row.token
    PROVE  EInv'
<1>1. attempt' \in [Attempts -> {Unmade} \cup AttemptRow] /\ attempt'[a] = row
      /\ \A b \in Attempts \ {a} : attempt'[b] = attempt[b]
  BY DEF EInv, ETypeOK
<1>2. row # Unmade
  BY DEF AttemptRow, Unmade
<1>3. ETypeOK'
  BY <1>1 DEF EInv, ETypeOK
<1>4. RowsEarned'
  BY <1>1, <1>2 DEF EInv, ETypeOK, RowsEarned
<1>5. CheckedIsMinted'
  BY <1>1, <1>2 DEF EInv, CheckedIsMinted
<1>6. LocksExclusive'
  BY <1>1, <1>2 DEF EInv, LocksExclusive
<1>7. AnswersFollowCommit' /\ HeldIsARow'
  BY <1>1, <1>2 DEF EInv, AnswersFollowCommit, HeldIsARow
<1> QED
  BY <1>3, <1>4, <1>5, <1>6, <1>7 DEF EInv

LEMMA LookedUp ==
    ASSUME EInv, NEW a \in Attempts, LookUp(a)
    PROVE  EInv'
<1>1. a \in Made /\ attempt[a] # Unmade /\ attempt[a] \in AttemptRow
      /\ attempt[a].stage = "presented"
  BY MadeIs DEF LookUp, Stands
<1>2. UNCHANGED <<now, server, token, device, disk, app>>
  BY DEF LookUp
<1>3. CASE Usable(attempt[a].token)
  <2> DEFINE row == [attempt[a] EXCEPT !.stage = "checked"]
  <2>1. attempt' = [attempt EXCEPT ![a] = row]
    BY <1>3 DEF LookUp, Moves
  <2>2. row \in AttemptRow /\ row.token = attempt[a].token /\ row.stage = "checked"
        /\ row.answer = attempt[a].answer
    BY <1>1 DEF AttemptRow, Stage
  <2>3. token[row.token] # Unminted
    BY <1>3, <2>2 DEF Usable
  <2>4. row.answer = "created" => a \in DOMAIN device
    BY <1>1, <2>2 DEF EInv, AnswersFollowCommit
  <2> QED
    BY <1>1, <1>2, <2>1, <2>2, <2>3, <2>4, AttemptMoves
<1>4. CASE ~Usable(attempt[a].token)
  <2> DEFINE row == [attempt[a] EXCEPT !.stage = "done", !.answer = "refused"]
  <2>1. attempt' = [attempt EXCEPT ![a] = row]
    BY <1>4 DEF LookUp, Replies
  <2>2. row \in AttemptRow /\ row.token = attempt[a].token /\ row.stage = "done"
        /\ row.answer = "refused"
    BY <1>1 DEF AttemptRow, Stage, Answer
  <2> QED
    BY <1>1, <1>2, <2>1, <2>2, AttemptMoves
<1> QED
  BY <1>3, <1>4

\* The conditional update takes a row that is free and nobody's.
LEMMA TokenTaken ==
    ASSUME EInv, NEW a \in Attempts, Consume(a)
    PROVE  EInv'
<1>1. a \in Made /\ attempt[a] # Unmade /\ attempt[a] \in AttemptRow
      /\ attempt[a].stage = "checked"
  BY MadeIs DEF Consume, Stands
<1>2. UNCHANGED <<now, server, token, device, disk, app>>
  BY DEF Consume
<1>3. CASE Consumed(attempt[a].token)
  <2> DEFINE row == [attempt[a] EXCEPT !.stage = "done", !.answer = "refused"]
  <2>1. attempt' = [attempt EXCEPT ![a] = row]
    BY <1>3 DEF Consume, Replies
  <2>2. row \in AttemptRow /\ row.token = attempt[a].token /\ row.stage = "done"
        /\ row.answer = "refused"
    BY <1>1 DEF AttemptRow, Stage, Answer
  <2> QED
    BY <1>1, <1>2, <2>1, <2>2, AttemptMoves
<1>4. CASE ~Consumed(attempt[a].token)
  <2> DEFINE row == [attempt[a] EXCEPT !.stage = "consumed"]
  <2>1. attempt' = [attempt EXCEPT ![a] = row]
    BY <1>4 DEF Consume, Moves
  <2>2. row \in AttemptRow /\ row.token = attempt[a].token /\ row.stage = "consumed"
        /\ row.answer = attempt[a].answer
    BY <1>1 DEF AttemptRow, Stage
  <2>3. token[row.token] # Unminted /\ token[row.token].consumed_by = None
    BY <1>1, <1>4, <2>2 DEF EInv, CheckedIsMinted, Consumed
  <2>4. \A b \in Attempts \ {a} :
            (attempt[b] # Unmade /\ attempt[b].stage \in {"consumed", "inserted"})
               => attempt[b].token # row.token
    BY <2>2 DEF Consume, Locked, InTransaction, Made
  <2>5. row.answer = "created" => a \in DOMAIN device
    BY <1>1, <2>2 DEF EInv, AnswersFollowCommit
  <2> QED
    BY <1>1, <1>2, <2>1, <2>2, <2>3, <2>4, <2>5, AttemptMoves
<1> QED
  BY <1>3, <1>4

LEMMA RowInserted ==
    ASSUME EInv, NEW a \in Attempts, Insert(a)
    PROVE  EInv'
<1> DEFINE row == [attempt[a] EXCEPT !.stage = "inserted"]
<1>1. a \in Made /\ attempt[a] # Unmade /\ attempt[a] \in AttemptRow
      /\ attempt[a].stage = "consumed"
  BY MadeIs DEF Insert, Stands
<1>2. attempt' = [attempt EXCEPT ![a] = row]
      /\ UNCHANGED <<now, server, token, device, disk, app>>
  BY DEF Insert, Moves
<1>3. row \in AttemptRow /\ row.token = attempt[a].token /\ row.stage = "inserted"
      /\ row.answer = attempt[a].answer
  BY <1>1 DEF AttemptRow, Stage
<1>4. token[row.token] # Unminted /\ token[row.token].consumed_by = None
  BY <1>1, <1>3 DEF EInv, CheckedIsMinted, LocksExclusive
<1>5. \A b \in Attempts \ {a} :
          (attempt[b] # Unmade /\ attempt[b].stage \in {"consumed", "inserted"})
             => attempt[b].token # row.token
  BY <1>1, <1>3 DEF EInv, LocksExclusive
<1>6. row.answer = "created" => a \in DOMAIN device
  BY <1>1, <1>3 DEF EInv, AnswersFollowCommit
<1> QED
  BY <1>1, <1>2, <1>3, <1>4, <1>5, <1>6, AttemptMoves

\* A query that fails outside a commit, a till that no longer listens.
LEMMA AttemptEnds ==
    ASSUME EInv, NEW a \in Attempts, attempt[a] # Unmade,
           \/ attempt' = [attempt EXCEPT ![a].stage = "done", ![a].answer = "unavailable"]
           \/ attempt' = [attempt EXCEPT ![a].heard = FALSE],
           UNCHANGED <<now, server, token, device, disk, app>>
    PROVE  EInv'
<1>1. attempt[a] \in AttemptRow
  BY AttemptIs
<1>2. CASE attempt' = [attempt EXCEPT ![a].stage = "done", ![a].answer = "unavailable"]
  <2> DEFINE row == [attempt[a] EXCEPT !.stage = "done", !.answer = "unavailable"]
  <2>1. attempt' = [attempt EXCEPT ![a] = row]
    BY <1>2
  <2>2. row \in AttemptRow /\ row.token = attempt[a].token /\ row.stage = "done"
        /\ row.answer = "unavailable"
    BY <1>1 DEF AttemptRow, Stage, Answer
  <2> QED
    BY <2>1, <2>2, AttemptMoves
<1>3. CASE attempt' = [attempt EXCEPT ![a].heard = FALSE]
  <2> DEFINE row == [attempt[a] EXCEPT !.heard = FALSE]
  <2>1. attempt' = [attempt EXCEPT ![a] = row]
    BY <1>3
  <2>2. row \in AttemptRow /\ row.token = attempt[a].token /\ row.stage = attempt[a].stage
        /\ row.answer = attempt[a].answer
    BY <1>1 DEF AttemptRow
  <2>3. row.answer = "created" => a \in DOMAIN device
    BY <2>2 DEF EInv, AnswersFollowCommit
  <2>4. row.stage = "checked" => token[row.token] # Unminted
    BY <2>2 DEF EInv, CheckedIsMinted
  <2>5. row.stage \in {"consumed", "inserted"} =>
            /\ token[row.token] # Unminted
            /\ token[row.token].consumed_by = None
            /\ \A b \in Attempts \ {a} :
                  (attempt[b] # Unmade /\ attempt[b].stage \in {"consumed", "inserted"})
                     => attempt[b].token # row.token
    BY <2>2 DEF EInv, CheckedIsMinted, LocksExclusive
  <2> QED
    BY <2>1, <2>2, <2>3, <2>4, <2>5, AttemptMoves
<1> QED
  BY <1>2, <1>3

\* The commit: the token names the new row, and every older row keeps its own,
\* since the transaction had the token to itself.
LEMMA Committed ==
    ASSUME EInv, NEW a \in Attempts, attempt[a] # Unmade, attempt[a].stage = "inserted",
           Commits(a), NEW answer \in Answer,
           attempt' = [attempt EXCEPT ![a].stage = "done", ![a].answer = answer],
           UNCHANGED <<now, server, disk, app>>
    PROVE  EInv'
<1> DEFINE k == attempt[a].token
           row == [attempt[a] EXCEPT !.stage = "done", !.answer = answer]
<1>1. attempt[a] \in AttemptRow /\ k \in Tokens
  BY AttemptIs DEF AttemptRow
<1>2. attempt' = [attempt EXCEPT ![a] = row]
  OBVIOUS
<1>3. row \in AttemptRow /\ row.token = k /\ row.stage = "done" /\ row.answer = answer
      /\ row # Unmade
  BY <1>1 DEF AttemptRow, Stage, Unmade
<1> HIDE DEF row
<1>4. token[k] \in TokenRow /\ token[k].consumed_by = None /\ token[k] # Unminted
  BY <1>1 DEF EInv, ETypeOK, CheckedIsMinted, LocksExclusive
<1>5. /\ token' \in [Tokens -> {Unminted} \cup TokenRow]
      /\ token'[k] \in TokenRow /\ token'[k] # Unminted
      /\ token'[k].consumed_by = ConsumedBy(a)
      /\ \A j \in Tokens \ {k} : token'[j] = token[j]
  <2>1. token' = [token EXCEPT ![k].consumed_by = ConsumedBy(a)]
    BY DEF Commits, ConsumedBy
  <2>2. [token[k] EXCEPT !.consumed_by = ConsumedBy(a)] \in TokenRow
    BY <1>4 DEF TokenRow, ConsumedBy
  <2>3. [token[k] EXCEPT !.consumed_by = ConsumedBy(a)].consumed_by = ConsumedBy(a)
    BY <1>4 DEF TokenRow
  <2>4. \A r \in TokenRow : r # Unminted
    BY DEF TokenRow, Unminted
  <2> QED
    BY <1>1, <2>1, <2>2, <2>3, <2>4 DEF EInv, ETypeOK
<1>6. /\ DOMAIN device' = DOMAIN device \cup {a}
      /\ device'[a] = DeviceRow(a)
      /\ \A d \in DOMAIN device \ {a} : device'[d] = device[d]
      /\ device' = [d \in DOMAIN device' |-> device'[d]]
  BY DEF Commits
<1>7. /\ attempt' \in [Attempts -> {Unmade} \cup AttemptRow]
      /\ attempt'[a] = row
      /\ \A b \in Attempts \ {a} : attempt'[b] = attempt[b]
  BY <1>2, <1>3, ZenonT(60) DEF EInv, ETypeOK
<1>8. \A d \in DOMAIN device : attempt[d].token # k /\ attempt[d].token \in Tokens
  <2> SUFFICES ASSUME NEW d \in DOMAIN device
               PROVE  attempt[d].token # k /\ attempt[d].token \in Tokens
    OBVIOUS
  <2>1. attempt[d] # Unmade /\ d \in Attempts
        /\ token[attempt[d].token].consumed_by = ConsumedBy(d)
    BY DEF EInv, ETypeOK, RowsEarned
  <2>2. attempt[d].token \in Tokens
    BY <2>1, AttemptIs DEF AttemptRow
  <2>3. ConsumedBy(d) # None
    BY DEF ConsumedBy, None
  <2> QED
    BY <1>4, <2>1, <2>2, <2>3
<1>9. ETypeOK'
  <2>1. device' \in [DOMAIN device' -> [public_key : Attempts, revoked : BOOLEAN]]
    <3>1. DeviceRow(a) \in [public_key : Attempts, revoked : BOOLEAN]
      BY DEF DeviceRow
    <3>2. \A d \in DOMAIN device' : device'[d] \in [public_key : Attempts, revoked : BOOLEAN]
      BY <1>6, <3>1 DEF EInv, ETypeOK
    <3> QED
      BY <1>6, <3>2
  <2> QED
    BY <1>5, <1>6, <1>7, <2>1 DEF EInv, ETypeOK
<1>10. RowsEarned'
  <2> SUFFICES ASSUME NEW d \in DOMAIN device'
               PROVE  /\ attempt'[d] # Unmade
                      /\ device'[d].public_key = d
                      /\ token'[attempt'[d].token] # Unminted
                      /\ token'[attempt'[d].token].consumed_by = ConsumedBy(d)
    BY DEF RowsEarned, ConsumedBy
  <2>1. CASE d = a
    BY <2>1, <1>3, <1>5, <1>6, <1>7 DEF DeviceRow
  <2>2. CASE d # a
    BY <2>2, <1>5, <1>6, <1>7, <1>8 DEF EInv, ETypeOK, RowsEarned
  <2> QED
    BY <2>1, <2>2
<1>11. CheckedIsMinted'
  BY <1>3, <1>5, <1>7, AttemptIs DEF EInv, CheckedIsMinted, AttemptRow
<1>12. LocksExclusive'
  <2>1. \A b \in Attempts \ {a} :
            (attempt[b] # Unmade /\ attempt[b].stage \in {"consumed", "inserted"})
               => attempt[b].token # k /\ attempt[b].token \in Tokens
    BY AttemptIs DEF EInv, LocksExclusive, AttemptRow
  <2> QED
    BY <1>3, <1>5, <1>7, <2>1 DEF EInv, LocksExclusive
<1>13. AnswersFollowCommit' /\ HeldIsARow'
  BY <1>3, <1>6, <1>7 DEF EInv, AnswersFollowCommit, HeldIsARow
<1> QED
  BY <1>9, <1>10, <1>11, <1>12, <1>13 DEF EInv

\* When the server dies, open transactions are gone and nobody is answered.
LEMMA ServerCrashed ==
    ASSUME EInv, CrashServer
    PROVE  EInv'
<1>1. UNCHANGED <<now, token, device, disk, app>> /\ server' = Down
  BY DEF CrashServer
<1>2. ASSUME NEW a \in Attempts
      PROVE  /\ attempt'[a] \in {Unmade} \cup AttemptRow
             /\ attempt'[a] = Unmade <=> attempt[a] = Unmade
             /\ attempt[a] # Unmade =>
                  /\ attempt'[a].token = attempt[a].token
                  /\ attempt'[a].stage = "done"
                  /\ attempt'[a].answer = "created" => attempt[a].answer = "created"
  <2>1. CASE a \in Running
    <3>1. attempt'[a] = [attempt[a] EXCEPT !.stage = "done", !.answer = "unavailable"]
      BY <2>1 DEF CrashServer
    <3>2. attempt[a] \in AttemptRow /\ attempt[a] # Unmade
      BY <2>1, MadeIs DEF Running
    <3>3. attempt'[a] \in AttemptRow /\ attempt'[a].token = attempt[a].token
          /\ attempt'[a].stage = "done" /\ attempt'[a].answer = "unavailable"
      BY <3>1, <3>2 DEF AttemptRow, Stage, Answer
    <3>4. attempt'[a] # Unmade
      BY <3>3 DEF AttemptRow, Unmade
    <3> QED
      BY <3>2, <3>3, <3>4
  <2>2. CASE a \notin Running
    BY <2>2 DEF CrashServer, Running, Made, EInv, ETypeOK
  <2> QED
    BY <2>1, <2>2
<1>3. attempt' = [a \in Attempts |-> attempt'[a]]
  BY DEF CrashServer
<1>4. ETypeOK'
  BY <1>1, <1>2, <1>3 DEF EInv, ETypeOK
<1>5. RowsEarned' /\ AnswersFollowCommit'
  BY <1>1, <1>2 DEF EInv, ETypeOK, RowsEarned, AnswersFollowCommit
<1>6. CheckedIsMinted' /\ LocksExclusive'
  BY <1>1, <1>2 DEF EInv, CheckedIsMinted, LocksExclusive
<1>7. HeldIsARow'
  BY <1>1 DEF EInv, HeldIsARow
<1> QED
  BY <1>4, <1>5, <1>6, <1>7 DEF EInv

-----------------------------------------------------------------------------
(***************************************************************************)
(* The till's side.                                                        *)
(***************************************************************************)

\* A new attempt has no row yet: rows belong to attempts that were made.
LEMMA Enrolled ==
    ASSUME EInv, NEW t \in Tills, NEW k \in Tokens, NEW a \in Attempts, Enroll(t, k, a)
    PROVE  EInv'
<1>1. attempt[a] = Unmade /\ attempt' = [attempt EXCEPT ![a] = Presents(t, k)]
      /\ UNCHANGED <<now, server, token, device, disk, app>>
  BY DEF Enroll, Unused
<1>2. Presents(t, k) \in AttemptRow /\ Presents(t, k).stage = "presented"
      /\ Presents(t, k).answer = "none"
  BY DEF Presents, AttemptRow, Stage, Answer
<1>3. a \notin DOMAIN device
  BY <1>1 DEF EInv, RowsEarned
<1>4. attempt' \in [Attempts -> {Unmade} \cup AttemptRow] /\ attempt'[a] = Presents(t, k)
      /\ \A b \in Attempts \ {a} : attempt'[b] = attempt[b]
  BY <1>1, <1>2 DEF EInv, ETypeOK
<1>5. ETypeOK'
  BY <1>1, <1>4 DEF EInv, ETypeOK
<1>6. RowsEarned'
  BY <1>1, <1>3, <1>4 DEF EInv, ETypeOK, RowsEarned
<1>7. CheckedIsMinted' /\ LocksExclusive'
  BY <1>1, <1>2, <1>4 DEF EInv, CheckedIsMinted, LocksExclusive
<1>8. AnswersFollowCommit' /\ HeldIsARow'
  BY <1>1, <1>2, <1>4 DEF EInv, AnswersFollowCommit, HeldIsARow
<1> QED
  BY <1>5, <1>6, <1>7, <1>8 DEF EInv

\* What the till's side of the table leaves alone: whoever listens, nothing that
\* the invariant says of an attempt changes.
LEMMA OnlyListening ==
    ASSUME EInv,
           \A a \in Attempts :
               \/ attempt'[a] = attempt[a]
               \/ attempt[a] # Unmade /\ attempt'[a] = [attempt[a] EXCEPT !.heard = FALSE],
           attempt' = [a \in Attempts |-> attempt'[a]],
           UNCHANGED <<token, device>>
    PROVE  /\ attempt' \in [Attempts -> {Unmade} \cup AttemptRow]
           /\ RowsEarned' /\ CheckedIsMinted' /\ LocksExclusive' /\ AnswersFollowCommit'
<1>1. ASSUME NEW a \in Attempts
      PROVE  /\ attempt'[a] \in {Unmade} \cup AttemptRow
             /\ attempt'[a] = Unmade <=> attempt[a] = Unmade
             /\ attempt[a] # Unmade =>
                  /\ attempt'[a].token = attempt[a].token
                  /\ attempt'[a].stage = attempt[a].stage
                  /\ attempt'[a].answer = attempt[a].answer
  <2>1. CASE attempt'[a] = attempt[a]
    BY <2>1 DEF EInv, ETypeOK
  <2>2. CASE attempt[a] # Unmade /\ attempt'[a] = [attempt[a] EXCEPT !.heard = FALSE]
    <3>1. attempt[a] \in AttemptRow
      BY <2>2, AttemptIs
    <3>2. attempt'[a] \in AttemptRow /\ attempt'[a].token = attempt[a].token
          /\ attempt'[a].stage = attempt[a].stage /\ attempt'[a].answer = attempt[a].answer
      BY <2>2, <3>1 DEF AttemptRow
    <3>3. attempt'[a] # Unmade
      BY <3>2 DEF AttemptRow, Unmade
    <3> QED
      BY <2>2, <3>2, <3>3
  <2> QED
    BY <2>1, <2>2
<1>2. attempt' \in [Attempts -> {Unmade} \cup AttemptRow]
  BY <1>1
<1>3. RowsEarned' /\ AnswersFollowCommit'
  BY <1>1 DEF EInv, ETypeOK, RowsEarned, AnswersFollowCommit
<1>4. CheckedIsMinted' /\ LocksExclusive'
  BY <1>1 DEF EInv, CheckedIsMinted, LocksExclusive
<1> QED
  BY <1>2, <1>3, <1>4

\* The answer is success only if the row is there, and what the till keeps is
\* that row's id and key.
LEMMA Heard ==
    ASSUME EInv, NEW t \in Tills, NEW a \in Attempts, Hear(t, a)
    PROVE  EInv'
<1>1. attempt[a] # Unmade /\ UNCHANGED <<now, server, token, device>>
      /\ attempt' = [attempt EXCEPT ![a].heard = FALSE]
  BY DEF Hear, Asking, Made
<1>2. /\ attempt' \in [Attempts -> {Unmade} \cup AttemptRow]
      /\ RowsEarned' /\ CheckedIsMinted' /\ LocksExclusive' /\ AnswersFollowCommit'
  BY <1>1, OnlyListening DEF EInv, ETypeOK
<1>3. CASE attempt[a].answer = "created"
  <2>1. disk' = [disk EXCEPT ![t] = Torn] /\ app' = [app EXCEPT ![t] = Credentials(a, a)]
    BY <1>3 DEF Hear
  <2>2. a \in DOMAIN device
    BY <1>1, <1>3 DEF EInv, AnswersFollowCommit
  <2>3. Credentials(a, a) \in Held /\ Credentials(a, a).device_id = a
        /\ Credentials(a, a).secret_key = a
    BY DEF Credentials, Held
  <2>4. \A c \in Held : c # Torn
    BY DEF Held, Torn
  <2>5. ETypeOK'
    BY <1>1, <1>2, <2>1, <2>3 DEF EInv, ETypeOK
  <2>6. HeldIsARow'
    BY <1>1, <2>1, <2>2, <2>3, <2>4 DEF EInv, ETypeOK, HeldIsARow
  <2> QED
    BY <1>2, <2>5, <2>6 DEF EInv
<1>4. CASE attempt[a].answer # "created"
  <2>1. UNCHANGED <<disk, app>>
    BY <1>4 DEF Hear
  <2>2. ETypeOK' /\ HeldIsARow'
    BY <1>1, <1>2, <2>1 DEF EInv, ETypeOK, HeldIsARow
  <2> QED
    BY <1>2, <2>2 DEF EInv
<1> QED
  BY <1>3, <1>4

\* The file is filled with what the process holds, and a process opens with what
\* the file says: credentials pass from one to the other unchanged.
LEMMA CredentialsPass ==
    ASSUME EInv, NEW t \in Tills, Store(t) \/ StartTill(t)
    PROVE  EInv'
<1>1. UNCHANGED <<now, server, token, device, attempt>>
  BY DEF Store, StartTill
<1>2. ETypeOK' /\ HeldIsARow'
  <2>1. CASE Store(t)
    <3>1. app[t] \in Held /\ disk' = [disk EXCEPT ![t] = app[t]] /\ app' = app
      BY <2>1 DEF Store, EInv, ETypeOK
    <3> QED
      BY <1>1, <3>1 DEF EInv, ETypeOK, HeldIsARow
  <2>2. CASE StartTill(t)
    <3>1. disk[t] \in {None} \cup Held /\ app' = [app EXCEPT ![t] = disk[t]] /\ disk' = disk
      BY <2>2 DEF StartTill, EInv, ETypeOK
    <3> QED
      BY <1>1, <3>1 DEF EInv, ETypeOK, HeldIsARow
  <2> QED
    BY <2>1, <2>2
<1>3. RowsEarned' /\ CheckedIsMinted' /\ LocksExclusive' /\ AnswersFollowCommit'
  BY <1>1 DEF EInv, RowsEarned, CheckedIsMinted, LocksExclusive, AnswersFollowCommit
<1> QED
  BY <1>2, <1>3 DEF EInv

\* A till that stops listens no more and keeps its disk.
LEMMA TillStopped ==
    ASSUME EInv, NEW t \in Tills, StopTill(t)
    PROVE  EInv'
<1>1. UNCHANGED <<now, server, token, device, disk>> /\ app' = [app EXCEPT ![t] = Down]
  BY DEF StopTill
<1>2. \A a \in Attempts :
          \/ attempt'[a] = attempt[a]
          \/ attempt[a] # Unmade /\ attempt'[a] = [attempt[a] EXCEPT !.heard = FALSE]
  BY DEF StopTill, Asking, Made
<1>3. attempt' = [a \in Attempts |-> attempt'[a]]
  BY DEF StopTill
<1>4. /\ attempt' \in [Attempts -> {Unmade} \cup AttemptRow]
      /\ RowsEarned' /\ CheckedIsMinted' /\ LocksExclusive' /\ AnswersFollowCommit'
  BY <1>1, <1>2, <1>3, OnlyListening
<1>5. \A c \in Held : c # Down
  BY DEF Held, Down
<1>6. ETypeOK' /\ HeldIsARow'
  BY <1>1, <1>4, <1>5 DEF EInv, ETypeOK, HeldIsARow
<1> QED
  BY <1>4, <1>6 DEF EInv

-----------------------------------------------------------------------------
(***************************************************************************)
(* Every step keeps the invariant.                                         *)
(***************************************************************************)

\* What an attempt's handler may do, its failures included.
LEMMA HandlerSteps ==
    ASSUME EInv, NEW a \in Attempts,
           LookUp(a) \/ Consume(a) \/ Insert(a) \/ Commit(a) \/ FailQuery(a)
    PROVE  EInv'
<1>1. CASE LookUp(a)
  BY <1>1, LookedUp
<1>2. CASE Consume(a)
  BY <1>2, TokenTaken
<1>3. CASE Insert(a)
  BY <1>3, RowInserted
<1>4. CASE Commit(a)
  <2>1. attempt[a] # Unmade /\ attempt[a].stage = "inserted"
    BY <1>4 DEF Commit, Stands, Made
  <2>2. Commits(a) /\ attempt' = [attempt EXCEPT ![a].stage = "done", ![a].answer = "created"]
        /\ UNCHANGED <<now, server, disk, app>>
    BY <1>4 DEF Commit, Replies
  <2>3. "created" \in Answer
    BY DEF Answer
  <2> QED
    BY <2>1, <2>2, <2>3, Committed
<1>5. CASE FailQuery(a)
  <2>1. attempt[a] # Unmade /\ UNCHANGED <<now, server, disk, app>>
        /\ attempt' = [attempt EXCEPT ![a].stage = "done", ![a].answer = "unavailable"]
    BY <1>5 DEF FailQuery, Replies, Running, Made
  <2>2. CASE UNCHANGED <<token, device>>
    BY <2>1, <2>2, AttemptEnds
  <2>3. CASE attempt[a].stage = "inserted" /\ Commits(a)
    <3>1. "unavailable" \in Answer
      BY DEF Answer
    <3> QED
      BY <2>1, <2>3, <3>1, Committed
  <2> QED
    BY <1>5, <2>2, <2>3 DEF FailQuery
<1> QED
  BY <1>1, <1>2, <1>3, <1>4, <1>5

LEMMA EInvIsInductive == EInv /\ [ENext]_evars => EInv'
<1> SUFFICES ASSUME EInv, [ENext]_evars PROVE EInv'
  OBVIOUS
<1>1. ASSUME Tick PROVE EInv'
  BY <1>1, EnrolmentIdles DEF Tick, EInv, ETypeOK
<1>2. ASSUME Migrate PROVE EInv'
  BY <1>2, EnrolmentIdles DEF Migrate, EInv, ETypeOK
<1>3. ASSUME CrashServer PROVE EInv'
  BY <1>3, ServerCrashed
<1>4. ASSUME NEW c \in Setting, StartServer(c) PROVE EInv'
  BY <1>4, EnrolmentIdles DEF StartServer, EInv, ETypeOK
<1>5. ASSUME NEW k \in Tokens, NEW ttl \in Minutes, IssueToken(k, ttl) PROVE EInv'
  BY <1>5, TokenIssued
<1>6. ASSUME NEW d \in Device, Revoke(d) PROVE EInv'
  BY <1>6, DeviceRevoked
<1>7. ASSUME NEW t \in Tills, NEW k \in Tokens, NEW a \in Attempts, Enroll(t, k, a)
      PROVE  EInv'
  BY <1>7, Enrolled
<1>8. ASSUME NEW t \in Tills, NEW a \in Attempts, Hear(t, a) PROVE EInv'
  BY <1>8, Heard
<1>9. ASSUME NEW t \in Tills, NEW a \in Attempts, GiveUp(t, a) PROVE EInv'
  BY <1>9, AttemptEnds DEF GiveUp, Asking, Made
<1>10. ASSUME NEW t \in Tills, Store(t) \/ StartTill(t) PROVE EInv'
  BY <1>10, CredentialsPass
<1>11. ASSUME NEW t \in Tills, StopTill(t) PROVE EInv'
  BY <1>11, TillStopped
<1>12. ASSUME UNCHANGED evars PROVE EInv'
  BY <1>12, EnrolmentIdles DEF evars, EInv, ETypeOK
<1> QED
  BY <1>1, <1>2, <1>3, <1>4, <1>5, <1>6, <1>7, <1>8, <1>9, <1>10, <1>11, <1>12, HandlerSteps
     DEF ENext

-----------------------------------------------------------------------------
\* The parts add up to the property: every row names its token, and a device
\* that holds credentials holds a row's, so a live row verifies it.
LEMMA EInvImpliesOneDevicePerToken == EInv => OneDevicePerToken
<1> SUFFICES ASSUME EInv PROVE OneDevicePerToken
  OBVIOUS
<1>1. ASSUME NEW d \in DOMAIN device
      PROVE  \E k \in Tokens :
                token[k] # Unminted /\ token[k].consumed_by = [tag |-> "device", id |-> d]
  <2>1. attempt[d] # Unmade /\ d \in Attempts /\ token[attempt[d].token] # Unminted
        /\ token[attempt[d].token].consumed_by = [tag |-> "device", id |-> d]
    BY DEF EInv, ETypeOK, RowsEarned, ConsumedBy
  <2>2. attempt[d].token \in Tokens
    BY <2>1, AttemptIs DEF AttemptRow
  <2> QED
    BY <2>1, <2>2
<1>2. ASSUME NEW t \in Tills, NEW c \in {disk[t], app[t]} \ {None, Torn, Down}
      PROVE  /\ c.device_id \in DOMAIN device
             /\ server # Down /\ ~ device[c.device_id].revoked => Verifies(c, 0)
  <2>1. c \in Held /\ (disk[t] = c \/ app[t] = c)
    BY DEF EInv, ETypeOK
  <2>2. c.device_id \in DOMAIN device /\ c.secret_key = c.device_id
    BY <2>1 DEF EInv, HeldIsARow
  <2>3. device[c.device_id].public_key = c.secret_key
    BY <2>2 DEF EInv, RowsEarned
  <2>4. ASSUME server # Down PROVE 0 <= server.skew
    BY <2>4, EnrolmentAssumption DEF EInv, ETypeOK
  <2> QED
    BY <2>2, <2>3, <2>4 DEF Verifies
<1> QED
  BY <1>1, <1>2 DEF OneDevicePerToken

\* In every behaviour: each row of the device table is one that a minted token
\* names as its consumer and its own attempt's key, and each transaction holds
\* its token alone (enroll.rs:99-127).
THEOREM EnrolmentHolds == ESpec => []EInv
<1>1. EInit => EInv
  BY EnrolmentStarts
<1>2. EInv /\ [ENext]_evars => EInv'
  BY EInvIsInductive
<1> QED
  BY <1>1, <1>2, PTL DEF ESpec

\* In every behaviour, for any number of tills, tokens, attempts and faults: a
\* device row is the one device some token names, and the credentials a till
\* holds are a row's, made with its key (enroll.rs:99-127, enrollment.rs:152).
THEOREM OneDevicePerTokenHolds == ESpec => []OneDevicePerToken
<1>1. EInv => OneDevicePerToken
  BY EInvImpliesOneDevicePerToken
<1> QED
  BY <1>1, EnrolmentHolds, PTL
=============================================================================
