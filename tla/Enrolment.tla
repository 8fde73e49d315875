------------------------------ MODULE Enrolment ------------------------------
(***************************************************************************)
(* How a till comes to be a device.  An owner mints a token; a till makes  *)
(* a keypair and presents the token with the public half; the server burns *)
(* the token and creates the device row in one transaction, and its answer *)
(* is what the till writes to device.json.  Several attempts may run at    *)
(* once, on either side the process may die, and an answer may be lost     *)
(* after the transaction that earned it.                                   *)
(***************************************************************************)
EXTENDS Naturals, FiniteSets

CONSTANTS
    Tills,         \* machines that may enrol
    Tokens,        \* tokens an owner may mint
    Setting,       \* configurations the server may be started with
    Minutes,       \* for how long a token may be minted
    Attempts,      \* bound: attempts ever made; each has an id of its own
    MaxNow,        \* bound: the latest reading of the server's clock
    MaxFaults      \* bound: crashes, failed queries and lost answers together

ASSUME EnrolmentAssumption ==
    /\ Attempts \subseteq Nat
    /\ Minutes \subseteq Nat
    /\ \A c \in Setting : c # [tag |-> "down"] /\ c.skew \in Nat
    /\ MaxNow \in Nat
    /\ MaxFaults \in Nat

VARIABLES
    now,       \* the clock of the server and its database
    schema,    \* "behind" or "current": whether every migration is applied
    server,    \* the configuration it serves with, or Down
    token,     \* enrollment_token: per token its row, or Unminted
    device,    \* device: the rows, by id
    attempt,   \* per attempt, how far it has come
    disk,      \* device.json of every till
    app,       \* what every till's process is doing
    faults     \* how many faults have struck

evars == <<now, schema, server, token, device, attempt, disk, app, faults>>

None == [tag |-> "none"]
Down == [tag |-> "down"]
Unminted == [tag |-> "unminted"]

\* A till makes a fresh keypair and the server a fresh uuid for every attempt,
\* so the attempt's number stands for either.
Key == Attempts
Device == Attempts

Row(expires) == [tag |-> "row", expires |-> expires, consumed_by |-> None]
Consumed(t) == token[t].consumed_by # None
DeviceRow(key) == [public_key |-> key, revoked |-> FALSE]
Credentials(d, key) == [tag |-> "credentials", device_id |-> d, secret_key |-> key]

Torn == [tag |-> "torn"]

\* Where an attempt stands: the till's side (asked, waiting for the answer) and
\* the handler's side of it; a till that gave up leaves the handler running.
Stage == {"presented", "checked", "consumed", "inserted", "done"}
Answer == {"none", "refused", "unavailable", "created"}
Unmade == [tag |-> "unmade"]
Presents(t, k) == [tag |-> "made", till |-> t, token |-> k, stage |-> "presented",
                   answer |-> "none", heard |-> TRUE]
Made == {a \in Attempts : attempt[a] # Unmade}
Running == {a \in Made : attempt[a].stage # "done"}

\* Handlers inside a transaction; a pooled connection belongs to each, and one
\* that updated a token's row holds its lock until it commits or rolls back.
InTransaction == {a \in Made : attempt[a].stage \in {"consumed", "inserted"}}
Locked(k) == \E a \in InTransaction : attempt[a].token = k

\* Config::validate
ValidConfig(c) ==
    /\ c.connections > 0
    /\ c.ttl > 0
    /\ c.skew \in 1..c.hour

\* pending_migrations is empty
SchemaReady == schema = "current"

\* check_token_usable: consumption before expiry.
Usable(k) ==
    /\ token[k] # Unminted
    /\ ~ Consumed(k)
    /\ now < token[k].expires

\* verify_request: a live row, a clock within the window, and a signature by
\* the key the row was created with.
Verifies(c, skew) ==
    /\ c.device_id \in DOMAIN device
    /\ ~ device[c.device_id].revoked
    /\ skew <= server.skew
    /\ device[c.device_id].public_key = c.secret_key

-----------------------------------------------------------------------------
EInit ==
    /\ now = 0
    /\ schema = "behind"
    /\ server = Down
    /\ token = [k \in Tokens |-> Unminted]
    /\ device = << >>
    /\ attempt = [a \in Attempts |-> Unmade]
    /\ disk = [t \in Tills |-> None]
    /\ app = [t \in Tills |-> Down]
    /\ faults = 0

Tick ==
    /\ now < MaxNow
    /\ now' = now + 1
    /\ UNCHANGED <<schema, server, token, device, attempt, disk, app, faults>>

(***************************************************************************)
(* The server's process.                                                   *)
(***************************************************************************)

\* sahl-server migrate, run with a role of its own
Migrate ==
    /\ schema = "behind"
    /\ schema' = "current"
    /\ UNCHANGED <<now, server, token, device, attempt, disk, app, faults>>

\* It serves only a valid configuration over a schema that is up to date.
StartServer(c) ==
    /\ server = Down
    /\ ValidConfig(c)
    /\ SchemaReady
    /\ server' = c
    /\ UNCHANGED <<now, schema, token, device, attempt, disk, app, faults>>

\* Transactions that were open roll back; nobody is answered.
CrashServer ==
    /\ server # Down
    /\ faults < MaxFaults
    /\ faults' = faults + 1
    /\ server' = Down
    /\ attempt' = [a \in Attempts |->
                     IF a \in Running
                     THEN [attempt[a] EXCEPT !.stage = "done", !.answer = "unavailable"]
                     ELSE attempt[a]]
    /\ UNCHANGED <<now, schema, token, device, disk, app>>

\* issue-token: a process of its own, straight to the database.
IssueToken(k, ttl) ==
    /\ SchemaReady
    /\ token[k] = Unminted
    /\ token' = [token EXCEPT ![k] = Row(now + ttl)]
    /\ UNCHANGED <<now, schema, server, device, attempt, disk, app, faults>>

\* Nothing in the program sets revoked_at; an operator does.
Revoke(d) ==
    /\ d \in DOMAIN device
    /\ ~ device[d].revoked
    /\ device' = [device EXCEPT ![d].revoked = TRUE]
    /\ UNCHANGED <<now, schema, server, token, attempt, disk, app, faults>>

(***************************************************************************)
(* The handler of one attempt.                                             *)
(***************************************************************************)

Stands(a, stage) == server # Down /\ a \in Made /\ attempt[a].stage = stage

Replies(a, answer) ==
    attempt' = [attempt EXCEPT ![a].stage = "done", ![a].answer = answer]

Moves(a, stage) == attempt' = [attempt EXCEPT ![a].stage = stage]

\* The lookup by digest, and the check of what it found.
LookUp(a) ==
    /\ Stands(a, "presented")
    /\ IF Usable(attempt[a].token) THEN Moves(a, "checked") ELSE Replies(a, "refused")
    /\ UNCHANGED <<now, schema, server, token, device, disk, app, faults>>

\* Faulty variant: the UPDATE without "AND consumed_at IS NULL".
ConsumesAnyway(a) ==
    /\ Stands(a, "checked")
    /\ Cardinality(InTransaction) < server.connections
    /\ ~ Locked(attempt[a].token)
    /\ Moves(a, "consumed")
    /\ UNCHANGED <<now, schema, server, token, device, disk, app, faults>>

\* The conditional UPDATE, once the row is free: it takes no row that somebody
\* consumed meanwhile.
Consume(a) ==
    /\ Stands(a, "checked")
    /\ Cardinality(InTransaction) < server.connections
    /\ ~ Locked(attempt[a].token)
    /\ IF Consumed(attempt[a].token) THEN Replies(a, "refused") ELSE Moves(a, "consumed")
    /\ UNCHANGED <<now, schema, server, token, device, disk, app, faults>>

Insert(a) ==
    /\ Stands(a, "consumed")
    /\ Moves(a, "inserted")
    /\ UNCHANGED <<now, schema, server, token, device, disk, app, faults>>

\* Both writes become visible together.
Commits(a) ==
    /\ token' = [token EXCEPT ![attempt[a].token].consumed_by = [tag |-> "device", id |-> a]]
    /\ device' = [d \in DOMAIN device \cup {a} |->
                     IF d = a THEN DeviceRow(a) ELSE device[d]]

Commit(a) ==
    /\ Stands(a, "inserted")
    /\ Commits(a)
    /\ Replies(a, "created")
    /\ UNCHANGED <<now, schema, server, disk, app, faults>>

\* A query fails or the connection drops: the transaction rolls back, except
\* that a commit may have taken effect before its answer was lost.
FailQuery(a) ==
    /\ server # Down
    /\ a \in Running
    /\ faults < MaxFaults
    /\ faults' = faults + 1
    /\ Replies(a, "unavailable")
    /\ \/ UNCHANGED <<token, device>>
       \/ attempt[a].stage = "inserted" /\ Commits(a)
    /\ UNCHANGED <<now, schema, server, disk, app>>

(***************************************************************************)
(* The till.                                                               *)
(***************************************************************************)

Asking(t, a) == a \in Made /\ attempt[a].till = t /\ attempt[a].heard
Busy(t) == \E a \in Attempts : Asking(t, a)

\* The next attempt is the lowest number not yet used.
Unused(a) == attempt[a] = Unmade /\ \A b \in Attempts : b < a => attempt[b] # Unmade

\* enroll: a keypair of its own for every attempt, and the request is sent.
Enroll(t, k, a) ==
    /\ server # Down
    /\ app[t] = None
    /\ ~ Busy(t)
    /\ Unused(a)
    /\ attempt' = [attempt EXCEPT ![a] = Presents(t, k)]
    /\ UNCHANGED <<now, schema, server, token, device, disk, app, faults>>

\* The answer arrives.  Any but success ends the attempt; on success the file
\* is opened for writing, which empties it.
Hear(t, a) ==
    /\ app[t] = None
    /\ Asking(t, a)
    /\ attempt[a].stage = "done"
    /\ attempt' = [attempt EXCEPT ![a].heard = FALSE]
    /\ IF attempt[a].answer = "created"
       THEN /\ disk' = [disk EXCEPT ![t] = Torn]
            /\ app' = [app EXCEPT ![t] = Credentials(a, a)]
       ELSE UNCHANGED <<disk, app>>
    /\ UNCHANGED <<now, schema, server, token, device, faults>>

\* ... and filled.
Store(t) ==
    /\ app[t] \notin {None, Down}
    /\ disk[t] = Torn
    /\ disk' = [disk EXCEPT ![t] = app[t]]
    /\ UNCHANGED <<now, schema, server, token, device, attempt, app, faults>>

\* Twenty seconds without an answer: the handler goes on.
GiveUp(t, a) ==
    /\ app[t] = None
    /\ Asking(t, a)
    /\ faults < MaxFaults
    /\ faults' = faults + 1
    /\ attempt' = [attempt EXCEPT ![a].heard = FALSE]
    /\ UNCHANGED <<now, schema, server, token, device, disk, app>>

\* run: it opens with what device.json says, unenrolled where there is none,
\* and not at all where the file cannot be read.
StartTill(t) ==
    /\ app[t] = Down
    /\ disk[t] # Torn
    /\ app' = [app EXCEPT ![t] = disk[t]]
    /\ UNCHANGED <<now, schema, server, token, device, attempt, disk, faults>>

\* The process ends, in the middle of whatever it was doing.
StopTill(t) ==
    /\ app[t] # Down
    /\ faults < MaxFaults
    /\ faults' = faults + 1
    /\ app' = [app EXCEPT ![t] = Down]
    /\ attempt' = [a \in Attempts |->
                     IF Asking(t, a) THEN [attempt[a] EXCEPT !.heard = FALSE] ELSE attempt[a]]
    /\ UNCHANGED <<now, schema, server, token, device, disk>>

ENext ==
    \/ Tick \/ Migrate \/ CrashServer
    \/ \E c \in Setting : StartServer(c)
    \/ \E k \in Tokens, ttl \in Minutes : IssueToken(k, ttl)
    \/ \E d \in Device : Revoke(d)
    \/ \E a \in Attempts :
         LookUp(a) \/ Consume(a) \/ Insert(a) \/ Commit(a) \/ FailQuery(a)
    \/ \E t \in Tills, k \in Tokens, a \in Attempts : Enroll(t, k, a)
    \/ \E t \in Tills, a \in Attempts : Hear(t, a) \/ GiveUp(t, a)
    \/ \E t \in Tills : Store(t) \/ StartTill(t) \/ StopTill(t)

ESpec == EInit /\ [][ENext]_evars

-----------------------------------------------------------------------------
\* However many tills present one token at once, and whatever fails meanwhile,
\* every device row is the one device some token names as its consumer; and the
\* credentials a till holds, in memory or on disk, are those of such a row, made
\* with that row's key, so a till that trades is a till the server verifies.
\* (enroll.rs:99-127: the update and the insert are one transaction, and the
\* answer follows the commit.)
OneDevicePerToken ==
    /\ \A d \in DOMAIN device : \E k \in Tokens :
         token[k] # Unminted /\ token[k].consumed_by = [tag |-> "device", id |-> d]
    /\ \A t \in Tills : \A c \in {disk[t], app[t]} \ {None, Torn, Down} :
         /\ c.device_id \in DOMAIN device
         /\ server # Down /\ ~ device[c.device_id].revoked => Verifies(c, 0)
=============================================================================
