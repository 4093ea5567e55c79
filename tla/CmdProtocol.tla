---------------------------- MODULE CmdProtocol ----------------------------
(***************************************************************************)
(* The command protocol between chronyc (client.c) and chronyd (cmdmon.c): *)
(* UDP requests that are sent again when no reply comes, tokens that let a *)
(* request be executed once, and replies kept for requests that were       *)
(* executed already.                                                       *)
(*                                                                         *)
(* A message may arrive at any later moment, twice, or never.  The hosts   *)
(* of the clients are allowed access and their clocks agree with the       *)
(* daemon's, which does not go back.  Fewer than REPLY_EXTEND_QUANTUM      *)
(* replies are kept at once.                                               *)
(***************************************************************************)
EXTENDS Integers, FiniteSets, FiniteSetsExt

CONSTANTS
  Client,
  Window,           \* tokens the registers hold, 32 in the code
  Margin,           \* TS_MARGIN
  MaxAge,           \* REPLY_MAXAGE
  max_retries,
  Kind,             \* commands given: subset of {"logon", "change", "query"}
  MaxSeq,           \* bound: requests of a client
  MaxEvents,        \* bound: requests, restarts and seconds together
  MaxTime,          \* bound: the daemon's clock
  MaxRestarts,      \* bound: restarts of the daemon
  InFlight,         \* bound: messages on their way
  MaxCopies         \* bound: messages the network duplicates

\* REQ_LOGON, the commands with PERMIT_AUTH and those with PERMIT_OPEN.
ASSUME CmdAssumption ==
  /\ Kind \subseteq {"logon", "change", "query"}
  /\ Window \in Nat \ {0} /\ Margin \in Nat /\ MaxAge \in Nat
  /\ max_retries \in Nat /\ MaxSeq \in Nat /\ MaxTime \in Nat /\ MaxRestarts \in Nat
  /\ MaxEvents \in Nat /\ InFlight \in Nat \ {0} /\ MaxCopies \in Nat

SPECIAL_UTOKEN == -1

\* A token no daemon issues: 0 before a client has one, all ones in a reply
\* without one.  Neither is ever accepted.
NoToken == 0

VARIABLES
  utoken,           \* daemon: differs in every run, the time of the start in the code
  token_base, next_token,   \* issue_pointer is next_token - token_base
  returned,         \* tokens from token_base up that came back
  kept,             \* kept_replies
  seen,             \* seen_ts_list
  client,           \* client: password known, utoken, token, sequence, request, n_attempts
  requests, replies,        \* the network, in each direction
  copies,           \* messages it has duplicated
  now,
  ran,              \* history: executions of each request: how often, in which run, when
  answer,           \* history: the reply each client accepted to its last request
  logons            \* history: tokens issued for each timestamp

daemon == <<utoken, token_base, next_token, returned, kept, seen>>
network == <<requests, replies, copies>>
vars == <<daemon, client, network, now, ran, answer, logons>>

None == [seq |-> 0]

Init ==
  /\ utoken = 1 /\ token_base = 1 /\ next_token = 1 /\ returned = {} /\ kept = {} /\ seen = {}
  /\ client = [c \in Client |-> [password |-> FALSE, utoken |-> 0, token |-> NoToken,
                                 sequence |-> 0, request |-> None, n_attempts |-> 0]]
  /\ requests = {} /\ replies = {} /\ copies = 0 /\ now = 0
  /\ ran = [c \in Client |-> [s \in 1 .. MaxSeq |-> [times |-> 0, utoken |-> 0, at |-> 0]]]
  /\ answer = [c \in Client |-> None] /\ logons = [x \in Client \X (1 .. MaxSeq) |-> 0]

-----------------------------------------------------------------------------
(* The network. *)

\* A message that arrives is gone, or a copy of it is still on its way.
Arrives(m, before, after) ==
  \/ after = before \ {m} /\ copies' = copies
  \/ after = before /\ copies < MaxCopies /\ copies' = copies + 1

Events == MapThenSumSet(LAMBDA c : client[c].sequence, Client) + utoken - 1 + now

Room == Cardinality(requests') + Cardinality(replies') <= InFlight

-----------------------------------------------------------------------------
(* Tokens. *)

\* shift_tokens: the base moves at least one place, and past every token
\* that came back.
ShiftTokens(base, back) ==
  Min({t \in base + 1 .. next_token : t = next_token \/ t \notin back})

\* Fault: only the base is compared.
NotTooOld(t) == t >= token_base /\ t < next_token

\* check_token's answer: issued, not too old and not returned before.
TokenOK(t) == t >= token_base /\ t < next_token /\ t \notin returned

\* check_token's effect on a token that is accepted.
BaseAfterCheck(t) ==
  IF t = token_base THEN ShiftTokens(token_base, returned \cup {t}) ELSE token_base

\* get_token: a full register loses its lowest token.
BaseAfterIssue(base, back) ==
  IF next_token - base = Window THEN ShiftTokens(base, back) ELSE base

-----------------------------------------------------------------------------
(* Timestamps of logons. *)

\* check_unique_ts drops what is older.
Recent(cells) == {x \in cells : ~(now - x.sec > Margin)}

\* ts_is_unique_and_not_stale
ValidTs(ts) ==
  /\ now - ts.sec < Margin /\ now - ts.sec > -Margin
  /\ ts \notin Recent(seen)

-----------------------------------------------------------------------------
(* Kept replies. *)

\* lookup_reply: the same request, in an attempt not seen before.
Matches(cell, m) ==
  /\ cell.tok = m.token /\ cell.msg_seq = m.seq
  /\ m.attempt > cell.attempt

\* Fault: the reply to the request that carried the token is discarded.
UnacknowledgedAll(t) == {}

\* token_acknowledged: the reply that carried this token arrived; stale ones go too.
Unacknowledged(t) == {x \in kept : x.next_tok # t /\ ~(now - x.ts > MaxAge)}

-----------------------------------------------------------------------------
(* read_from_cmd_socket *)

UtokenOK(m) == m.utoken = utoken
Accepted(m) == m.auth /\ UtokenOK(m) /\ TokenOK(m.token)
Resent(m) == m.auth /\ UtokenOK(m) /\ ~TokenOK(m.token)

Reply(m, reply) ==
  /\ Arrives(m, requests, requests')
  /\ replies' = replies \cup {reply}
  /\ Room

\* The saved reply is sent to whoever asks, with the length of the reply
\* without its authentication.
Again(m, reply) == [reply EXCEPT !.auth = FALSE, !.to = m.from]

SendAgain(m, cell) ==
  /\ Resent(m) /\ Matches(cell, m)
  /\ kept' = (kept \ {cell}) \cup {[cell EXCEPT !.attempt = m.attempt]}
  /\ Reply(m, Again(m, cell.rpy))
  /\ UNCHANGED <<utoken, token_base, next_token, returned, seen, client, now,
                 ran, answer, logons>>

\* permissions[] and the check against it.
Permitted(m) == m.kind \in {"query", "logon"} \/ Accepted(m)

\* The handler of a command that changes something calls it once.
Executed(m) ==
  IF m.kind = "change" /\ Permitted(m)
  THEN [ran EXCEPT ![m.from][m.seq] = [times |-> @.times + 1, utoken |-> utoken, at |-> now]]
  ELSE ran

\* A request that is not answered from the kept replies.
Process(m) ==
  LET logon == m.auth /\ m.utoken = SPECIAL_UTOKEN /\ m.kind = "logon"
      issue == Accepted(m) \/ (logon /\ ValidTs(m.ts))
      base1 == IF Accepted(m) THEN BaseAfterCheck(m.token) ELSE token_base
      back1 == IF Accepted(m) THEN returned \cup {m.token} ELSE returned
      base2 == IF issue THEN BaseAfterIssue(base1, back1) ELSE base1
      reply == [to |-> m.from, seq |-> m.seq, utoken |-> utoken, auth |-> m.auth,
                token |-> IF issue THEN next_token ELSE NoToken,
                status |-> IF m.kind = "logon" THEN IF issue THEN "success"
                                ELSE IF m.auth THEN "invalidts" ELSE "unauth"
                           ELSE IF Permitted(m) THEN "success" ELSE "unauth"]
  IN /\ ~(Resent(m) /\ \E cell \in kept : Matches(cell, m))
     /\ token_base' = base2 /\ returned' = {t \in back1 : t >= base2}
     /\ next_token' = IF issue THEN next_token + 1 ELSE next_token
     /\ seen' = IF logon THEN Recent(seen) \cup {m.ts} ELSE seen
     /\ kept' = IF Accepted(m)
                THEN Unacknowledged(m.token) \cup
                       {[tok |-> m.token, next_tok |-> next_token, msg_seq |-> m.seq,
                         attempt |-> m.attempt, ts |-> now, rpy |-> reply]}
                ELSE kept
     /\ Reply(m, reply)
     /\ ran' = Executed(m)
     /\ logons' = IF logon /\ issue THEN [logons EXCEPT ![<<m.from, m.seq>>] = @ + 1] ELSE logons
     /\ UNCHANGED <<utoken, client, now, answer>>

Receive(m) == (\E cell \in kept : SendAgain(m, cell)) \/ Process(m)

\* The daemon is stopped and started: CAM_Initialise in a new process.
Restart ==
  /\ utoken <= MaxRestarts /\ Events < MaxEvents
  /\ utoken' = utoken + 1 /\ token_base' = 1 /\ next_token' = 1 /\ returned' = {}
  /\ kept' = {} /\ seen' = {}
  /\ UNCHANGED <<client, network, now, ran, answer, logons>>

Tick ==
  /\ now < MaxTime /\ Events < MaxEvents /\ now' = now + 1
  /\ UNCHANGED <<daemon, client, network, ran, answer, logons>>

-----------------------------------------------------------------------------
(* submit_request *)

Send(request) ==
  /\ requests' = requests \cup {request}
  /\ Room

\* process_cmd_password: the timestamp of a logon is the time it was typed.
LogonTs(c, s, kind) == [sec |-> IF kind = "logon" THEN now ELSE 0, by |-> c, seq |-> s]

\* A command of the user.  A logon sets the password first and has no other
\* way to be authenticated than the special utoken.
Submit(c, kind) ==
  LET s == client[c].sequence + 1
      password == client[c].password \/ kind = "logon"
      special == password /\ (client[c].utoken = 0 \/ kind = "logon")
      request == [from |-> c, seq |-> s, kind |-> kind, attempt |-> 0, auth |-> password,
                  utoken |-> IF special THEN SPECIAL_UTOKEN ELSE client[c].utoken,
                  token |-> client[c].token,
                  ts |-> LogonTs(c, s, kind)]
  IN /\ client[c].request = None /\ s <= MaxSeq
     /\ Events < MaxEvents
     /\ client' = [client EXCEPT ![c].sequence = s, ![c].password = password,
                                 ![c].request = request, ![c].n_attempts = 0]
     /\ UNCHANGED replies /\ Send(request)
     /\ answer' = [answer EXCEPT ![c] = None]
     /\ UNCHANGED <<daemon, copies, now, ran, logons>>

\* Another attempt, or the end of a command that nobody answers.
TryAgain(c) ==
  LET n == client[c].n_attempts + 1
      request == [client[c].request EXCEPT !.attempt = n]
  IN IF n > max_retries
     THEN /\ client' = [client EXCEPT ![c].request = None, ![c].n_attempts = 0]
          /\ UNCHANGED requests
     ELSE /\ client' = [client EXCEPT ![c].request = request, ![c].n_attempts = n]
          /\ Send(request)

Timeout(c) ==
  /\ client[c].request # None
  /\ UNCHANGED replies /\ TryAgain(c)
  /\ UNCHANGED <<daemon, copies, now, ran, answer, logons>>

\* request_reply: what chronyc prints.
Printed(c, r) == [seq |-> client[c].request.seq, kind |-> client[c].request.kind, status |-> r.status]

\* Fault: a reply to an earlier request is taken.
BadSequenceNever(c, r) == FALSE
BadSequence(c, r) == r.seq # client[c].request.seq

\* A reply to another request is no reason to wait on: the request is sent again.
ReceiveBad(c, r) ==
  /\ r.to = c /\ client[c].request # None /\ BadSequence(c, r)
  /\ Arrives(r, replies, replies') /\ TryAgain(c)
  /\ UNCHANGED <<daemon, now, ran, answer, logons>>

\* The utoken is taken from any reply, the token from an authenticated one.
ReceiveReply(c, r) ==
  /\ r.to = c /\ client[c].request # None /\ ~BadSequence(c, r)
  /\ client' = [client EXCEPT ![c].request = None, ![c].n_attempts = 0,
                 ![c].utoken = r.utoken,
                 ![c].token = IF client[c].password /\ ~r.auth THEN @ ELSE r.token]
  /\ answer' = [answer EXCEPT ![c] = Printed(c, r)]
  /\ Arrives(r, replies, replies')
  /\ UNCHANGED <<daemon, requests, now, ran, logons>>

Lose ==
  /\ \/ \E m \in requests : requests' = requests \ {m} /\ UNCHANGED replies
     \/ \E r \in replies : replies' = replies \ {r} /\ UNCHANGED requests
  /\ UNCHANGED <<daemon, copies, client, now, ran, answer, logons>>

Next ==
  \/ \E m \in requests : Receive(m)
  \/ \E c \in Client :
       \/ \E kind \in Kind : Submit(c, kind)
       \/ Timeout(c)
       \/ \E r \in replies : ReceiveBad(c, r) \/ ReceiveReply(c, r)
  \/ Lose
  \/ Restart
  \/ Tick

Spec == Init /\ [][Next]_vars

-----------------------------------------------------------------------------
(* Properties. *)

\* A request that changes something is executed once at most, whatever the
\* network repeats or delays, which tokens are pushed out of the registers
\* and when the daemon is restarted (check_token, lookup_reply).
AtMostOnce == \A c \in Client, s \in 1 .. MaxSeq : ran[c][s].times <= 1

\* The success chronyc prints for a change is that of the very command it
\* sent: the daemon has executed it.
SuccessIsOwn ==
  \A c \in Client : answer[c] # None =>
    (answer[c].kind = "change" /\ answer[c].status = "success" => ran[c][answer[c].seq].times = 1)

\* While chronyc waits for the answer to a change the daemon has executed,
\* the reply is kept for its next attempt, unless it is stale or the daemon
\* was restarted: neither another client's token nor its own discards it.
RetryFindsReply ==
  \A c \in Client : LET r == client[c].request IN
    r # None =>
      (r.kind = "change" /\ ran[c][r.seq].times > 0 /\ ran[c][r.seq].utoken = utoken
         /\ now - ran[c][r.seq].at <= MaxAge
       => \E cell \in kept : cell.tok = r.token /\ cell.msg_seq = r.seq)

\* A logon gets one token from a run of the daemon, however often its packet
\* comes: the timestamp is remembered as long as it is accepted.
LogonOnce == \A x \in DOMAIN logons : logons[x] <= utoken

\* A command that changes something is executed once, and a logon gives one token,
\* whatever the network and chronyc repeat.
ExecutedOnce == AtMostOnce /\ LogonOnce
=============================================================================
