--------------------------- MODULE ServicesProofs ---------------------------
(***************************************************************************)
(* Proofs about Services and the modules it is made of, part by part: the  *)
(* commands (CmdProtocol), the keys, the times entered by hand, the        *)
(* broadcasts, the address filter and the log of clients; at the end, the  *)
(* whole.                                                                  *)
(***************************************************************************)
EXTENDS Services, FiniteSetTheorems, SequenceTheorems, WellFoundedInduction, TLAPS

-----------------------------------------------------------------------------
(* The least and the largest of a set. *)

\* The least element of a set of natural numbers exists.
LEMMA MinInSet ==
  ASSUME NEW S \in SUBSET Nat, S # {}
  PROVE  Min(S) \in S /\ \A y \in S : Min(S) <= y
<1>1. PICK x \in S : \A y \in S : ~(<<y, x>> \in OpToRel(<, Nat))
  BY NatLessThanWellFounded, WFMin, Zenon
<1>2. \A y \in S : <<y, x>> \notin {p \in Nat \X Nat : p[1] < p[2]}
  BY <1>1 DEF OpToRel
<1>3. ASSUME NEW y \in S PROVE x <= y
  <2>1. <<y, x>> \in Nat \X Nat /\ x \in Nat /\ y \in Nat
    OBVIOUS
  <2>2. ~(<<y, x>>[1] < <<y, x>>[2])
    BY <1>2, <2>1
  <2> QED BY <2>1, <2>2
<1> QED BY <1>3 DEF Min

LEMMA MaxInSet ==
  ASSUME NEW N \in Nat, NEW S \in SUBSET (0 .. N), S # {}
  PROVE  Max(S) \in S /\ \A y \in S : Max(S) >= y
<1> DEFINE T == {N - x : x \in S}
<1>1. T \in SUBSET Nat /\ T # {}
  <2>1. \A x \in S : N - x \in Nat
    OBVIOUS
  <2> QED BY <2>1
<1>2. Min(T) \in T /\ \A y \in T : Min(T) <= y
  BY <1>1, MinInSet
<1>3. PICK x \in S : Min(T) = N - x
  BY <1>2
<1>4. \A y \in S : x >= y
  <2> TAKE y \in S
  <2>1. N - y \in T
    OBVIOUS
  <2>2. N - x <= N - y
    BY <1>2, <1>3, <2>1
  <2> QED BY <2>2
<1> HIDE DEF T
<1> QED BY <1>4 DEF Max

-----------------------------------------------------------------------------
(* The commands: the inductive invariant. *)

Request == [from : Client, seq : 1 .. MaxSeq, kind : {"logon", "change", "query"}, attempt : Nat,
            auth : BOOLEAN, utoken : Int, token : Nat, ts : [sec : Nat, by : Client, seq : Nat]]
ReplyType == [to : Client, seq : 1 .. MaxSeq, utoken : Nat, auth : BOOLEAN, token : Nat,
              status : {"success", "unauth", "invalidts"}]
Cell == [tok : Nat, next_tok : Nat, msg_seq : 1 .. MaxSeq, attempt : Nat, ts : Nat, rpy : ReplyType]
State == [password : BOOLEAN, utoken : Nat, token : Nat, sequence : 0 .. MaxSeq,
          request : Request \cup {None}, n_attempts : Nat]
Printable == [seq : 1 .. MaxSeq, kind : {"logon", "change", "query"},
              status : {"success", "unauth", "invalidts"}]

TypeOK ==
  /\ utoken \in Nat \ {0} /\ token_base \in Nat \ {0} /\ next_token \in Nat
  /\ token_base <= next_token /\ returned \subseteq Nat
  /\ kept \subseteq Cell
  /\ client \in [Client -> State]
  /\ requests \subseteq Request /\ replies \subseteq ReplyType /\ now \in Nat
  /\ ran \in [Client -> [1 .. MaxSeq -> [times : Nat, utoken : Nat, at : Nat]]]
  /\ answer \in [Client -> Printable \cup {None}]
  /\ logons \in [Client \X (1 .. MaxSeq) -> Nat]

\* A request without the number of its attempt, and all that may still arrive or
\* be sent again.
Identity(m) == [m EXCEPT !.attempt = 0]
Waiting == {c \in Client : client[c].request # None}
Sent == {Identity(m) : m \in requests} \cup {Identity(client[c].request) : c \in Waiting}

\* All replies that may still arrive.
Given == replies \cup {cell.rpy : cell \in kept}

\* A client waits for its last request only, which it has made of what it knows;
\* all packets with its number are attempts of it.
RequestsKnown ==
  /\ \A c \in Waiting :
       /\ client[c].request.from = c /\ client[c].request.seq = client[c].sequence
       /\ client[c].request.auth = client[c].password /\ client[c].request.token = client[c].token
       /\ client[c].request.utoken \in {SPECIAL_UTOKEN, client[c].utoken}
  /\ \A m \in Sent : m.seq <= client[m.from].sequence /\ m.utoken <= utoken
  /\ \A m1, m2 \in Sent : m1.from = m2.from /\ m1.seq = m2.seq => m1 = m2
  /\ \A c \in Client : client[c].utoken <= utoken

\* A reply is to a request that was made, by this run of the daemon or an earlier one.
RepliesKnown ==
  \A r \in Given : r.seq <= client[r.to].sequence /\ r.utoken <= utoken

\* A token that has come back is not accepted again.
Burnt(t) == t < token_base \/ t \in returned

\* A request that was executed is not accepted again: its token is burnt, or
\* belongs to an earlier run.
ExecutedAreBurnt ==
  \A c \in Client, s \in 1 .. MaxSeq :
    /\ ran[c][s].times <= 1 /\ ran[c][s].utoken <= utoken /\ ran[c][s].at <= now
    /\ s > client[c].sequence => ran[c][s].times = 0
    /\ ran[c][s].times = 1 => \A m \in Sent :
         m.from = c /\ m.seq = s => m.utoken = ran[c][s].utoken /\ (m.utoken = utoken => Burnt(m.token))

\* A logon that gave a token in this run is remembered, or too old.
LogonsAreSeen ==
  \A c \in Client, s \in 1 .. MaxSeq :
    /\ logons[<<c, s>>] <= utoken
    /\ s > client[c].sequence => logons[<<c, s>>] = 0
    /\ logons[<<c, s>>] = utoken => \A m \in Sent :
         m.from = c /\ m.seq = s => m.ts \in seen \/ now - m.ts.sec > Margin

\* A reply that tells of success is true.
RepliesAreTrue ==
  \A r \in Given, m \in Sent :
    m.from = r.to /\ m.seq = r.seq =>
      /\ m.kind = "change" /\ r.status = "success" => ran[r.to][r.seq].times = 1
      /\ m.auth /\ ~r.auth => m.utoken = r.utoken

\* A token of this run belongs to the client it was issued to, which uses it for
\* later requests only.
TokensAreOwned ==
  /\ \A r \in Given : r.utoken = utoken => r.token < next_token
  /\ \A c \in Client : client[c].utoken = utoken => client[c].token < next_token
  /\ \A r1, r2 \in Given :
       r1.utoken = utoken /\ r2.utoken = utoken /\ r1.token = r2.token /\ r1.token # NoToken =>
         r1.to = r2.to /\ r1.seq = r2.seq
  /\ \A r \in Given, c \in Client :
       r.utoken = utoken /\ client[c].utoken = utoken /\ r.token = client[c].token /\ r.token # NoToken =>
         r.to = c /\ (c \in Waiting => r.seq < client[c].request.seq)
  /\ \A r \in Given, m \in Sent :
       r.utoken = utoken /\ m.utoken = utoken /\ r.token = m.token /\ r.token # NoToken =>
         r.to = m.from /\ r.seq < m.seq

\* A client that knows a token of this run or will be told it, or that has sent a
\* request with it.
Holds(c, t) ==
  \/ \E r \in Given : r.utoken = utoken /\ r.to = c /\ r.token = t
  \/ \E m \in Sent : m.utoken = utoken /\ m.from = c /\ m.token = t
  \/ client[c].utoken = utoken /\ client[c].token = t
  \/ \E cell \in kept : cell.rpy.to = c /\ cell.tok = t

\* No two clients ever have the same token.
OneHolder ==
  \A c \in Client, t \in Nat \ {NoToken} :
    Holds(c, t) => t < next_token /\ \A d \in Client : Holds(d, t) => c = d

\* A kept reply is one of this run, to a request that carried its token.
KeptAreCurrent ==
  \A cell \in kept :
    /\ cell.rpy.seq = cell.msg_seq /\ cell.rpy.token = cell.next_tok /\ cell.next_tok # NoToken /\ cell.tok # NoToken
    /\ cell.rpy.utoken = utoken
    /\ \A m \in Sent : m.from = cell.rpy.to /\ m.seq = cell.msg_seq => m.utoken = utoken /\ m.token = cell.tok

\* What RetryFindsReply says, of the reply to this very client.
ExecutedAreKept ==
  \A c \in Waiting : LET r == client[c].request IN
    r.kind = "change" /\ ran[c][r.seq].times > 0 /\ ran[c][r.seq].utoken = utoken
      /\ now - ran[c][r.seq].at <= MaxAge
    => \E cell \in kept : /\ cell.tok = r.token /\ cell.msg_seq = r.seq
                          /\ cell.rpy.to = c /\ cell.ts = ran[c][r.seq].at

IInv ==
  /\ TypeOK /\ RequestsKnown /\ RepliesKnown /\ ExecutedAreBurnt /\ LogonsAreSeen
  /\ RepliesAreTrue /\ TokensAreOwned /\ OneHolder /\ KeptAreCurrent /\ ExecutedAreKept
  /\ SuccessIsOwn

-----------------------------------------------------------------------------
(* The commands: tokens. *)


\* shift_tokens moves the base forward, not past the tokens issued.
LEMMA ShiftMoves ==
  ASSUME next_token \in Nat, NEW base \in Nat, NEW back, base < next_token
  PROVE  ShiftTokens(base, back) \in base + 1 .. next_token
<1> DEFINE S == {t \in base + 1 .. next_token : t = next_token \/ t \notin back}
<1>1. S \in SUBSET Nat /\ next_token \in S
  OBVIOUS
<1>2. Min(S) \in S
  BY <1>1, MinInSet
<1> QED BY <1>2 DEF ShiftTokens

\* The registers after a request that is processed: tokens that were burnt stay
\* so, the one that was accepted was not and is now.
LEMMA TokensAfter ==
  ASSUME TypeOK, NEW m \in requests, Process(m)
  PROVE  /\ token_base' \in Nat \ {0} /\ next_token' \in {next_token, next_token + 1}
         /\ token_base' <= next_token' /\ returned' \subseteq Nat
         /\ \A t \in Int : Burnt(t) => Burnt(t)'
         /\ Accepted(m) => ~Burnt(m.token) /\ Burnt(m.token)' /\ m.token \in Nat /\ next_token' = next_token + 1
<1> DEFINE issue == Accepted(m) \/ (m.auth /\ m.utoken = SPECIAL_UTOKEN /\ m.kind = "logon" /\ ValidTs(m.ts))
           base1 == IF Accepted(m) THEN BaseAfterCheck(m.token) ELSE token_base
           back1 == IF Accepted(m) THEN returned \cup {m.token} ELSE returned
           base2 == IF issue THEN BaseAfterIssue(base1, back1) ELSE base1
<1>1. token_base \in Nat \ {0} /\ next_token \in Nat /\ token_base <= next_token /\ returned \subseteq Nat
  BY DEF TypeOK
<1>2. m.token \in Nat
  BY DEF TypeOK, Request
<1>3. Accepted(m) => token_base <= m.token /\ m.token < next_token /\ m.token \notin returned
  BY DEF Accepted, TokenOK
<1>4. base1 \in Nat /\ token_base <= base1 /\ base1 <= next_token /\ (Accepted(m) /\ m.token = token_base => token_base < base1)
  BY <1>1, <1>2, <1>3, ShiftMoves DEF BaseAfterCheck
<1>5. base2 \in Nat /\ base1 <= base2 /\ base2 <= next_token
  BY <1>1, <1>4, ShiftMoves, CmdAssumption DEF BaseAfterIssue, CmdAssumption
<1>6. /\ token_base' = base2 /\ returned' = {t \in back1 : t >= base2}
      /\ next_token' = IF issue THEN next_token + 1 ELSE next_token
  BY DEF Process
<1> HIDE DEF issue, base1, back1, base2
<1>7. ASSUME NEW t \in Int, Burnt(t) PROVE Burnt(t)'
  BY <1>1, <1>4, <1>5, <1>6, <1>7 DEF Burnt, back1
<1>8. Accepted(m) => ~Burnt(m.token) /\ Burnt(m.token)' /\ next_token' = next_token + 1
  BY <1>1, <1>2, <1>3, <1>4, <1>5, <1>6 DEF Burnt, back1, issue
<1>9. returned' \subseteq Nat
  BY <1>1, <1>2, <1>6 DEF back1
<1> QED BY <1>1, <1>2, <1>4, <1>5, <1>6, <1>7, <1>8, <1>9

-----------------------------------------------------------------------------
(* The commands: requests. *)

\* The number of the attempt is all that an identity leaves out.
LEMMA IdentityFields ==
  ASSUME NEW m \in Request
  PROVE  /\ Identity(m) \in Request
         /\ Identity(m).from = m.from /\ Identity(m).seq = m.seq /\ Identity(m).kind = m.kind
         /\ Identity(m).auth = m.auth /\ Identity(m).utoken = m.utoken
         /\ Identity(m).token = m.token /\ Identity(m).ts = m.ts
BY DEF Identity, Request

\* A request is never taken for none.
LEMMA RequestIsSome == ASSUME NEW m \in Request PROVE m # None
BY DEF Request, None

\* What is sent are requests, those on their way among them.
LEMMA SentType ==
  ASSUME TypeOK
  PROVE  /\ Sent \subseteq Request
         /\ \A m \in requests : m \in Request /\ Identity(m) \in Sent
         /\ \A c \in Waiting : client[c].request \in Request /\ Identity(client[c].request) \in Sent
<1>1. \A m \in requests : m \in Request
  BY DEF TypeOK
<1>2. \A c \in Waiting : client[c].request \in Request
  BY DEF TypeOK, State, Waiting
<1> QED BY <1>1, <1>2, IdentityFields DEF Sent

\* The records of what was executed and of the tokens given are numbers.
LEMMA HistoryType ==
  ASSUME TypeOK, NEW c \in Client, NEW s \in 1 .. MaxSeq
  PROVE  /\ ran[c][s].times \in Nat /\ ran[c][s].utoken \in Nat /\ ran[c][s].at \in Nat
         /\ logons[<<c, s>>] \in Nat
<1>1. ran[c] \in [1 .. MaxSeq -> [times : Nat, utoken : Nat, at : Nat]]
  BY DEF TypeOK
<1>2. ran[c][s] \in [times : Nat, utoken : Nat, at : Nat]
  BY <1>1
<1>3. logons \in [Client \X (1 .. MaxSeq) -> Nat] /\ <<c, s>> \in Client \X (1 .. MaxSeq)
  BY DEF TypeOK
<1> QED BY <1>2, <1>3

\* Messages that are lost or arrive make no new ones.
LEMMA FewerSent ==
  ASSUME requests' \subseteq requests, UNCHANGED client
  PROVE  Sent' \subseteq Sent /\ Waiting' = Waiting
BY DEF Sent, Waiting

\* A step that tells nobody a token he did not know keeps the tokens apart.
LEMMA HoldersStay ==
  ASSUME OneHolder, next_token \in Nat, next_token' \in Nat, next_token <= next_token',
         \A c \in Client, t \in Nat \ {NoToken} : Holds(c, t)' => Holds(c, t)
  PROVE  OneHolder'
<1>1. ASSUME NEW c \in Client, NEW t \in Nat \ {NoToken}, Holds(c, t)' PROVE t < next_token'
  BY <1>1 DEF OneHolder
<1>2. ASSUME NEW c \in Client, NEW t \in Nat \ {NoToken}, Holds(c, t)', NEW d \in Client, Holds(d, t)'
      PROVE  c = d
  BY <1>2 DEF OneHolder
<1> QED BY <1>1, <1>2 DEF OneHolder

-----------------------------------------------------------------------------
(* The commands: the steps. *)

\* Init establishes the invariant.
LEMMA IInvInit == Init => IInv
<1> SUFFICES ASSUME Init PROVE IInv
  OBVIOUS
<1>1. Waiting = {} /\ Sent = {} /\ Given = {}
  BY DEF Init, Waiting, Sent, Given
<1>2. TypeOK
  BY CmdAssumption DEF Init, TypeOK, State, NoToken, CmdAssumption
<1>3. RequestsKnown /\ RepliesKnown /\ RepliesAreTrue /\ TokensAreOwned /\ OneHolder
      /\ KeptAreCurrent /\ ExecutedAreKept
  BY <1>1 DEF Init, RequestsKnown, RepliesKnown, RepliesAreTrue, TokensAreOwned, OneHolder, Holds,
              KeptAreCurrent, ExecutedAreKept, NoToken
<1>4. ExecutedAreBurnt /\ SuccessIsOwn
  BY <1>1 DEF Init, ExecutedAreBurnt, SuccessIsOwn
<1>5. LogonsAreSeen
  <2>1. \A c \in Client, s \in 1 .. MaxSeq : logons[<<c, s>>] = 0
    BY DEF Init
  <2>2. utoken = 1
    BY DEF Init
  <2>3. ASSUME NEW c \in Client, NEW s \in 1 .. MaxSeq
        PROVE  logons[<<c, s>>] <= utoken /\ logons[<<c, s>>] # utoken
    BY <2>1, <2>2
  <2> QED BY <2>1, <2>3 DEF LogonsAreSeen
<1> QED BY <1>2, <1>3, <1>4, <1>5 DEF IInv

\* A step of which the daemon knows nothing, and by which a client at most makes
\* another attempt or gives up.
LEMMA QuietStep ==
  ASSUME IInv, UNCHANGED <<daemon, now, ran, answer, logons>>,
         replies' \subseteq replies, requests' \subseteq Request, Sent' \subseteq Sent,
         client' \in [Client -> State], Waiting' \subseteq Waiting,
         \A c \in Client : /\ client'[c].password = client[c].password /\ client'[c].utoken = client[c].utoken
                           /\ client'[c].token = client[c].token /\ client'[c].sequence = client[c].sequence,
         \A c \in Waiting' : Identity(client'[c].request) = Identity(client[c].request)
  PROVE  IInv'
<1> USE DEF daemon
<1>1. TypeOK /\ TypeOK'
  BY DEF IInv, TypeOK
<1>2. Given' \subseteq Given
  BY DEF Given
<1>3. \A c \in Waiting' :
        /\ client'[c].request.from = client[c].request.from /\ client'[c].request.seq = client[c].request.seq
        /\ client'[c].request.kind = client[c].request.kind /\ client'[c].request.auth = client[c].request.auth
        /\ client'[c].request.utoken = client[c].request.utoken
        /\ client'[c].request.token = client[c].request.token
  <2>1. \A c \in Waiting' : client'[c].request \in Request /\ client[c].request \in Request
    BY <1>1, RequestIsSome DEF TypeOK, State, Waiting
  <2> QED BY <2>1, IdentityFields
<1>4. Sent \subseteq Request /\ Given \subseteq ReplyType /\ Waiting \subseteq Client
  BY <1>1, SentType DEF Given, Cell, TypeOK, Waiting
<1>5. RequestsKnown'
  <2>1. \A c \in Waiting' :
          /\ client'[c].request.from = c /\ client'[c].request.seq = client'[c].sequence
          /\ client'[c].request.auth = client'[c].password /\ client'[c].request.token = client'[c].token
          /\ client'[c].request.utoken \in {SPECIAL_UTOKEN, client'[c].utoken}
    BY <1>3, <1>4 DEF IInv, RequestsKnown
  <2>2. /\ \A m \in Sent' : m.seq <= client'[m.from].sequence /\ m.utoken <= utoken'
        /\ \A c \in Client : client'[c].utoken <= utoken'
    BY <1>4 DEF IInv, RequestsKnown, Request
  <2> QED BY <2>1, <2>2 DEF IInv, RequestsKnown
<1>6. RepliesKnown' /\ RepliesAreTrue'
  BY <1>2, <1>4 DEF IInv, RepliesKnown, RepliesAreTrue, ReplyType
<1>7. ExecutedAreBurnt' /\ LogonsAreSeen'
  BY DEF IInv, ExecutedAreBurnt, LogonsAreSeen, Burnt
<1>8. TokensAreOwned'
  BY <1>2, <1>3 DEF IInv, TokensAreOwned
<1>9. KeptAreCurrent' /\ SuccessIsOwn'
  BY DEF IInv, KeptAreCurrent, SuccessIsOwn
<1>10. ExecutedAreKept'
  BY <1>3 DEF IInv, ExecutedAreKept
<1>11. OneHolder'
  <2>1. \A c \in Client, t \in Nat \ {NoToken} : Holds(c, t)' => Holds(c, t)
    BY <1>2 DEF Holds
  <2> QED BY <1>1, <2>1, HoldersStay DEF IInv, TypeOK
<1> QED BY <1>1, <1>5, <1>6, <1>7, <1>8, <1>9, <1>10, <1>11 DEF IInv

\* Another attempt has the identity of the one before it.
LEMMA TryAgainStep ==
  ASSUME IInv, UNCHANGED <<daemon, now, ran, answer, logons>>, replies' \subseteq replies,
         NEW c \in Client, client[c].request # None, TryAgain(c)
  PROVE  IInv'
<1> DEFINE n == client[c].n_attempts + 1
           request == [client[c].request EXCEPT !.attempt = n]
<1>1. client \in [Client -> State] /\ TypeOK /\ c \in Waiting /\ requests \subseteq Request
  BY DEF IInv, TypeOK, Waiting
<1>2. client[c].request \in Request /\ n \in Nat
  BY <1>1, SentType DEF State
<1>3. request \in Request /\ Identity(request) = Identity(client[c].request)
  BY <1>2 DEF Request, Identity
<1>4. CASE n > max_retries
  <2>1. client' = [client EXCEPT ![c].request = None, ![c].n_attempts = 0] /\ UNCHANGED requests
    BY <1>4 DEF TryAgain
  <2>2. client' \in [Client -> State]
    BY <1>1, <2>1 DEF State
  <2>3. Waiting' = Waiting \ {c} /\ \A d \in Client \ {c} : client'[d] = client[d]
    BY <1>1, <2>1 DEF Waiting, State
  <2>4. Sent' \subseteq Sent
    BY <2>1, <2>3 DEF Sent, Waiting
  <2> QED BY <1>1, <2>1, <2>2, <2>3, <2>4, QuietStep DEF State, Waiting
<1>5. CASE ~(n > max_retries)
  <2>1. client' = [client EXCEPT ![c].request = request, ![c].n_attempts = n] /\ requests' = requests \cup {request}
    BY <1>5 DEF TryAgain, Send
  <2>2. client' \in [Client -> State]
    BY <1>1, <1>2, <1>3, <2>1 DEF State
  <2>3. /\ Waiting' = Waiting /\ client'[c].request = request
        /\ \A d \in Client \ {c} : client'[d] = client[d]
    BY <1>1, <1>3, <2>1, RequestIsSome DEF Waiting, State
  <2>4. Sent' \subseteq Sent
    BY <1>1, <1>3, <2>1, <2>3 DEF Sent, Waiting
  <2> QED BY <1>1, <1>3, <2>1, <2>2, <2>3, <2>4, QuietStep DEF State, Waiting
<1> QED BY <1>4, <1>5

\* A new request: no reply is to it, nothing was executed for it, and it carries
\* what its client owns.
LEMMA SubmitStep ==
  ASSUME IInv, NEW c \in Client, NEW kind \in Kind, Submit(c, kind)
  PROVE  IInv'
<1> DEFINE s == client[c].sequence + 1
           password == client[c].password \/ kind = "logon"
           special == password /\ (client[c].utoken = 0 \/ kind = "logon")
           request == [from |-> c, seq |-> s, kind |-> kind, attempt |-> 0, auth |-> password,
                       utoken |-> IF special THEN SPECIAL_UTOKEN ELSE client[c].utoken,
                       token |-> client[c].token, ts |-> LogonTs(c, s, kind)]
<1>1. /\ client \in [Client -> State] /\ TypeOK /\ c \notin Waiting /\ requests \subseteq Request
      /\ s \in 1 .. MaxSeq /\ now \in Nat /\ client[c] \in State /\ utoken \in Nat \ {0}
  <2>1. client \in [Client -> State] /\ TypeOK /\ requests \subseteq Request /\ now \in Nat /\ utoken \in Nat \ {0}
    BY DEF IInv, TypeOK
  <2>2. client[c] \in State /\ client[c].sequence \in Nat /\ s <= MaxSeq /\ client[c].request = None
    BY <2>1 DEF State, Submit
  <2> QED BY <2>1, <2>2, CmdAssumption DEF Waiting, CmdAssumption
<1>2. request \in Request /\ request # None /\ Identity(request) = request
  <2>1. LogonTs(c, s, kind) \in [sec : Nat, by : Client, seq : Nat]
    BY <1>1 DEF LogonTs
  <2>2. password \in BOOLEAN /\ (IF special THEN SPECIAL_UTOKEN ELSE client[c].utoken) \in Int
        /\ client[c].token \in Nat /\ kind \in {"logon", "change", "query"}
    BY <1>1, CmdAssumption DEF State, SPECIAL_UTOKEN, CmdAssumption
  <2>3. request \in Request
    BY <1>1, <2>1, <2>2 DEF Request
  <2>4. Identity(request) = request
    BY <2>3 DEF Identity, Request
  <2> QED BY <2>3, <2>4, RequestIsSome
<1>3. /\ client' = [client EXCEPT ![c].sequence = s, ![c].password = password,
                                  ![c].request = request, ![c].n_attempts = 0]
      /\ requests' = requests \cup {request} /\ answer' = [answer EXCEPT ![c] = None]
      /\ UNCHANGED <<daemon, replies, now, ran, logons>>
  BY DEF Submit, Send
<1>4. request.from = c /\ request.seq = s /\ request.auth = password /\ request.token = client[c].token
      /\ request.utoken \in {SPECIAL_UTOKEN, client[c].utoken}
  OBVIOUS
<1> HIDE DEF request
<1>5. /\ \A d \in Client \ {c} : client'[d] = client[d]
      /\ client'[c].sequence = s /\ client'[c].password = password /\ client'[c].request = request
      /\ client'[c].utoken = client[c].utoken /\ client'[c].token = client[c].token
  BY <1>1, <1>3 DEF State
<1>6. Waiting' = Waiting \cup {c} /\ Sent' \subseteq Sent \cup {request}
  <2>1. Waiting' = Waiting \cup {c}
    BY <1>1, <1>2, <1>5 DEF Waiting
  <2>2. ASSUME NEW d \in Waiting' PROVE Identity(client'[d].request) \in Sent \cup {request}
    BY <1>2, <1>5, <2>1 DEF Sent, Waiting
  <2>3. \A m \in requests' : Identity(m) \in Sent \cup {request}
    BY <1>2, <1>3 DEF Sent
  <2> QED BY <2>1, <2>2, <2>3 DEF Sent
<1>7. Given' = Given /\ Sent \subseteq Request /\ Given \subseteq ReplyType /\ Waiting \subseteq Client
  BY <1>1, <1>3, SentType DEF Given, daemon, TypeOK, Cell, Waiting
<1>8. TypeOK'
  <2>1. client' \in [Client -> State]
    <3>1. s \in 0 .. MaxSeq /\ password \in BOOLEAN /\ request \in Request \cup {None} /\ 0 \in Nat
      BY <1>1, <1>2 DEF State
    <3> HIDE DEF s, password
    <3> QED BY <1>1, <1>3, <3>1 DEF State
  <2>2. answer' \in [Client -> Printable \cup {None}]
    BY <1>1, <1>3 DEF TypeOK
  <2> QED BY <1>1, <1>2, <1>3, <2>1, <2>2 DEF TypeOK, daemon
\* The number is new.
<1>9. /\ \A m \in Sent : m.from = c => m.seq < s
      /\ \A r \in Given : r.to = c => r.seq < s
  BY <1>1, <1>7 DEF IInv, RequestsKnown, RepliesKnown, State, Request, ReplyType
<1>10. request.utoken <= utoken
  BY <1>1, <1>4 DEF IInv, RequestsKnown, SPECIAL_UTOKEN, State
<1>11. RequestsKnown'
  <2>1. \A d \in Waiting' :
          /\ client'[d].request.from = d /\ client'[d].request.seq = client'[d].sequence
          /\ client'[d].request.auth = client'[d].password /\ client'[d].request.token = client'[d].token
          /\ client'[d].request.utoken \in {SPECIAL_UTOKEN, client'[d].utoken}
    BY <1>1, <1>4, <1>5, <1>6, <1>7 DEF IInv, RequestsKnown
  <2>2. \A d \in Client : client'[d].sequence >= client[d].sequence /\ client'[d].utoken <= utoken'
    BY <1>1, <1>3, <1>5 DEF IInv, RequestsKnown, State, daemon
  <2>3. \A m \in Sent' : m.seq <= client'[m.from].sequence /\ m.utoken <= utoken'
    <3>1. ASSUME NEW m \in Sent PROVE m.seq <= client'[m.from].sequence /\ m.utoken <= utoken'
      <4>1. m.from \in Client /\ m.seq \in Nat
        BY <1>7 DEF Request
      <4>2. client[m.from].sequence \in Nat /\ client'[m.from].sequence \in Nat
        <5>1. client[m.from] \in State /\ client'[m.from] \in State
          BY <1>1, <1>8, <4>1 DEF TypeOK
        <5> QED BY <5>1 DEF State
      <4>3. m.seq <= client[m.from].sequence /\ m.utoken <= utoken
        BY DEF IInv, RequestsKnown
      <4>4. client'[m.from].sequence >= client[m.from].sequence /\ utoken' = utoken
        BY <1>3, <2>2, <4>1 DEF daemon
      <4> QED BY <4>1, <4>2, <4>3, <4>4
    <3>2. request.seq <= client'[request.from].sequence /\ request.utoken <= utoken'
      BY <1>1, <1>3, <1>4, <1>5, <1>10 DEF daemon
    <3> QED BY <1>6, <3>1, <3>2
  <2>4. \A m1, m2 \in Sent' : m1.from = m2.from /\ m1.seq = m2.seq => m1 = m2
    BY <1>1, <1>4, <1>6, <1>7, <1>9 DEF IInv, RequestsKnown, Request
  <2> QED BY <2>1, <2>2, <2>3, <2>4 DEF RequestsKnown
<1>12. RepliesKnown'
  <2>1. ASSUME NEW r \in Given PROVE r.seq <= client'[r.to].sequence /\ r.utoken <= utoken'
    <3>1. r.to \in Client /\ r.seq \in Nat /\ client[r.to].sequence \in Nat
      BY <1>7 DEF ReplyType, State, IInv, TypeOK
    <3> QED BY <1>1, <1>3, <1>5, <3>1 DEF IInv, RepliesKnown, daemon
  <2> QED BY <1>7, <2>1 DEF RepliesKnown
<1>13. ExecutedAreBurnt'
  <2>1. ran[c][s].times = 0
    BY <1>1 DEF IInv, ExecutedAreBurnt, State
  <2>2. ASSUME NEW d \in Client, NEW i \in 1 .. MaxSeq, i > client'[d].sequence PROVE i > client[d].sequence
    BY <1>1, <1>5, <2>2 DEF State
  <2>3. \A t : Burnt(t)' <=> Burnt(t)
    BY <1>3 DEF Burnt, daemon
  <2>4. ASSUME NEW d \in Client, NEW i \in 1 .. MaxSeq, ran[d][i].times = 1, NEW m \in Sent', m.from = d, m.seq = i
        PROVE  m.utoken = ran[d][i].utoken /\ (m.utoken = utoken => Burnt(m.token))
    BY <1>4, <1>6, <2>1, <2>4 DEF IInv, ExecutedAreBurnt
  <2>5. UNCHANGED <<ran, utoken, now>>
    BY <1>3 DEF daemon
  <2>6. \A d \in Client, i \in 1 .. MaxSeq :
          /\ ran[d][i].times <= 1 /\ ran[d][i].utoken <= utoken /\ ran[d][i].at <= now
          /\ i > client'[d].sequence => ran[d][i].times = 0
    BY <2>2 DEF IInv, ExecutedAreBurnt
  <2> QED BY <2>3, <2>4, <2>5, <2>6 DEF ExecutedAreBurnt
<1>14. LogonsAreSeen'
  <2>1. logons[<<c, s>>] = 0
    BY <1>1 DEF IInv, LogonsAreSeen, State
  <2>2. ASSUME NEW d \in Client, NEW i \in 1 .. MaxSeq, i > client'[d].sequence PROVE i > client[d].sequence
    BY <1>1, <1>5, <2>2 DEF State
  <2>3. ASSUME NEW d \in Client, NEW i \in 1 .. MaxSeq, logons[<<d, i>>] = utoken,
               NEW m \in Sent', m.from = d, m.seq = i
        PROVE  m.ts \in seen \/ now - m.ts.sec > Margin
    BY <1>1, <1>4, <1>6, <2>1, <2>3 DEF IInv, LogonsAreSeen
  <2> QED BY <1>3, <2>2, <2>3 DEF IInv, LogonsAreSeen, daemon
<1>15. RepliesAreTrue'
  BY <1>1, <1>3, <1>4, <1>6, <1>7, <1>9 DEF IInv, RepliesAreTrue, ReplyType
<1>16. TokensAreOwned'
  <2>1. \A r \in Given : r.utoken = utoken => r.token < next_token
    BY DEF IInv, TokensAreOwned
  <2>2. \A d \in Client : client'[d].utoken = utoken => client'[d].token < next_token
    BY <1>5 DEF IInv, TokensAreOwned
  <2>3. \A r1, r2 \in Given :
          r1.utoken = utoken /\ r2.utoken = utoken /\ r1.token = r2.token /\ r1.token # NoToken =>
            r1.to = r2.to /\ r1.seq = r2.seq
    BY DEF IInv, TokensAreOwned
  <2>4. ASSUME NEW r \in Given, NEW d \in Client,
               r.utoken = utoken, client'[d].utoken = utoken, r.token = client'[d].token, r.token # NoToken
        PROVE  r.to = d /\ (d \in Waiting' => r.seq < client'[d].request.seq)
    BY <1>4, <1>5, <1>6, <1>9, <2>4 DEF IInv, TokensAreOwned
  <2>5. ASSUME NEW r \in Given, NEW m \in Sent',
               r.utoken = utoken, m.utoken = utoken, r.token = m.token, r.token # NoToken
        PROVE  r.to = m.from /\ r.seq < m.seq
    <3>1. CASE m \in Sent
      BY <2>5, <3>1 DEF IInv, TokensAreOwned
    <3>2. CASE m = request
      <4>1. client[c].utoken = utoken
        BY <1>1, <1>4, <2>5, <3>2 DEF SPECIAL_UTOKEN
      <4> QED BY <1>4, <1>9, <2>5, <3>2, <4>1 DEF IInv, TokensAreOwned
    <3> QED BY <1>6, <3>1, <3>2
  <2> QED BY <1>3, <1>7, <2>1, <2>2, <2>3, <2>4, <2>5 DEF TokensAreOwned, daemon
<1>17. KeptAreCurrent'
  <2>1. UNCHANGED <<kept, utoken>>
    BY <1>3 DEF daemon
  <2>2. ASSUME NEW cell \in kept, NEW m \in Sent', m.from = cell.rpy.to, m.seq = cell.msg_seq
        PROVE  m.utoken = utoken /\ m.token = cell.tok
    <3>1. cell.rpy \in Given /\ cell.rpy.seq = cell.msg_seq
      BY DEF Given, IInv, KeptAreCurrent
    <3>2. cell.rpy.seq \in Nat /\ m # request
      BY <1>4, <1>7, <1>9, <2>2, <3>1 DEF ReplyType
    <3> QED BY <1>6, <2>2, <3>2 DEF IInv, KeptAreCurrent
  <2> QED BY <2>1, <2>2 DEF IInv, KeptAreCurrent
<1>18. ExecutedAreKept'
  <2>1. ran[c][s].times = 0
    BY <1>1 DEF IInv, ExecutedAreBurnt, State
  <2>2. UNCHANGED <<kept, utoken, ran, now>>
    BY <1>3 DEF daemon
  <2>3. \A d \in Waiting' : d = c \/ (d \in Waiting /\ client'[d] = client[d])
    BY <1>5, <1>6, <1>7
  <2>4. ran[c][client'[c].request.seq].times = 0
    BY <1>4, <1>5, <2>1
  <2> QED BY <2>2, <2>3, <2>4 DEF IInv, ExecutedAreKept
<1>19. SuccessIsOwn'
  BY <1>1, <1>3 DEF IInv, SuccessIsOwn, TypeOK
<1>20. OneHolder'
  <2>1. ASSUME NEW d \in Client, NEW t \in Nat \ {NoToken}, Holds(d, t)' PROVE Holds(d, t)
    <3>1. client'[d].utoken = client[d].utoken /\ client'[d].token = client[d].token
      BY <1>5
    <3>2. request.utoken = utoken => client[request.from].utoken = utoken
      BY <1>1, <1>4 DEF SPECIAL_UTOKEN
    <3>3. UNCHANGED <<utoken, kept>>
      BY <1>3 DEF daemon
    <3> QED BY <1>4, <1>6, <1>7, <2>1, <3>1, <3>2, <3>3 DEF Holds
  <2> QED BY <1>1, <1>3, <2>1, HoldersStay DEF IInv, TypeOK, daemon
<1> QED BY <1>8, <1>11, <1>12, <1>13, <1>14, <1>15, <1>16, <1>17, <1>18, <1>19, <1>20 DEF IInv

\* A reply that is taken: its token is the client's from now on, or it repeats
\* what the client knows.
LEMMA ReceiveReplyStep ==
  ASSUME IInv, NEW c \in Client, NEW r \in replies, ReceiveReply(c, r)
  PROVE  IInv'
<1> DEFINE q == client[c].request
           token == IF client[c].password /\ ~r.auth THEN client[c].token ELSE r.token
<1>1. /\ client \in [Client -> State] /\ TypeOK /\ c \in Waiting /\ client[c] \in State
      /\ q \in Request /\ Identity(q) \in Sent /\ r \in Given /\ r \in ReplyType
  <2>1. TypeOK /\ r \in ReplyType /\ client \in [Client -> State]
    BY DEF IInv, TypeOK
  <2>2. c \in Waiting
    BY DEF ReceiveReply, Waiting
  <2> QED BY <2>1, <2>2, SentType DEF Given
<1>2. r.to = c /\ r.seq = q.seq
  BY DEF ReceiveReply, BadSequence
<1>3. /\ client' = [client EXCEPT ![c].request = None, ![c].n_attempts = 0,
                                  ![c].utoken = r.utoken, ![c].token = token]
      /\ answer' = [answer EXCEPT ![c] = Printed(c, r)]
      /\ replies' \subseteq replies
      /\ UNCHANGED <<daemon, requests, now, ran, logons>>
  BY <1>1 DEF ReceiveReply, Arrives, State
<1>4. /\ q.from = c /\ q.auth = client[c].password /\ q.token = client[c].token
      /\ q.utoken \in {SPECIAL_UTOKEN, client[c].utoken}
  BY <1>1 DEF IInv, RequestsKnown
<1>5. /\ Identity(q).from = c /\ Identity(q).seq = r.seq /\ Identity(q).kind = q.kind
      /\ Identity(q).auth = q.auth /\ Identity(q).utoken = q.utoken
  BY <1>1, <1>2, <1>4, IdentityFields
\* A reply without authentication is from the run that the client knows already.
<1>6. client[c].password /\ ~r.auth => r.utoken = client[c].utoken
  <2>1. client[c].password /\ ~r.auth => q.utoken = r.utoken
    BY <1>1, <1>2, <1>4, <1>5 DEF IInv, RepliesAreTrue
  <2> QED BY <1>1, <1>4, <2>1 DEF SPECIAL_UTOKEN, ReplyType
<1>7. <<r.utoken, token>> \in {<<client[c].utoken, client[c].token>>, <<r.utoken, r.token>>}
  BY <1>6
<1> HIDE DEF q, token
<1>8. token \in Nat /\ r.utoken \in Nat
  BY <1>1, <1>7 DEF ReplyType, State, token
<1>9. /\ \A d \in Client \ {c} : client'[d] = client[d]
      /\ client'[c].sequence = client[c].sequence /\ client'[c].password = client[c].password
      /\ client'[c].request = None /\ client'[c].utoken = r.utoken /\ client'[c].token = token
  BY <1>1, <1>3 DEF State
<1>10. Waiting' = Waiting \ {c} /\ Sent' \subseteq Sent /\ Given' \subseteq Given
  <2>1. Waiting' = Waiting \ {c}
    BY <1>1, <1>9 DEF Waiting
  <2> QED BY <1>3, <1>9, <2>1 DEF Sent, Given, daemon, Waiting
<1>11. Sent \subseteq Request /\ Given \subseteq ReplyType /\ Waiting \subseteq Client
  BY <1>1, SentType DEF Given, TypeOK, Cell, Waiting
<1>12. TypeOK'
  <2>1. client' \in [Client -> State]
    BY <1>1, <1>3, <1>8 DEF State
  <2>2. Printed(c, r) \in Printable
    BY <1>1 DEF Printed, Printable, Request, ReplyType, q
  <2> QED BY <1>1, <1>3, <2>1, <2>2 DEF TypeOK, daemon
<1>13. \A d \in Client : client'[d].sequence = client[d].sequence
  BY <1>9
<1>14. UNCHANGED <<utoken, now, ran, logons, seen, kept, next_token>> /\ \A t : Burnt(t)' <=> Burnt(t)
  BY <1>3 DEF Burnt, daemon
<1>15. RequestsKnown'
  <2>1. \A d \in Waiting' : d \in Waiting /\ client'[d] = client[d]
    BY <1>9, <1>10, <1>11
  <2>2. \A d \in Client : client'[d].utoken <= utoken
    BY <1>1, <1>9 DEF IInv, RequestsKnown, RepliesKnown
  <2>3. \A m \in Sent : m.from \in Client
    BY <1>11 DEF Request
  <2> QED BY <1>10, <1>13, <1>14, <2>1, <2>2, <2>3 DEF IInv, RequestsKnown
<1>16. RepliesKnown'
  <2>1. \A g \in Given : g.to \in Client
    BY <1>11 DEF ReplyType
  <2> QED BY <1>10, <1>13, <1>14, <2>1 DEF IInv, RepliesKnown
<1>17. ExecutedAreBurnt' /\ LogonsAreSeen'
  BY <1>10, <1>13, <1>14 DEF IInv, ExecutedAreBurnt, LogonsAreSeen
<1>18. RepliesAreTrue' /\ KeptAreCurrent'
  BY <1>10, <1>14 DEF IInv, RepliesAreTrue, KeptAreCurrent
<1>19. TokensAreOwned'
  <2>1. r.utoken = utoken => token < next_token
    BY <1>1, <1>7 DEF IInv, TokensAreOwned
  <2>2. ASSUME NEW g \in Given, g.utoken = utoken, r.utoken = utoken, g.token = token, g.token # NoToken
        PROVE  g.to = c
    BY <1>1, <1>2, <1>7, <2>2 DEF IInv, TokensAreOwned
  <2>3. \A d \in Client : client'[d].utoken = utoken => client'[d].token < next_token
    BY <1>9, <2>1 DEF IInv, TokensAreOwned
  <2>4. ASSUME NEW g \in Given, NEW d \in Client,
               g.utoken = utoken, client'[d].utoken = utoken, g.token = client'[d].token, g.token # NoToken
        PROVE  g.to = d /\ (d \in Waiting' => g.seq < client'[d].request.seq)
    BY <1>9, <1>10, <2>2, <2>4 DEF IInv, TokensAreOwned
  <2> QED BY <1>10, <1>14, <2>3, <2>4 DEF IInv, TokensAreOwned
<1>20. ExecutedAreKept'
  <2>1. \A d \in Waiting' : d \in Waiting /\ client'[d] = client[d]
    BY <1>9, <1>10, <1>11
  <2> QED BY <1>14, <2>1 DEF IInv, ExecutedAreKept
<1>21. SuccessIsOwn'
  <2>1. Printed(c, r).kind = "change" /\ Printed(c, r).status = "success" => ran[c][Printed(c, r).seq].times = 1
    BY <1>1, <1>2, <1>5 DEF IInv, RepliesAreTrue, Printed, q
  <2>2. \A d \in Client : answer'[d] = answer[d] \/ (d = c /\ answer'[d] = Printed(c, r))
    BY <1>1, <1>3 DEF TypeOK
  <2> QED BY <1>14, <2>1, <2>2 DEF IInv, SuccessIsOwn
<1>22. OneHolder'
  <2>1. ASSUME NEW d \in Client, NEW t \in Nat \ {NoToken}, Holds(d, t)' PROVE Holds(d, t)
    <3>1. CASE d = c /\ client'[c].utoken = utoken /\ client'[c].token = t
      BY <1>1, <1>2, <1>7, <1>9, <3>1 DEF Holds
    <3>2. CASE ~(d = c /\ client'[c].utoken = utoken /\ client'[c].token = t)
      BY <1>9, <1>10, <1>14, <2>1, <3>2 DEF Holds
    <3> QED BY <3>1, <3>2
  <2> QED BY <1>1, <1>14, <2>1, HoldersStay DEF IInv, TypeOK
<1> QED BY <1>12, <1>15, <1>16, <1>17, <1>18, <1>19, <1>20, <1>21, <1>22 DEF IInv

\* A restart: all that was issued, accepted or kept is of an earlier run.
LEMMA RestartStep == ASSUME IInv, Restart PROVE IInv'
<1>1. /\ utoken' = utoken + 1 /\ token_base' = 1 /\ next_token' = 1 /\ returned' = {} /\ kept' = {} /\ seen' = {}
      /\ UNCHANGED <<client, requests, replies, now, ran, answer, logons>>
  BY DEF Restart, network
<1>2. Sent' = Sent /\ Waiting' = Waiting /\ Given' \subseteq Given
  BY <1>1 DEF Sent, Waiting, Given
<1>3. TypeOK /\ TypeOK' /\ utoken \in Nat
  BY <1>1 DEF IInv, TypeOK
<1>4. Sent \subseteq Request /\ Given \subseteq ReplyType
  BY <1>3, SentType DEF Given, TypeOK, Cell
\* Nothing is of the new run.
<1>5. /\ \A m \in Sent : m.utoken <= utoken' /\ m.utoken # utoken'
      /\ \A r \in Given : r.utoken <= utoken' /\ r.utoken # utoken'
      /\ \A c \in Client : client[c].utoken <= utoken' /\ client[c].utoken # utoken'
  <2>1. \A m \in Sent : m.utoken \in Int /\ m.utoken <= utoken
    BY <1>4 DEF IInv, RequestsKnown, Request
  <2>2. \A r \in Given : r.utoken \in Int /\ r.utoken <= utoken
    BY <1>4 DEF IInv, RepliesKnown, ReplyType
  <2>3. \A c \in Client : client[c].utoken \in Int /\ client[c].utoken <= utoken
    BY <1>3 DEF IInv, RequestsKnown, TypeOK, State
  <2> QED BY <1>1, <1>3, <2>1, <2>2, <2>3
<1>6. \A c \in Client, s \in 1 .. MaxSeq :
        /\ ran[c][s].utoken <= utoken' /\ ran[c][s].utoken # utoken'
        /\ logons[<<c, s>>] <= utoken' /\ logons[<<c, s>>] # utoken'
  <2> SUFFICES ASSUME NEW c \in Client, NEW s \in 1 .. MaxSeq
               PROVE  /\ ran[c][s].utoken <= utoken' /\ ran[c][s].utoken # utoken'
                      /\ logons[<<c, s>>] <= utoken' /\ logons[<<c, s>>] # utoken'
    OBVIOUS
  <2>1. ran[c][s].utoken \in Nat /\ logons[<<c, s>>] \in Nat
    BY <1>3, HistoryType
  <2>2. ran[c][s].utoken <= utoken /\ logons[<<c, s>>] <= utoken
    BY DEF IInv, ExecutedAreBurnt, LogonsAreSeen
  <2>3. utoken' = utoken + 1
    BY <1>1
  <2> QED BY <1>3, <2>1, <2>2, <2>3
<1>7. RequestsKnown' /\ RepliesKnown'
  BY <1>1, <1>2, <1>5 DEF IInv, RequestsKnown, RepliesKnown
<1>8. ExecutedAreBurnt' /\ LogonsAreSeen'
  BY <1>1, <1>2, <1>5, <1>6 DEF IInv, ExecutedAreBurnt, LogonsAreSeen
<1>9. RepliesAreTrue' /\ SuccessIsOwn'
  BY <1>1, <1>2 DEF IInv, RepliesAreTrue, SuccessIsOwn
<1>10. TokensAreOwned'
  BY <1>1, <1>2, <1>5 DEF TokensAreOwned
<1>11. KeptAreCurrent'
  BY <1>1 DEF KeptAreCurrent
<1>12. ExecutedAreKept'
  <2>1. \A c \in Waiting : client[c].request.seq \in 1 .. MaxSeq /\ c \in Client
    BY <1>3, SentType DEF Request, Waiting
  <2> QED BY <1>1, <1>2, <1>6, <2>1 DEF ExecutedAreKept
<1>13. OneHolder'
  <2>1. \A c \in Client, t \in Nat : ~Holds(c, t)'
    BY <1>1, <1>2, <1>5 DEF Holds
  <2> QED BY <2>1 DEF OneHolder
<1> QED BY <1>3, <1>7, <1>8, <1>9, <1>10, <1>11, <1>12, <1>13 DEF IInv

\* A second passes.
LEMMA TickStep == ASSUME IInv, Tick PROVE IInv'
<1>1. now' = now + 1 /\ UNCHANGED <<daemon, client, network, ran, answer, logons>>
  BY DEF Tick
<1>2. Sent' = Sent /\ Waiting' = Waiting /\ Given' = Given /\ \A t : Burnt(t)' <=> Burnt(t)
  BY <1>1 DEF Sent, Waiting, Given, daemon, network, Burnt
<1>3. TypeOK /\ TypeOK' /\ now \in Nat
  BY <1>1 DEF IInv, TypeOK, daemon, network
<1>4. RequestsKnown' /\ RepliesKnown' /\ RepliesAreTrue' /\ TokensAreOwned' /\ OneHolder'
      /\ KeptAreCurrent' /\ SuccessIsOwn'
  BY <1>1, <1>2 DEF IInv, RequestsKnown, RepliesKnown, RepliesAreTrue, TokensAreOwned, OneHolder, Holds,
                    KeptAreCurrent, SuccessIsOwn, daemon
<1>5. ExecutedAreBurnt'
  <2>1. \A c \in Client, s \in 1 .. MaxSeq : ran[c][s].at <= now'
    <3>1. \A c \in Client, s \in 1 .. MaxSeq : ran[c][s].at \in Nat
      BY <1>3, HistoryType
    <3> QED BY <1>1, <1>3, <3>1 DEF IInv, ExecutedAreBurnt
  <2> QED BY <1>1, <1>2, <2>1 DEF IInv, ExecutedAreBurnt, daemon
<1>6. LogonsAreSeen'
  <2>1. \A m \in Sent : now - m.ts.sec > Margin => now' - m.ts.sec > Margin
    <3>1. \A m \in Sent : m.ts.sec \in Nat
      BY <1>3, SentType DEF Request
    <3> QED BY <1>1, <1>3, <3>1, CmdAssumption DEF CmdAssumption
  <2>2. UNCHANGED <<logons, utoken, client, seen>>
    BY <1>1 DEF daemon
  <2> QED BY <1>2, <2>1, <2>2 DEF IInv, LogonsAreSeen
<1>7. ExecutedAreKept'
  <2>1. \A c \in Waiting : LET r == client[c].request IN
          now' - ran[c][r.seq].at <= MaxAge => now - ran[c][r.seq].at <= MaxAge
    <3>1. ASSUME NEW c \in Waiting PROVE ran[c][client[c].request.seq].at \in Nat
      <4>1. c \in Client /\ client[c].request.seq \in 1 .. MaxSeq
        BY <1>3, SentType DEF Request, Waiting
      <4> QED BY <1>3, <4>1, HistoryType
    <3> QED BY <1>1, <1>3, <3>1, CmdAssumption DEF CmdAssumption
  <2> QED BY <1>1, <1>2, <2>1 DEF IInv, ExecutedAreKept, daemon
<1> QED BY <1>3, <1>4, <1>5, <1>6, <1>7 DEF IInv
\* A packet that arrives or is lost, of which no copy is made.
LEMMA ArrivesFewer ==
  ASSUME NEW m, NEW before, NEW after, Arrives(m, before, after) PROVE after \subseteq before
BY DEF Arrives

\* A kept reply is sent again: its client is the one that asks, and learns nothing
\* that the first copy did not tell it.
LEMMA SendAgainStep ==
  ASSUME IInv, NEW m \in requests, NEW cell \in kept, SendAgain(m, cell)
  PROVE  IInv'
<1> DEFINE next == [cell EXCEPT !.attempt = m.attempt]
           again == Again(m, cell.rpy)
<1>1. /\ TypeOK /\ m \in Request /\ Identity(m) \in Sent /\ cell \in Cell /\ cell.rpy \in ReplyType
      /\ cell.rpy \in Given
  <2>1. TypeOK /\ cell \in Cell
    BY DEF IInv, TypeOK
  <2> QED BY <2>1, SentType DEF Cell, Given
<1>2. m.utoken = utoken /\ cell.tok = m.token /\ cell.msg_seq = m.seq
  BY DEF SendAgain, Resent, UtokenOK, Matches
<1>3. /\ kept' = (kept \ {cell}) \cup {next} /\ replies' = replies \cup {again} /\ requests' \subseteq requests
      /\ UNCHANGED <<utoken, token_base, next_token, returned, seen, client, now, ran, answer, logons>>
  BY ArrivesFewer DEF SendAgain, Reply
<1>4. Sent' \subseteq Sent /\ Waiting' = Waiting /\ \A t : Burnt(t)' <=> Burnt(t)
  BY <1>3, FewerSent DEF Burnt
<1>5. Sent \subseteq Request /\ Given \subseteq ReplyType
  BY <1>1, SentType DEF Given, TypeOK, Cell
<1>6. cell.rpy.to = m.from
  <2>1. Holds(cell.rpy.to, cell.tok) /\ Holds(m.from, cell.tok)
    BY <1>1, <1>2, IdentityFields DEF Holds
  <2>2. cell.tok \in Nat \ {NoToken} /\ cell.rpy.to \in Client /\ m.from \in Client
    BY <1>1 DEF Cell, ReplyType, Request, IInv, KeptAreCurrent
  <2> QED BY <2>1, <2>2 DEF IInv, OneHolder
<1>7. /\ again \in ReplyType /\ again.to = cell.rpy.to /\ again.seq = cell.rpy.seq /\ again.utoken = cell.rpy.utoken
      /\ again.token = cell.rpy.token /\ again.status = cell.rpy.status
  BY <1>1, <1>6 DEF Again, ReplyType
<1>8. /\ next \in Cell /\ next.rpy = cell.rpy /\ next.tok = cell.tok /\ next.next_tok = cell.next_tok
      /\ next.msg_seq = cell.msg_seq /\ next.ts = cell.ts
  BY <1>1 DEF Cell, Request
<1> HIDE DEF next, again
<1>9. Given' \subseteq Given \cup {again}
  BY <1>3, <1>8 DEF Given
<1>10. TypeOK'
  BY <1>1, <1>3, <1>7, <1>8 DEF TypeOK
<1>11. RequestsKnown' /\ RepliesKnown' /\ ExecutedAreBurnt' /\ LogonsAreSeen' /\ SuccessIsOwn'
  <2>1. RequestsKnown' /\ ExecutedAreBurnt' /\ LogonsAreSeen' /\ SuccessIsOwn'
    BY <1>3, <1>4 DEF IInv, RequestsKnown, ExecutedAreBurnt, LogonsAreSeen, SuccessIsOwn
  <2>2. RepliesKnown'
    BY <1>1, <1>3, <1>7, <1>9 DEF IInv, RepliesKnown
  <2> QED BY <2>1, <2>2
<1>12. RepliesAreTrue'
  <2>1. ASSUME NEW x \in Sent, x.from = again.to, x.seq = again.seq
        PROVE  (x.kind = "change" /\ again.status = "success" => ran[again.to][again.seq].times = 1)
               /\ x.utoken = again.utoken
    <3>1. x.from = cell.rpy.to /\ x.seq = cell.rpy.seq
      BY <1>7, <2>1
    <3>2. x.utoken = cell.rpy.utoken
      BY <3>1 DEF IInv, KeptAreCurrent
    <3>3. x.kind = "change" /\ cell.rpy.status = "success" => ran[cell.rpy.to][cell.rpy.seq].times = 1
      BY <1>1, <3>1 DEF IInv, RepliesAreTrue
    <3> QED BY <1>7, <3>2, <3>3
  <2> QED BY <1>3, <1>4, <1>9, <2>1 DEF IInv, RepliesAreTrue
<1>13. TokensAreOwned'
  BY <1>1, <1>3, <1>4, <1>7, <1>9 DEF IInv, TokensAreOwned
<1>14. OneHolder'
  <2>1. ASSUME NEW d \in Client, NEW t \in Nat \ {NoToken}, Holds(d, t)' PROVE Holds(d, t)
    BY <1>1, <1>3, <1>4, <1>7, <1>8, <1>9, <2>1 DEF Holds
  <2> QED BY <1>1, <1>3, <2>1, HoldersStay DEF IInv, TypeOK
<1>15. KeptAreCurrent'
  BY <1>3, <1>4, <1>8 DEF IInv, KeptAreCurrent
<1>16. ExecutedAreKept'
  <2>1. ASSUME NEW x \in kept
        PROVE  \E y \in kept' : y.tok = x.tok /\ y.msg_seq = x.msg_seq /\ y.rpy = x.rpy /\ y.ts = x.ts
    BY <1>3, <1>8
  <2> QED BY <1>3, <1>4, <2>1 DEF IInv, ExecutedAreKept
<1> QED BY <1>10, <1>11, <1>12, <1>13, <1>14, <1>15, <1>16 DEF IInv
\* A request that is processed: one that is executed was not before, and the token
\* issued is new.
LEMMA ProcessStep ==
  ASSUME IInv, NEW m \in requests, Process(m)
  PROVE  IInv'
<1> DEFINE im == Identity(m)
           logon == m.auth /\ m.utoken = SPECIAL_UTOKEN /\ m.kind = "logon"
           issue == Accepted(m) \/ (logon /\ ValidTs(m.ts))
           reply == [to |-> m.from, seq |-> m.seq, utoken |-> utoken, auth |-> m.auth,
                     token |-> IF issue THEN next_token ELSE NoToken,
                     status |-> IF m.kind = "logon" THEN IF issue THEN "success"
                                     ELSE IF m.auth THEN "invalidts" ELSE "unauth"
                                ELSE IF Permitted(m) THEN "success" ELSE "unauth"]
           new == [tok |-> m.token, next_tok |-> next_token, msg_seq |-> m.seq,
                   attempt |-> m.attempt, ts |-> now, rpy |-> reply]
           exec == m.kind = "change" /\ Accepted(m)
<1>1. /\ TypeOK /\ m \in Request /\ im \in Sent
      /\ utoken \in Nat \ {0} /\ token_base \in Nat \ {0} /\ next_token \in Nat \ {0} /\ now \in Nat
      /\ m.from \in Client /\ m.seq \in 1 .. MaxSeq /\ m.token \in Nat
  <2>1. TypeOK /\ m \in Request /\ im \in Sent
    BY SentType DEF IInv
  <2>2. utoken \in Nat \ {0} /\ token_base \in Nat \ {0} /\ next_token \in Nat /\ token_base <= next_token /\ now \in Nat
    BY <2>1 DEF TypeOK
  <2>3. m.from \in Client /\ m.seq \in 1 .. MaxSeq /\ m.token \in Nat
    BY <2>1 DEF Request
  <2> QED BY <2>1, <2>2, <2>3
<1>2. /\ im.from = m.from /\ im.seq = m.seq /\ im.kind = m.kind /\ im.auth = m.auth
      /\ im.utoken = m.utoken /\ im.token = m.token /\ im.ts = m.ts
  BY <1>1, IdentityFields
\* The other attempts of the request are the same but for their number.
<1>3. \A x \in Sent : x.from = m.from /\ x.seq = m.seq => x = im
  BY <1>1, <1>2 DEF IInv, RequestsKnown
<1>4. /\ replies' = replies \cup {reply} /\ requests' \subseteq requests
      /\ kept' = IF Accepted(m) THEN Unacknowledged(m.token) \cup {new} ELSE kept
      /\ seen' = IF logon THEN Recent(seen) \cup {m.ts} ELSE seen
      /\ ran' = Executed(m)
      /\ logons' = IF logon /\ issue THEN [logons EXCEPT ![<<m.from, m.seq>>] = @ + 1] ELSE logons
      /\ next_token' = IF issue THEN next_token + 1 ELSE next_token
      /\ UNCHANGED <<utoken, client, now, answer>>
  BY ArrivesFewer DEF Process, Reply
<1>5. Sent' \subseteq Sent /\ Waiting' = Waiting
  BY <1>4, FewerSent
<1>6. Sent \subseteq Request /\ Given \subseteq ReplyType
  BY <1>1, SentType DEF Given, TypeOK, Cell
<1>7. /\ reply \in ReplyType /\ reply.to = m.from /\ reply.seq = m.seq /\ reply.utoken = utoken
      /\ reply.auth = m.auth /\ reply.token = (IF issue THEN next_token ELSE NoToken)
      /\ (m.kind = "change" /\ reply.status = "success" => exec)
  <2>1. reply.token \in Nat /\ m.auth \in BOOLEAN
    BY <1>1 DEF NoToken, Request
  <2> QED BY <1>1, <2>1 DEF ReplyType, Permitted
<1>8. /\ new \in Cell /\ new.tok = m.token /\ new.next_tok = next_token /\ new.msg_seq = m.seq
      /\ new.ts = now /\ new.rpy = reply
  BY <1>1, <1>7 DEF Cell, Request
<1>9. Accepted(m) => issue /\ m.utoken = utoken /\ m.token # NoToken
  BY <1>1 DEF Accepted, UtokenOK, TokenOK, NoToken
<1>10. logon => ~Accepted(m)
  BY <1>1 DEF Accepted, UtokenOK, SPECIAL_UTOKEN
<1>11. /\ \A t \in Int : Burnt(t) => Burnt(t)'
       /\ Accepted(m) => ~Burnt(m.token) /\ Burnt(m.token)'
       /\ next_token' \in Nat /\ next_token <= next_token'
  BY <1>1, TokensAfter
<1>12. ran' = IF exec THEN [ran EXCEPT ![m.from][m.seq] = [times |-> @.times + 1, utoken |-> utoken, at |-> now]] ELSE ran
  BY <1>4 DEF Executed, Permitted
<1> HIDE DEF reply, new, im
<1>13. Given' \subseteq Given \cup {reply}
  BY <1>4, <1>8 DEF Given, Unacknowledged
\* The request was not executed before, and its timestamp gave no token in this run.
<1>14. exec => ran[m.from][m.seq].times = 0
  <2>1. ran[m.from][m.seq].times \in Nat
    BY <1>1, HistoryType
  <2>2. ASSUME exec, ran[m.from][m.seq].times = 1 PROVE FALSE
    BY <1>1, <1>2, <1>9, <1>11, <2>2 DEF IInv, ExecutedAreBurnt
  <2>3. ran[m.from][m.seq].times <= 1
    BY <1>1 DEF IInv, ExecutedAreBurnt
  <2> QED BY <2>1, <2>2, <2>3
<1>15. logon /\ issue => logons[<<m.from, m.seq>>] < utoken
  <2>1. logons[<<m.from, m.seq>>] \in Nat
    BY <1>1, HistoryType
  <2>2. ASSUME logon, issue, logons[<<m.from, m.seq>>] = utoken PROVE FALSE
    <3>1. m.ts \in seen \/ now - m.ts.sec > Margin
      BY <1>1, <1>2, <2>2 DEF IInv, LogonsAreSeen
    <3>2. ValidTs(m.ts)
      BY <1>10, <2>2
    <3>3. m.ts.sec \in Nat
      BY <1>1 DEF Request
    <3> QED BY <1>1, <3>1, <3>2, <3>3, CmdAssumption DEF ValidTs, Recent, CmdAssumption
  <2>3. logons[<<m.from, m.seq>>] <= utoken
    BY <1>1 DEF IInv, LogonsAreSeen
  <2> QED BY <1>1, <2>1, <2>2, <2>3
<1>16. /\ \A c \in Client, s \in 1 .. MaxSeq : ran'[c][s] = ran[c][s] \/ (exec /\ c = m.from /\ s = m.seq)
       /\ exec => ran'[m.from][m.seq] = [times |-> 1, utoken |-> utoken, at |-> now]
  <2>1. ran \in [Client -> [1 .. MaxSeq -> [times : Nat, utoken : Nat, at : Nat]]]
    BY <1>1 DEF TypeOK
  <2>2. \A c \in Client : ran[c] \in [1 .. MaxSeq -> [times : Nat, utoken : Nat, at : Nat]]
    BY <2>1
  <2>3. \A c \in Client, s \in 1 .. MaxSeq : ran'[c][s] = ran[c][s] \/ (exec /\ c = m.from /\ s = m.seq)
    BY <1>1, <1>12, <2>1, <2>2
  <2>4. exec => ran'[m.from][m.seq] = [times |-> ran[m.from][m.seq].times + 1, utoken |-> utoken, at |-> now]
    BY <1>1, <1>12, <2>1, <2>2
  <2> QED BY <1>14, <2>3, <2>4
<1>17. /\ \A c \in Client, s \in 1 .. MaxSeq :
            logons'[<<c, s>>] = logons[<<c, s>>] \/ (logon /\ issue /\ c = m.from /\ s = m.seq)
       /\ logon /\ issue => logons'[<<m.from, m.seq>>] <= utoken
  <2>1. logons \in [Client \X (1 .. MaxSeq) -> Nat] /\ <<m.from, m.seq>> \in Client \X (1 .. MaxSeq)
    BY <1>1 DEF TypeOK
  <2>2. ASSUME logon, issue PROVE logons' = [logons EXCEPT ![<<m.from, m.seq>>] = @ + 1]
    BY <1>4, <2>2
  <2>3. ~(logon /\ issue) => logons' = logons
    BY <1>4
  <2>4. ASSUME NEW c \in Client, NEW s \in 1 .. MaxSeq, logon, issue, ~(c = m.from /\ s = m.seq)
        PROVE  logons'[<<c, s>>] = logons[<<c, s>>]
    <3>1. <<c, s>> \in Client \X (1 .. MaxSeq) /\ <<c, s>> # <<m.from, m.seq>>
      BY <2>4
    <3> QED BY <2>1, <2>2, <2>4, <3>1
  <2>5. logon /\ issue => logons'[<<m.from, m.seq>>] = logons[<<m.from, m.seq>>] + 1
    BY <2>1, <2>2
  <2>6. logons[<<m.from, m.seq>>] \in Nat
    BY <1>1, HistoryType
  <2> QED BY <1>1, <1>15, <2>3, <2>4, <2>5, <2>6
<1> HIDE DEF issue, logon, exec
<1>18. TypeOK'
  <2>1. /\ utoken' \in Nat \ {0} /\ token_base' \in Nat \ {0} /\ next_token' \in Nat
        /\ token_base' <= next_token' /\ returned' \subseteq Nat
    BY <1>1, <1>4, TokensAfter
  <2>2. kept' \subseteq Cell /\ replies' \subseteq ReplyType /\ requests' \subseteq Request
    BY <1>1, <1>4, <1>7, <1>8 DEF TypeOK, Unacknowledged
  <2>3. ran' \in [Client -> [1 .. MaxSeq -> [times : Nat, utoken : Nat, at : Nat]]]
    <3>1. ran[m.from][m.seq].times \in Nat /\ ran \in [Client -> [1 .. MaxSeq -> [times : Nat, utoken : Nat, at : Nat]]]
      BY <1>1, HistoryType DEF TypeOK
    <3> DEFINE entry == [times |-> ran[m.from][m.seq].times + 1, utoken |-> utoken, at |-> now]
               row == [ran[m.from] EXCEPT ![m.seq] = entry]
    <3>2. entry \in [times : Nat, utoken : Nat, at : Nat]
      BY <1>1, <3>1
    <3>3. row \in [1 .. MaxSeq -> [times : Nat, utoken : Nat, at : Nat]]
      BY <1>1, <3>1, <3>2
    <3>4. ran' = ran \/ ran' = [ran EXCEPT ![m.from] = row]
      BY <1>12
    <3> HIDE DEF row
    <3> QED BY <1>1, <3>1, <3>3, <3>4
  <2>4. logons' \in [Client \X (1 .. MaxSeq) -> Nat]
    <3>1. logons \in [Client \X (1 .. MaxSeq) -> Nat]
      BY <1>1 DEF TypeOK
    <3>2. logons[<<m.from, m.seq>>] + 1 \in Nat
      BY <1>1, HistoryType
    <3>3. logons' = logons \/ logons' = [logons EXCEPT ![<<m.from, m.seq>>] = @ + 1]
      BY <1>4
    <3> QED BY <3>1, <3>2, <3>3
  <2> QED BY <1>1, <1>4, <2>1, <2>2, <2>3, <2>4 DEF TypeOK
<1>19. RequestsKnown' /\ RepliesKnown'
  <2>1. RequestsKnown'
    BY <1>4, <1>5 DEF IInv, RequestsKnown
  <2>2. reply.seq <= client[reply.to].sequence /\ reply.utoken <= utoken
    BY <1>1, <1>2, <1>7 DEF IInv, RequestsKnown
  <2> QED BY <1>4, <1>13, <2>1, <2>2 DEF IInv, RepliesKnown
<1>20. ExecutedAreBurnt'
  <2> SUFFICES ASSUME NEW c \in Client, NEW s \in 1 .. MaxSeq
               PROVE  /\ ran'[c][s].times <= 1 /\ ran'[c][s].utoken <= utoken /\ ran'[c][s].at <= now
                      /\ s > client[c].sequence => ran'[c][s].times = 0
                      /\ ran'[c][s].times = 1 => \A x \in Sent' :
                           x.from = c /\ x.seq = s => x.utoken = ran'[c][s].utoken /\ (x.utoken = utoken => Burnt(x.token)')
    BY <1>4 DEF ExecutedAreBurnt
  <2>1. CASE ran'[c][s] = ran[c][s]
    <3>1. \A x \in Sent : x.token \in Int
      BY <1>6 DEF Request
    <3> QED BY <1>5, <1>11, <2>1, <3>1 DEF IInv, ExecutedAreBurnt
  <2>2. CASE exec /\ c = m.from /\ s = m.seq
    <3>1. ran'[c][s].times = 1 /\ ran'[c][s].utoken = utoken /\ ran'[c][s].at = now
      BY <1>16, <2>2
    <3>2. s <= client[c].sequence
      BY <1>1, <1>2, <2>2 DEF IInv, RequestsKnown
    <3>3. client[c].sequence \in Nat /\ s \in Nat
      BY <1>1 DEF TypeOK, State
    <3>4. \A x \in Sent' : x.from = c /\ x.seq = s => x.utoken = utoken /\ Burnt(x.token)'
      BY <1>2, <1>3, <1>5, <1>9, <1>11, <2>2 DEF exec
    <3> QED BY <1>1, <3>1, <3>2, <3>3, <3>4
  <2> QED BY <1>16, <2>1, <2>2
<1>21. LogonsAreSeen'
  <2> SUFFICES ASSUME NEW c \in Client, NEW s \in 1 .. MaxSeq
               PROVE  /\ logons'[<<c, s>>] <= utoken
                      /\ s > client[c].sequence => logons'[<<c, s>>] = 0
                      /\ logons'[<<c, s>>] = utoken => \A x \in Sent' :
                           x.from = c /\ x.seq = s => x.ts \in seen' \/ now - x.ts.sec > Margin
    BY <1>4 DEF LogonsAreSeen
  <2>1. CASE logons'[<<c, s>>] = logons[<<c, s>>]
    BY <1>4, <1>5, <2>1 DEF IInv, LogonsAreSeen, Recent
  <2>2. CASE logon /\ issue /\ c = m.from /\ s = m.seq
    <3>1. s <= client[c].sequence
      BY <1>1, <1>2, <2>2 DEF IInv, RequestsKnown
    <3>2. client[c].sequence \in Nat /\ s \in Nat
      BY <1>1 DEF TypeOK, State
    <3>3. \A x \in Sent' : x.from = c /\ x.seq = s => x.ts \in seen'
      BY <1>2, <1>3, <1>4, <1>5, <2>2
    <3> QED BY <1>17, <2>2, <3>1, <3>2, <3>3
  <2> QED BY <1>17, <2>1, <2>2
\* What was executed stays so.
<1>22. \A c \in Client, s \in 1 .. MaxSeq : ran[c][s].times = 1 => ran'[c][s].times = 1
  BY <1>16
<1>23. RepliesAreTrue'
  <2>1. ASSUME NEW r \in Given, NEW x \in Sent, x.from = r.to, x.seq = r.seq
        PROVE  /\ x.kind = "change" /\ r.status = "success" => ran'[r.to][r.seq].times = 1
               /\ x.auth /\ ~r.auth => x.utoken = r.utoken
    <3>1. r.to \in Client /\ r.seq \in 1 .. MaxSeq
      BY <1>6 DEF ReplyType
    <3> QED BY <1>22, <2>1, <3>1 DEF IInv, RepliesAreTrue
  <2>2. ASSUME NEW x \in Sent, x.from = reply.to, x.seq = reply.seq
        PROVE  /\ x.kind = "change" /\ reply.status = "success" => ran'[reply.to][reply.seq].times = 1
               /\ x.auth /\ ~reply.auth => x.utoken = reply.utoken
    <3>1. x = im
      BY <1>3, <1>7, <2>2
    <3> QED BY <1>2, <1>7, <1>16, <3>1
  <2> QED BY <1>5, <1>13, <2>1, <2>2 DEF RepliesAreTrue
\* The token issued is one that nobody knows.
<1>24. ASSUME NEW c \in Client, NEW t \in Nat \ {NoToken}, Holds(c, t)'
       PROVE  Holds(c, t) \/ (issue /\ t = next_token /\ c = m.from)
  <2>1. CASE \E r \in Given' : r.utoken = utoken /\ r.to = c /\ r.token = t
    BY <1>7, <1>13, <2>1 DEF Holds
  <2>2. CASE \E x \in Sent' : x.utoken = utoken /\ x.from = c /\ x.token = t
    BY <1>5, <2>2 DEF Holds
  <2>3. CASE client[c].utoken = utoken /\ client[c].token = t
    BY <2>3 DEF Holds
  <2>4. CASE \E cell \in kept' : cell.rpy.to = c /\ cell.tok = t
    <3>1. PICK cell \in kept' : cell.rpy.to = c /\ cell.tok = t
      BY <2>4
    <3>2. CASE cell \in kept
      BY <3>1, <3>2 DEF Holds
    <3>3. CASE Accepted(m) /\ cell = new
      BY <1>1, <1>2, <1>7, <1>8, <1>9, <3>1, <3>3 DEF Holds
    <3> QED BY <1>4, <3>2, <3>3 DEF Unacknowledged
  <2> QED BY <1>4, <1>24, <2>1, <2>2, <2>3, <2>4 DEF Holds
<1>25. OneHolder'
  <2>1. \A c \in Client, t \in Nat \ {NoToken} : Holds(c, t) => t < next_token /\ \A d \in Client : Holds(d, t) => c = d
    BY DEF IInv, OneHolder
  <2>2. issue => next_token < next_token'
    BY <1>1, <1>4
  <2>3. ASSUME NEW c \in Client, NEW t \in Nat \ {NoToken}, Holds(c, t)' PROVE t < next_token'
    BY <1>1, <1>11, <1>24, <2>1, <2>2, <2>3
  <2>4. ASSUME NEW c \in Client, NEW t \in Nat \ {NoToken}, Holds(c, t)', NEW d \in Client, Holds(d, t)'
        PROVE  c = d
    BY <1>1, <1>24, <2>1, <2>4
  <2> QED BY <2>3, <2>4 DEF OneHolder
<1>26. TokensAreOwned'
  <2>1. \A c \in Client : ~Holds(c, next_token)
    BY <1>1 DEF IInv, OneHolder, NoToken
  <2>2. \A r \in Given : r.utoken = utoken => r.token < next_token'
    <3>1. \A r \in Given : r.token \in Nat
      BY <1>6 DEF ReplyType
    <3> QED BY <1>1, <1>11, <3>1 DEF IInv, TokensAreOwned
  <2>3. \A c \in Client : client[c].utoken = utoken => client[c].token < next_token'
    <3>1. \A c \in Client : client[c].token \in Nat
      BY <1>1 DEF TypeOK, State
    <3> QED BY <1>1, <1>11, <3>1 DEF IInv, TokensAreOwned
  <2>4. reply.token < next_token'
    BY <1>1, <1>4, <1>7 DEF NoToken
\* The token of the reply is known to no other reply, client or request.
  <2>5. /\ \A r \in Given : r.utoken = utoken /\ r.token = reply.token => reply.token = NoToken
        /\ \A c \in Client : client[c].utoken = utoken /\ client[c].token = reply.token => reply.token = NoToken
        /\ \A x \in Sent : x.utoken = utoken /\ x.token = reply.token => reply.token = NoToken
    <3>1. \A r \in Given : r.to \in Client
      BY <1>6 DEF ReplyType
    <3>2. \A x \in Sent : x.from \in Client
      BY <1>6 DEF Request
    <3> QED BY <1>7, <2>1, <3>1, <3>2 DEF Holds
  <2>6. /\ \A r \in Given' : r.utoken = utoken => r.token < next_token'
        /\ \A r1, r2 \in Given' :
             r1.utoken = utoken /\ r2.utoken = utoken /\ r1.token = r2.token /\ r1.token # NoToken =>
               r1.to = r2.to /\ r1.seq = r2.seq
    BY <1>13, <2>2, <2>4, <2>5 DEF IInv, TokensAreOwned
  <2>7. \A r \in Given', c \in Client :
          r.utoken = utoken /\ client[c].utoken = utoken /\ r.token = client[c].token /\ r.token # NoToken =>
            r.to = c /\ (c \in Waiting => r.seq < client[c].request.seq)
    BY <1>13, <2>5 DEF IInv, TokensAreOwned
  <2>8. \A r \in Given', x \in Sent :
          r.utoken = utoken /\ x.utoken = utoken /\ r.token = x.token /\ r.token # NoToken =>
            r.to = x.from /\ r.seq < x.seq
    BY <1>13, <2>5 DEF IInv, TokensAreOwned
  <2> QED BY <1>4, <1>5, <2>3, <2>6, <2>7, <2>8 DEF TokensAreOwned
<1>27. KeptAreCurrent'
  <2>1. Accepted(m) => /\ new.rpy.seq = new.msg_seq /\ new.rpy.token = new.next_tok /\ new.next_tok # NoToken
                       /\ new.tok # NoToken /\ new.rpy.utoken = utoken
                       /\ \A x \in Sent : x.from = new.rpy.to /\ x.seq = new.msg_seq => x.utoken = utoken /\ x.token = new.tok
    BY <1>1, <1>2, <1>3, <1>7, <1>8, <1>9 DEF NoToken
  <2> QED BY <1>4, <1>5, <2>1 DEF IInv, KeptAreCurrent, Unacknowledged
<1>28. ExecutedAreKept'
  <2> SUFFICES ASSUME NEW c \in Waiting, client[c].request.kind = "change",
                      ran'[c][client[c].request.seq].times > 0, ran'[c][client[c].request.seq].utoken = utoken,
                      now - ran'[c][client[c].request.seq].at <= MaxAge
               PROVE  \E cell \in kept' :
                        /\ cell.tok = client[c].request.token /\ cell.msg_seq = client[c].request.seq
                        /\ cell.rpy.to = c /\ cell.ts = ran'[c][client[c].request.seq].at
    BY <1>4, <1>5 DEF ExecutedAreKept
  <2> DEFINE r == client[c].request
  <2>1. /\ c \in Client /\ r \in Request /\ Identity(r) \in Sent /\ r.from = c /\ r.seq = client[c].sequence
        /\ r.seq \in 1 .. MaxSeq
    BY <1>1, SentType DEF Waiting, IInv, RequestsKnown, Request
  <2>2. CASE exec /\ c = m.from /\ r.seq = m.seq
    <3>1. r.token = m.token
      BY <1>2, <1>3, <2>1, <2>2, IdentityFields
    <3>2. new \in kept'
      BY <1>4, <2>2 DEF exec
    <3> QED BY <1>7, <1>8, <1>16, <2>2, <3>1, <3>2
  <2>3. CASE ran'[c][r.seq] = ran[c][r.seq]
    <3>1. PICK cell \in kept : /\ cell.tok = r.token /\ cell.msg_seq = r.seq
                               /\ cell.rpy.to = c /\ cell.ts = ran[c][r.seq].at
      BY <2>3 DEF IInv, ExecutedAreKept
\* The reply is not the one that the token of the request acknowledges: that one is
\* to an earlier request of the client.
    <3>2. ASSUME Accepted(m), cell.next_tok = m.token PROVE FALSE
      <4>1. cell.rpy \in Given /\ cell.rpy.utoken = utoken /\ cell.rpy.token = m.token /\ cell.rpy.seq = r.seq
        BY <3>1, <3>2 DEF Given, IInv, KeptAreCurrent
      <4>2. cell.rpy.to = m.from /\ cell.rpy.seq < m.seq
        BY <1>1, <1>2, <1>9, <3>2, <4>1 DEF IInv, TokensAreOwned
      <4>3. m.seq <= client[m.from].sequence
        BY <1>1, <1>2 DEF IInv, RequestsKnown
      <4> QED BY <1>1, <2>1, <3>1, <4>1, <4>2, <4>3
    <3>3. cell \in kept'
      <4>1. now - cell.ts <= MaxAge
        BY <2>3, <3>1
      <4>2. cell.ts \in Nat
        BY <1>1 DEF TypeOK, Cell
      <4>3. ~(now - cell.ts > MaxAge)
        BY <1>1, <4>1, <4>2, CmdAssumption DEF CmdAssumption
      <4> QED BY <1>4, <3>2, <4>3 DEF Unacknowledged
    <3> QED BY <2>3, <3>1, <3>3
  <2> QED BY <1>16, <2>1, <2>2, <2>3
<1>29. SuccessIsOwn'
  <2> SUFFICES ASSUME NEW c \in Client, answer[c] # None, answer[c].kind = "change", answer[c].status = "success"
               PROVE  ran'[c][answer[c].seq].times = 1
    BY <1>4 DEF SuccessIsOwn
  <2>1. answer[c].seq \in 1 .. MaxSeq
    <3>1. answer[c] \in Printable
      BY <1>1 DEF TypeOK
    <3> QED BY <3>1 DEF Printable
  <2> QED BY <1>22, <2>1 DEF IInv, SuccessIsOwn
<1> QED BY <1>18, <1>19, <1>20, <1>21, <1>23, <1>25, <1>26, <1>27, <1>28, <1>29 DEF IInv

\* Every step keeps the invariant.
LEMMA IInvNext == IInv /\ [Next]_vars => IInv'
<1> SUFFICES ASSUME IInv, [Next]_vars PROVE IInv'
  OBVIOUS
<1>1. ASSUME NEW m \in requests, Receive(m) PROVE IInv'
  BY <1>1, SendAgainStep, ProcessStep DEF Receive
<1>2. ASSUME NEW c \in Client, NEW kind \in Kind, Submit(c, kind) PROVE IInv'
  BY <1>2, SubmitStep
<1>3. ASSUME NEW c \in Client, Timeout(c) PROVE IInv'
  BY <1>3, TryAgainStep DEF Timeout
<1>4. ASSUME NEW c \in Client, NEW r \in replies, ReceiveBad(c, r) PROVE IInv'
  <2>1. replies' \subseteq replies
    BY <1>4, ArrivesFewer DEF ReceiveBad
  <2> QED BY <1>4, <2>1, TryAgainStep DEF ReceiveBad
<1>5. ASSUME NEW c \in Client, NEW r \in replies, ReceiveReply(c, r) PROVE IInv'
  BY <1>5, ReceiveReplyStep
<1>6. ASSUME Lose \/ UNCHANGED vars PROVE IInv'
  <2>1. /\ requests' \subseteq requests /\ replies' \subseteq replies
        /\ UNCHANGED <<daemon, client, now, ran, answer, logons>>
    BY <1>6 DEF Lose, vars, network
  <2>2. Sent' \subseteq Sent /\ Waiting' = Waiting
    BY <2>1, FewerSent
  <2>3. client \in [Client -> State] /\ requests' \subseteq Request
    BY <2>1 DEF IInv, TypeOK
  <2> QED BY <2>1, <2>2, <2>3, QuietStep
<1> QED BY <1>1, <1>2, <1>3, <1>4, <1>5, <1>6, RestartStep, TickStep DEF Next

-----------------------------------------------------------------------------
(* The commands: the theorems. *)

\* The invariant holds in every behaviour of the daemon, its clients and the network.
THEOREM CmdIInv == Spec => []IInv
<1>1. Init => IInv
  BY IInvInit
<1>2. IInv /\ [Next]_vars => IInv'
  BY IInvNext
<1> QED BY <1>1, <1>2, PTL DEF Spec

\* A request that changes something is executed once at most and a logon gets one
\* token of a run, whatever is lost, repeated or delayed and whenever chronyd is
\* restarted (check_token, check_unique_ts).
THEOREM CmdExecutedOnce == Spec => []ExecutedOnce
<1>1. IInv => AtMostOnce
  BY DEF IInv, ExecutedAreBurnt, AtMostOnce
<1>2. IInv => LogonOnce
  <2> SUFFICES ASSUME IInv, NEW x \in DOMAIN logons PROVE logons[x] <= utoken
    BY DEF LogonOnce
  <2>1. DOMAIN logons = Client \X (1 .. MaxSeq)
    BY DEF IInv, TypeOK
  <2>2. PICK c \in Client, s \in 1 .. MaxSeq : x = <<c, s>>
    BY <2>1
  <2> QED BY <2>2 DEF IInv, LogonsAreSeen
<1> QED BY <1>1, <1>2, CmdIInv, PTL DEF ExecutedOnce

\* The success chronyc prints is that of the command it sent, though replies to
\* other commands and other clients, and kept ones, may arrive at any moment
\* (submit_request, lookup_reply).
THEOREM CmdSuccessIsOwn == Spec => []SuccessIsOwn
<1>1. IInv => SuccessIsOwn
  BY DEF IInv
<1> QED BY <1>1, CmdIInv, PTL

\* While chronyc waits for the answer to a change that was executed, the reply is kept,
\* until it is stale or chronyd is restarted (token_acknowledged, save_reply).
THEOREM CmdRetryFindsReply == Spec => []RetryFindsReply
<1>1. IInv => RetryFindsReply
  <2> SUFFICES ASSUME IInv, NEW c \in Client, client[c].request # None,
                      client[c].request.kind = "change", ran[c][client[c].request.seq].times > 0,
                      ran[c][client[c].request.seq].utoken = utoken,
                      now - ran[c][client[c].request.seq].at <= MaxAge
               PROVE  \E cell \in kept : cell.tok = client[c].request.token /\ cell.msg_seq = client[c].request.seq
    BY DEF RetryFindsReply
  <2>1. c \in Waiting
    BY DEF Waiting
  <2> QED BY <2>1 DEF IInv, ExecutedAreKept
<1> QED BY <1>1, CmdIInv, PTL

-----------------------------------------------------------------------------
(* The keys. *)

\* The key id is at pos of a table, or is not there and pos says so.
Located(table, id, pos) ==
  \/ pos = -1 /\ \A i \in DOMAIN table : table[i].id # id
  \/ pos \in DOMAIN table /\ table[pos].id = id

\* What the cache remembers is true of the file read last.
KeysIInv ==
  /\ keys \in Seq(Key!Key)
  /\ cache_valid => Located(keys, cache_key_id, cache_key_pos)
  /\ Key!KeysAreCurrent

LEMMA LookupIs ==
  ASSUME NEW table \in Seq(Key!Key), NEW id
  PROVE  Located(table, id, Key!LookupKey(table, id))
BY DEF Key!LookupKey, Located

LEMMA KeysInitStep == Key!Init => KeysIInv
BY DEF Key!Init, Key!Nobody, Key!KeysAreCurrent, KeysIInv

LEMMA ReloadStep ==
  ASSUME NEW f \in Key!File, Key!Reload(f)
  PROVE  KeysIInv'
<1>1. f \in Seq(Key!Key)
  BY TablesAssumption DEF Key!KeysAssumption, Key!File, Key!BoundedSeq, Key!SeqOf
<1>2. keys' = f /\ key_answer' = Key!Nobody
  BY DEF Key!Reload
<1>3. cache_valid' => Located(f, cache_key_id', cache_key_pos')
  <2>1. CASE f = <<>>
    BY <2>1 DEF Key!Reload, Key!SetCache, Key!CacheAfter
  <2>2. CASE f # <<>>
    <3> DEFINE id == f[Len(f)].id
    <3>1. cache_key_id' = id /\ cache_key_pos' = Key!LookupKey(f, id)
      BY <2>2 DEF Key!Reload, Key!SetCache, Key!CacheAfter
    <3> QED BY <1>1, <3>1, LookupIs
  <2> QED BY <2>1, <2>2
<1> QED BY <1>1, <1>2, <1>3 DEF KeysIInv, Key!KeysAreCurrent, Key!Nobody

LEMMA KeyPosIs ==
  ASSUME KeysIInv, NEW id
  PROVE  Located(keys, id, Key!KeyPos(id))
BY LookupIs DEF KeysIInv, Key!KeyPos

LEMMA UseKeyStep ==
  ASSUME KeysIInv, NEW id, Key!UseKey(id)
  PROVE  KeysIInv'
<1> DEFINE pos == Key!KeyPos(id)
<1>1. Located(keys, id, pos)
  BY KeyPosIs
<1>2. /\ UNCHANGED keys /\ cache_key_id' = id /\ cache_key_pos' = pos
      /\ key_answer' = [call |-> "use", id |-> id, key |-> IF pos < 0 THEN <<>> ELSE <<keys[pos]>>]
  BY DEF Key!UseKey, Key!SetCache
<1> HIDE DEF pos
<1>3. keys \in Seq(Key!Key)
  BY DEF KeysIInv
<1>4. CASE pos = -1 /\ \A i \in DOMAIN keys : keys[i].id # id
  <2>1. key_answer'.call = "use" /\ key_answer'.id = id /\ key_answer'.key = <<>>
    BY <1>2, <1>4
  <2>2. Key!KeysAreCurrent'
    BY <1>2, <1>4, <2>1 DEF Key!KeysAreCurrent
  <2> QED BY <1>1, <1>2, <1>3, <2>2 DEF KeysIInv
<1>5. CASE pos \in DOMAIN keys /\ keys[pos].id = id
  <2>1. pos \in 1 .. Len(keys) /\ ~(pos < 0)
    BY <1>3, <1>5
  <2>2. key_answer'.call = "use" /\ key_answer'.id = id /\ key_answer'.key = <<keys[pos]>>
    BY <1>2, <2>1
  <2>3. <<keys[pos]>> # <<>> /\ <<keys[pos]>>[1] = keys[pos]
    OBVIOUS
  <2>4. Key!Contains(keys, keys[pos])
    BY <2>1 DEF Key!Contains
  <2>5. Key!KeysAreCurrent'
    BY <1>2, <1>5, <2>2, <2>3, <2>4 DEF Key!KeysAreCurrent
  <2> QED BY <1>1, <1>2, <1>3, <2>5 DEF KeysIInv
<1> QED BY <1>1, <1>4, <1>5 DEF Located

LEMMA KeyKnownStep ==
  ASSUME KeysIInv, NEW id, Key!KeyKnown(id)
  PROVE  KeysIInv'
<1> DEFINE cached == cache_valid /\ id = cache_key_id
           pos == Key!LookupKey(keys, id)
<1>1. keys \in Seq(Key!Key) /\ Located(keys, id, pos) /\ (cached => Located(keys, id, cache_key_pos))
  BY LookupIs DEF KeysIInv
<1>2. /\ UNCHANGED keys
      /\ IF cached \/ pos < 0 THEN UNCHANGED <<cache_valid, cache_key_id, cache_key_pos>>
         ELSE cache_key_id' = id /\ cache_key_pos' = pos
      /\ key_answer'.call = IF cached \/ pos >= 0 THEN "known" ELSE "unknown"
      /\ key_answer'.id = id
  BY DEF Key!KeyKnown, Key!SetCache
<1> HIDE DEF pos
<1>3. cache_valid' => Located(keys, cache_key_id', cache_key_pos')
  BY <1>1, <1>2 DEF KeysIInv
<1>4. Key!KeysAreCurrent'
  <2>1. CASE cached
    <3>1. key_answer'.call = "known" /\ UNCHANGED <<keys, cache_key_id, cache_key_pos>>
      BY <1>2, <2>1
    <3> QED BY <1>1, <1>2, <2>1, <3>1 DEF Key!KeysAreCurrent, Located
  <2>2. CASE ~cached /\ pos >= 0
    <3>1. key_answer'.call = "known" /\ \E i \in DOMAIN keys : keys[i].id = id
      BY <1>1, <1>2, <2>2 DEF Located
    <3> QED BY <1>2, <3>1 DEF Key!KeysAreCurrent
  <2>3. CASE ~cached /\ ~(pos >= 0)
    <3>1. key_answer'.call = "unknown" /\ \A i \in DOMAIN keys : keys[i].id # id
      BY <1>1, <1>2, <2>3 DEF Located
    <3> QED BY <1>2, <3>1 DEF Key!KeysAreCurrent
  <2> QED BY <2>1, <2>2, <2>3
<1> QED BY <1>1, <1>2, <1>3, <1>4 DEF KeysIInv

LEMMA KeysNextStep == KeysIInv /\ [Key!Next]_keyVars => KeysIInv'
<1> SUFFICES ASSUME KeysIInv, [Key!Next]_keyVars PROVE KeysIInv'
  OBVIOUS
<1>1. CASE UNCHANGED keyVars
  BY <1>1 DEF keyVars, KeysIInv, Key!KeysAreCurrent
<1> QED BY <1>1, ReloadStep, UseKeyStep, KeyKnownStep DEF Key!Next

-----------------------------------------------------------------------------
(* The times entered by the administrator. *)

Entry == [offset : Int, mistake : Int]

ManualIInv == samples \in Seq(Entry) /\ err \in Int /\ Mnl!EntriesHold

LEMMA ManualInitStep == Mnl!Init => ManualIInv
BY TablesAssumption DEF Mnl!Init, ManualIInv, Mnl!EntriesHold, Mnl!ManualAssumption

\* The slew that follows an entry moves every offset with the clock.
LEMMA SetSystemHolds ==
  ASSUME NEW s \in Seq(Entry), Len(s) <= MAX_SAMPLES, err \in Int, NEW slew_by \in Int,
         \A i \in DOMAIN s : s[i].offset = err - s[i].mistake,
         samples' = Mnl!Slewed(s, slew_by), err' = err - slew_by
  PROVE  ManualIInv'
<1>1. samples' = [i \in 1 .. Len(s) |-> [s[i] EXCEPT !.offset = @ - slew_by]]
  BY DEF Mnl!Slewed
<1>2. ASSUME NEW i \in 1 .. Len(s)
      PROVE  /\ [s[i] EXCEPT !.offset = @ - slew_by] \in Entry
             /\ samples'[i].offset = err' - samples'[i].mistake
  <2>1. s[i] \in Entry /\ s[i].offset = err - s[i].mistake
    OBVIOUS
  <2> DEFINE moved == s[i].offset - slew_by
             e == [s[i] EXCEPT !.offset = moved]
  <2>2. moved \in Int /\ s[i].mistake \in Int
    BY <2>1 DEF Entry
  <2>3. e \in Entry /\ e.offset = moved /\ e.mistake = s[i].mistake
    <3> HIDE DEF moved
    <3> QED BY <2>1, <2>2 DEF Entry
  <2>4. samples'[i] = e
    BY <1>1
  <2>5. moved = err' - s[i].mistake
    BY <2>1, <2>2
  <2> QED BY <2>3, <2>4, <2>5
<1>3. samples' \in Seq(Entry) /\ Len(samples') = Len(s) /\ DOMAIN samples' = 1 .. Len(s)
  BY <1>1, <1>2
<1>4. err' \in Int /\ UNCHANGED MAX_SAMPLES
  OBVIOUS
<1> QED BY <1>2, <1>3, <1>4 DEF ManualIInv, Mnl!EntriesHold

LEMMA AcceptTimestampStep ==
  ASSUME ManualIInv, NEW m \in Mistakes, Mnl!AcceptTimestamp(m)
  PROVE  ManualIInv'
<1> DEFINE left == IF Len(samples) = MAX_SAMPLES THEN Tail(samples) ELSE samples
           entry == [offset |-> err - m, mistake |-> m]
           s == Append(left, entry)
<1>1. /\ samples \in Seq(Entry) /\ err \in Int /\ m \in Int /\ MAX_SAMPLES \in Nat \ {0}
      /\ Len(samples) <= MAX_SAMPLES /\ \A i \in DOMAIN samples : samples[i].offset = err - samples[i].mistake
  BY TablesAssumption DEF ManualIInv, Mnl!EntriesHold, Mnl!ManualAssumption
<1>2. samples' = Mnl!Slewed(s, err - m) /\ err' = err - (err - m)
  BY DEF Mnl!AcceptTimestamp, Mnl!SetSystem
<1>3. entry \in Entry /\ entry.offset = err - entry.mistake
  BY <1>1 DEF Entry
<1>4. /\ left \in Seq(Entry) /\ Len(left) < MAX_SAMPLES
      /\ \A i \in DOMAIN left : left[i].offset = err - left[i].mistake
  <2>1. CASE Len(samples) = MAX_SAMPLES
    <3>1. samples # <<>>
      BY <1>1, <2>1
    <3>2. Tail(samples) \in Seq(Entry) /\ Len(Tail(samples)) = Len(samples) - 1
          /\ \A i \in 1 .. Len(samples) - 1 : Tail(samples)[i] = samples[i + 1]
      BY <1>1, <3>1
    <3>3. \A i \in 1 .. Len(samples) - 1 : i + 1 \in DOMAIN samples
      BY <1>1
    <3> QED BY <1>1, <2>1, <3>2, <3>3
  <2>2. CASE Len(samples) # MAX_SAMPLES
    BY <1>1, <2>2
  <2> QED BY <2>1, <2>2
<1> HIDE DEF left, entry
<1>5. /\ s \in Seq(Entry) /\ Len(s) <= MAX_SAMPLES
      /\ \A i \in DOMAIN s : s[i].offset = err - s[i].mistake
  <2>1. s \in Seq(Entry) /\ Len(s) = Len(left) + 1 /\ DOMAIN s = 1 .. Len(left) + 1 /\ Len(left) \in Nat
    BY <1>3, <1>4
  <2>2. s[Len(left) + 1] = entry /\ \A i \in 1 .. Len(left) : s[i] = left[i]
    BY <1>3, <1>4
  <2> HIDE DEF s
  <2> QED BY <1>1, <1>3, <1>4, <2>1, <2>2
<1> HIDE DEF s
<1>6. err - m \in Int
  BY <1>1
<1> QED BY <1>1, <1>2, <1>5, <1>6, SetSystemHolds

LEMMA RemoveAtIs ==
  ASSUME NEW s \in Seq(Entry), NEW index \in DOMAIN s
  PROVE  LET t == Mnl!RemoveAt(s, index)
         IN t \in Seq(Entry) /\ Len(t) = Len(s) - 1 /\ \A i \in DOMAIN t : \E j \in DOMAIN s : t[i] = s[j]
<1> DEFINE a == SubSeq(s, 1, index - 1)
           b == SubSeq(s, index + 1, Len(s))
<1>0. Len(s) \in Nat /\ index \in 1 .. Len(s) /\ DOMAIN s = 1 .. Len(s)
  OBVIOUS
<1>1. a \in Seq(Entry) /\ Len(a) = index - 1 /\ \A i \in 1 .. index - 1 : a[i] = s[i]
  OBVIOUS
<1>2. b \in Seq(Entry) /\ Len(b) = Len(s) - index /\ \A i \in 1 .. Len(s) - index : b[i] = s[i + index]
  OBVIOUS
<1> HIDE DEF a, b
<1> DEFINE t == a \o b
<1>3. /\ t \in Seq(Entry) /\ Len(t) = Len(s) - 1
      /\ \A i \in 1 .. Len(s) - 1 : t[i] = IF i <= index - 1 THEN a[i] ELSE b[i - (index - 1)]
  <2>1. /\ t \in Seq(Entry) /\ Len(t) = Len(a) + Len(b)
        /\ \A i \in 1 .. Len(a) + Len(b) : t[i] = IF i <= Len(a) THEN a[i] ELSE b[i - Len(a)]
    BY <1>1, <1>2, ConcatProperties, Zenon
  <2>2. Len(a) = index - 1 /\ Len(a) + Len(b) = Len(s) - 1
    BY <1>0, <1>1, <1>2
  <2> HIDE DEF t
  <2> QED BY <2>1, <2>2
<1> HIDE DEF t
<1>4. ASSUME NEW i \in 1 .. Len(t) PROVE \E j \in DOMAIN s : t[i] = s[j]
  <2>1. CASE i < index
    <3>1. i \in 1 .. Len(s) - 1 /\ i <= index - 1 /\ i \in 1 .. index - 1 /\ i \in DOMAIN s
      BY <1>0, <1>3, <2>1
    <3>2. t[i] = a[i] /\ a[i] = s[i]
      BY <1>1, <1>3, <3>1
    <3> QED BY <3>1, <3>2
  <2>2. CASE ~(i < index)
    <3>1. t[i] = b[i - (index - 1)] /\ i - (index - 1) \in 1 .. Len(s) - index
      <4>1. i \in 1 .. Len(s) - 1 /\ ~(i <= index - 1) /\ i - (index - 1) \in 1 .. Len(s) - index
        BY <1>0, <1>3, <2>2
      <4> QED BY <1>3, <4>1
    <3>2. t[i] = s[(i - (index - 1)) + index]
      BY <1>2, <3>1
    <3>3. (i - (index - 1)) + index = i + 1 /\ i + 1 \in DOMAIN s
      BY <1>0, <1>3, <3>1
    <3> QED BY <3>2, <3>3
  <2> QED BY <2>1, <2>2
<1>5. Mnl!RemoveAt(s, index) = t /\ DOMAIN t = 1 .. Len(t)
  BY <1>3 DEF Mnl!RemoveAt, t, a, b
<1> QED BY <1>3, <1>4, <1>5

LEMMA DeleteSampleStep ==
  ASSUME ManualIInv, NEW index, Mnl!DeleteSample(index)
  PROVE  ManualIInv'
<1> DEFINE s == Mnl!RemoveAt(samples, index)
<1>1. /\ samples \in Seq(Entry) /\ err \in Int /\ index \in DOMAIN samples /\ MaxError \in Nat /\ MAX_SAMPLES \in Nat
      /\ Len(samples) <= MAX_SAMPLES /\ \A i \in DOMAIN samples : samples[i].offset = err - samples[i].mistake
  BY TablesAssumption DEF ManualIInv, Mnl!EntriesHold, Mnl!DeleteSample, Mnl!ManualAssumption
<1>2. PICK slew_by \in Mnl!Intercepts(s) : samples' = Mnl!Slewed(s, slew_by) /\ err' = err - slew_by
  BY DEF Mnl!DeleteSample, Mnl!SetSystem
<1>3. s \in Seq(Entry) /\ Len(s) = Len(samples) - 1 /\ \A i \in DOMAIN s : \E j \in DOMAIN samples : s[i] = samples[j]
  BY <1>1, RemoveAtIs
<1> HIDE DEF s
<1>4. slew_by \in Int
  <2>1. Len(s) = 2 => s[2] \in Entry
    <3> SUFFICES ASSUME Len(s) = 2 PROVE s[2] \in Entry
      OBVIOUS
    <3>1. 2 \in DOMAIN s
      BY <1>3
    <3> QED BY <1>3, <3>1
  <2> QED BY <1>1, <1>2, <2>1 DEF Mnl!Intercepts, Entry
<1>5. Len(s) <= MAX_SAMPLES /\ \A i \in DOMAIN s : s[i].offset = err - s[i].mistake
  BY <1>1, <1>3
<1> QED BY <1>1, <1>2, <1>3, <1>4, <1>5, SetSystemHolds

LEMMA ManualNextStep == ManualIInv /\ [Mnl!Next]_manualVars => ManualIInv'
<1> SUFFICES ASSUME ManualIInv, [Mnl!Next]_manualVars PROVE ManualIInv'
  OBVIOUS
<1>1. CASE UNCHANGED manualVars \/ \E on \in BOOLEAN : Mnl!Enable(on)
  BY <1>1 DEF manualVars, Mnl!Enable, ManualIInv, Mnl!EntriesHold
<1>2. CASE Mnl!ManualReset
  BY <1>2, TablesAssumption DEF Mnl!ManualReset, ManualIInv, Mnl!EntriesHold, Mnl!ManualAssumption
<1>3. ASSUME NEW d \in Corrections, Mnl!Slew(d) PROVE ManualIInv'
  BY <1>3, SetSystemHolds, TablesAssumption DEF Mnl!Slew, ManualIInv, Mnl!EntriesHold, Mnl!ManualAssumption
<1> QED BY <1>1, <1>2, <1>3, AcceptTimestampStep, DeleteSampleStep DEF Mnl!Next

-----------------------------------------------------------------------------
(* The broadcasts. *)

Pointer == [array : Nat, index : Nat]

\* The array has room for the destinations, and a first block is never moved.
BroadcastIInv ==
  /\ n_destinations \in Nat /\ max_destinations \in Nat /\ array \in Nat
  /\ timeouts \in SUBSET Pointer /\ IsFiniteSet(timeouts)
  /\ n_destinations <= max_destinations
  /\ n_destinations > 0 => Block <= max_destinations
  /\ n_destinations = 0 => max_destinations = 0
  /\ Brd!TimeoutsPoint

LEMMA BrdCardinality == \A S : Brd!Cardinality(S) = Cardinality(S)
BY DEF Brd!Cardinality, Cardinality

LEMMA BroadcastInitStep == Brd!Init => BroadcastIInv
<1> SUFFICES ASSUME Brd!Init PROVE BroadcastIInv
  OBVIOUS
<1>1. IsFiniteSet({}) /\ Cardinality({}) = 0
  BY FS_EmptySet
<1> QED BY <1>1, BrdCardinality DEF Brd!Init, BroadcastIInv, Brd!TimeoutsPoint

LEMMA AddDestinationStep ==
  ASSUME BroadcastIInv, Brd!AddDestination
  PROVE  BroadcastIInv'
<1> DEFINE full == max_destinations = n_destinations
           t == [array |-> array', index |-> n_destinations]
<1>1. /\ n_destinations' = n_destinations + 1
      /\ max_destinations' = IF full THEN max_destinations + Block ELSE max_destinations
      /\ array' \in IF full THEN {array, array + 1} ELSE {array}
      /\ timeouts' = timeouts \cup {t}
  BY DEF Brd!AddDestination, Brd!ThePlace
<1>2. /\ n_destinations \in Nat /\ max_destinations \in Nat /\ array \in Nat /\ Block \in Nat \ {0}
      /\ timeouts \in SUBSET Pointer /\ IsFiniteSet(timeouts)
      /\ n_destinations <= max_destinations
      /\ n_destinations > 0 => Block <= max_destinations
      /\ n_destinations = 0 => max_destinations = 0
      /\ {u.index : u \in timeouts} = 0 .. n_destinations - 1
      /\ Cardinality(timeouts) = n_destinations
      /\ n_destinations <= Block => \A u \in timeouts : u.array = array
  BY TablesAssumption, BrdCardinality DEF BroadcastIInv, Brd!TimeoutsPoint, Brd!BlockAssumption
<1>3. t \in Pointer /\ t.index = n_destinations /\ t.array = array'
  BY <1>1, <1>2 DEF Pointer
<1> HIDE DEF t
<1>4. t \notin timeouts
  <2>1. \A u \in timeouts : u.index \in 0 .. n_destinations - 1
    BY <1>2
  <2> QED BY <1>2, <1>3, <2>1
<1>5. IsFiniteSet(timeouts') /\ Cardinality(timeouts') = n_destinations'
  BY <1>1, <1>2, <1>4, FS_AddElement
<1>6. {u.index : u \in timeouts'} = 0 .. n_destinations' - 1
  <2>1. {u.index : u \in timeouts'} = {u.index : u \in timeouts} \cup {n_destinations}
    BY <1>1, <1>3
  <2> QED BY <1>1, <1>2, <2>1
<1>7. n_destinations' <= Block => \A u \in timeouts' : u.array = array'
  <2>1. CASE n_destinations = 0
    <3>1. \A u \in timeouts : u.index \in 0 .. -1
      BY <1>2, <2>1
    <3>2. timeouts = {}
      BY <3>1
    <3> QED BY <1>1, <1>3, <3>2
  <2>2. CASE n_destinations > 0 /\ n_destinations' <= Block
    <3>1. ~full /\ n_destinations <= Block
      BY <1>1, <1>2, <2>2
    <3>2. array' = array
      BY <1>1, <3>1
    <3> QED BY <1>1, <1>2, <1>3, <3>1, <3>2
  <2> QED BY <1>2, <2>1, <2>2
<1>8. /\ n_destinations' \in Nat /\ max_destinations' \in Nat /\ array' \in Nat /\ timeouts' \in SUBSET Pointer
      /\ n_destinations' <= max_destinations' /\ n_destinations' > 0 /\ Block <= max_destinations'
  <2>1. timeouts' \in SUBSET Pointer
    BY <1>1, <1>2, <1>3, Zenon
  <2>2. n_destinations' \in Nat /\ n_destinations' > 0 /\ array' \in Nat
    BY <1>1, <1>2
  <2>3. CASE full
    BY <1>1, <1>2, <2>1, <2>2, <2>3
  <2>4. CASE ~full
    BY <1>1, <1>2, <2>1, <2>2, <2>4
  <2> QED BY <2>3, <2>4
<1> QED BY <1>5, <1>6, <1>7, <1>8, BrdCardinality DEF BroadcastIInv, Brd!TimeoutsPoint

LEMMA BroadcastNextStep == BroadcastIInv /\ [Brd!Next]_broadcastVars => BroadcastIInv'
<1> SUFFICES ASSUME BroadcastIInv, [Brd!Next]_broadcastVars PROVE BroadcastIInv'
  OBVIOUS
<1>1. CASE UNCHANGED <<n_destinations, max_destinations, array, timeouts>>
  BY <1>1 DEF BroadcastIInv, Brd!TimeoutsPoint
<1> QED BY <1>1, AddDestinationStep DEF Brd!Next, Brd!TimeoutHandler, broadcastVars

-----------------------------------------------------------------------------
(* The address filter: the nodes of its tree. *)

Below(n, t) == Adf!Below(n, t)
First(n, k) == Adf!First(n, k)

LEMMA NodeIs ==
  ASSUME NEW n \in Adf!Node
  PROVE  /\ n \in Seq(Adf!Digit) /\ Len(n) \in 0 .. FilterLevels
         /\ n \in [1 .. Len(n) -> Adf!Digit]
<1>1. FilterLevels \in Nat
  BY FilterAssumption DEF Adf!SubnetsAssumption
<1>2. PICK k \in 0 .. FilterLevels : n \in [1 .. k -> Adf!Digit]
  BY DEF Adf!Node
<1>3. k \in Nat
  BY <1>1
<1>4. n \in Seq(Adf!Digit) /\ Len(n) = k
  BY <1>2, <1>3
<1> QED BY <1>2, <1>4

LEMMA FirstIs ==
  ASSUME NEW n \in Adf!Node, NEW k \in 0 .. Len(n)
  PROVE  /\ First(n, k) \in Adf!Node /\ Len(First(n, k)) = k
         /\ \A i \in 1 .. k : First(n, k)[i] = n[i]
<1>1. /\ n \in Seq(Adf!Digit) /\ Len(n) \in 0 .. FilterLevels /\ n \in [1 .. Len(n) -> Adf!Digit]
      /\ FilterLevels \in Nat
  BY NodeIs, FilterAssumption DEF Adf!SubnetsAssumption
<1>2. First(n, k) = [i \in 1 .. k |-> n[i]]
  BY <1>1 DEF First, Adf!First
<1>3. First(n, k) \in [1 .. k -> Adf!Digit]
  BY <1>1, <1>2
<1>4. Len(First(n, k)) = k
  BY <1>1, <1>3
<1>5. First(n, k) \in Adf!Node
  BY <1>1, <1>3 DEF Adf!Node
<1> QED BY <1>2, <1>4, <1>5

LEMMA SameNode ==
  ASSUME NEW n \in Adf!Node, NEW t \in Adf!Node, Len(n) = Len(t), \A i \in 1 .. Len(n) : n[i] = t[i]
  PROVE  n = t
BY NodeIs

LEMMA BelowIs ==
  ASSUME NEW n \in Adf!Node, NEW t \in Adf!Node
  PROVE  Below(n, t) <=> Len(t) <= Len(n) /\ \A i \in 1 .. Len(t) : t[i] = n[i]
<1>1. /\ n \in Seq(Adf!Digit) /\ Len(n) \in Nat /\ n \in [1 .. Len(n) -> Adf!Digit]
      /\ t \in Seq(Adf!Digit) /\ Len(t) \in Nat /\ t \in [1 .. Len(t) -> Adf!Digit]
  BY NodeIs
<1>2. SubSeq(t, 1, Len(t)) = [i \in 1 .. Len(t) |-> t[i]] /\ SubSeq(n, 1, Len(t)) = [i \in 1 .. Len(t) |-> n[i]]
  BY <1>1
<1>3. SubSeq(t, 1, Len(t)) = SubSeq(n, 1, Len(t)) <=> \A i \in 1 .. Len(t) : t[i] = n[i]
  BY <1>1, <1>2
<1> QED BY <1>3 DEF Below, Adf!Below, Adf!IsPrefix

\* What the proofs need of the tree.
LEMMA BelowFirst ==
  ASSUME NEW n \in Adf!Node, NEW t \in Adf!Node
  PROVE  Below(n, t) <=> Len(t) \in 0 .. Len(n) /\ t = First(n, Len(t))
<1>1. Len(t) \in Nat /\ Len(n) \in Nat
  BY NodeIs
<1>2. CASE Len(t) <= Len(n)
  <2>1. Len(t) \in 0 .. Len(n)
    BY <1>1, <1>2
  <2>2. /\ First(n, Len(t)) \in Adf!Node /\ Len(First(n, Len(t))) = Len(t)
        /\ \A i \in 1 .. Len(t) : First(n, Len(t))[i] = n[i]
    BY <2>1, FirstIs
  <2>3. (\A i \in 1 .. Len(t) : t[i] = n[i]) => t = First(n, Len(t))
    BY <2>2, SameNode
  <2> QED BY <1>2, <2>1, <2>2, <2>3, BelowIs
<1>3. CASE ~(Len(t) <= Len(n))
  BY <1>1, <1>3, BelowIs
<1> QED BY <1>2, <1>3

LEMMA BelowNests ==
  ASSUME NEW n \in Adf!Node, NEW a \in Adf!Node, NEW b \in Adf!Node, Below(n, a)
  PROVE  /\ Below(a, b) => Below(n, b)
         /\ Below(n, b) /\ Len(b) <= Len(a) => Below(a, b)
         /\ Len(a) = Len(n) => a = n
         /\ Below(n, b) /\ Len(b) = Len(a) => a = b
<1>1. Len(n) \in Nat /\ Len(a) \in Nat /\ Len(b) \in Nat
  BY NodeIs
<1>2. /\ Len(a) <= Len(n) /\ \A i \in 1 .. Len(a) : a[i] = n[i]
      /\ Below(a, b) <=> Len(b) <= Len(a) /\ \A i \in 1 .. Len(b) : b[i] = a[i]
      /\ Below(n, b) <=> Len(b) <= Len(n) /\ \A i \in 1 .. Len(b) : b[i] = n[i]
  BY BelowIs
<1>3. Len(a) = Len(n) => a = n
  BY <1>2, SameNode
<1>4. Below(n, b) /\ Len(b) = Len(a) => a = b
  BY <1>2, SameNode
<1>5. Below(a, b) => Below(n, b)
  BY <1>1, <1>2
<1>6. Below(n, b) /\ Len(b) <= Len(a) => Below(a, b)
  BY <1>1, <1>2
<1> QED BY <1>3, <1>4, <1>5, <1>6

LEMMA RootIs ==
  /\ Adf!Root \in Adf!Node /\ Len(Adf!Root) = 0
  /\ \A n \in Adf!Node : Len(n) = 0 <=> n = Adf!Root
<1>1. FilterLevels \in Nat
  BY FilterAssumption DEF Adf!SubnetsAssumption
<1>2. Adf!Root \in [1 .. 0 -> Adf!Digit] /\ Len(Adf!Root) = 0
  BY DEF Adf!Root
<1>3. Adf!Root \in Adf!Node
  BY <1>1, <1>2 DEF Adf!Node
<1> QED BY <1>2, <1>3, SameNode

LEMMA AddressIsNode == Adf!Address \subseteq Adf!Node /\ \A ip \in Adf!Address : Len(ip) = FilterLevels
<1>1. FilterLevels \in Nat
  BY FilterAssumption DEF Adf!SubnetsAssumption
<1> QED BY <1>1 DEF Adf!Address, Adf!Node

RuleType == [subnet : Subnet, state : {"ALLOW", "DENY"}, all : BOOLEAN]

LEMMA TargetsAre ==
  ASSUME NEW r \in RuleType
  PROVE  /\ Adf!Targets(r.subnet) \subseteq Adf!Node
         /\ \A t \in Adf!Targets(r.subnet) : Len(t) = Adf!LevelOf(r)
<1> DEFINE s == r.subnet
           full == s.bits \div NBITS
           parent == Adf!First(s.ip, full)
<1>1. s \in Subnet /\ s \in [ip : Adf!Address, bits : 0 .. NBITS * FilterLevels] /\ Adf!Targets(s) \subseteq Adf!Node
  BY FilterAssumption DEF RuleType, Adf!SubnetsAssumption
<1>2. full \in Nat
  <2>1. s.bits \in Nat /\ NBITS \in Nat /\ NBITS > 0
    BY <1>1, FilterAssumption DEF Adf!SubnetsAssumption
  <2> QED BY <2>1
<1>3. parent \in Seq(Adf!Digit \cup {parent[i] : i \in 1 .. full}) /\ Len(parent) = full
  <2>1. parent = [i \in 1 .. full |-> s.ip[i]]
    BY <1>2 DEF Adf!First
  <2> HIDE DEF full, parent
  <2> QED BY <1>2, <2>1
<1>4. ASSUME NEW t \in Adf!Targets(s) PROVE Len(t) = Adf!LevelOf(r)
  <2>1. CASE s.bits % NBITS = 0
    BY <1>2, <1>3, <1>4, <2>1 DEF Adf!Targets, Adf!LevelOf
  <2>2. CASE s.bits % NBITS # 0
    <3>1. PICK x : t = Append(parent, x)
      BY <1>4, <2>2 DEF Adf!Targets
    <3>2. Len(t) = full + 1
      BY <1>3, <3>1
    <3> QED BY <2>2, <3>2 DEF Adf!LevelOf
  <2> QED BY <2>1, <2>2
<1> QED BY <1>1, <1>4

-----------------------------------------------------------------------------
(* The address filter: the inductive invariant. *)

\* Rule i sets node n, and no later rule for all has taken it away.
Sets(i, n) == i \in DOMAIN rules /\ n \in Adf!Targets(rules[i].subnet)
Covered(i, n) == \E t \in Adf!Targets(rules[i].subnet) : Below(n, t)
Stands(i, n) ==
  /\ Sets(i, n)
  /\ ~\E k \in DOMAIN rules : k > i /\ rules[k].all /\ Covered(k, n)
Standing(n) == {i \in DOMAIN rules : Stands(i, n)}
LastStanding(i, n) == i \in Standing(n) /\ \A k \in Standing(n) : k <= i

\* A node is in the state of the last rule that set it, or as it was made.
StatesAsRuled ==
  \A n \in Adf!Node :
    \/ Standing(n) = {} /\ state[n] = IF n = Adf!Root THEN "DENY" ELSE "AS_PARENT"
    \/ \E i \in Standing(n) : LastStanding(i, n) /\ state[n] = rules[i].state

\* There are tables on the way to a node that says something.
ReachedIfSet ==
  \A n \in Adf!Node : state[n] # "AS_PARENT" => \A k \in 0 .. Len(n) - 1 : First(n, k) \in extended

FilterIInv == rules \in Seq(RuleType) /\ StatesAsRuled /\ ReachedIfSet

LEMMA FilterInitStep == Adf!Init => FilterIInv
<1> SUFFICES ASSUME Adf!Init PROVE FilterIInv
  OBVIOUS
<1>1. rules = <<>> /\ state = [n \in Adf!Node |-> IF n = Adf!Root THEN "DENY" ELSE "AS_PARENT"]
  BY DEF Adf!Init
<1>2. rules \in Seq(RuleType)
  BY <1>1
<1>3. StatesAsRuled
  BY <1>1 DEF StatesAsRuled, Standing
<1>4. ReachedIfSet
  <2> SUFFICES ASSUME NEW n \in Adf!Node, state[n] # "AS_PARENT", NEW k \in 0 .. Len(n) - 1 PROVE FALSE
    BY DEF ReachedIfSet
  <2>1. n = Adf!Root
    BY <1>1
  <2> QED BY <2>1, RootIs
<1> QED BY <1>2, <1>3, <1>4 DEF FilterIInv

\* After one more rule the rules before stand where it has not taken them away.
LEMMA StandingAfter ==
  ASSUME rules \in Seq(RuleType), NEW r \in RuleType, rules' = Append(rules, r), NEW n \in Adf!Node
  PROVE  LET new == Len(rules) + 1
             covered == \E t \in Adf!Targets(r.subnet) : Below(n, t)
         IN Standing(n)' = (IF r.all /\ covered THEN {} ELSE Standing(n))
                             \cup (IF n \in Adf!Targets(r.subnet) THEN {new} ELSE {})
<1> DEFINE covered == \E t \in Adf!Targets(r.subnet) : Below(n, t)
<1>0. PICK new \in Nat : new = Len(rules) + 1
  OBVIOUS
<1>1. /\ DOMAIN rules = 1 .. Len(rules) /\ DOMAIN rules' = 1 .. new
      /\ rules'[new] = r /\ \A i \in DOMAIN rules : i # new /\ i < new /\ rules'[i] = rules[i]
  BY <1>0
<1>2. \A i \in DOMAIN rules : Sets(i, n)' <=> Sets(i, n)
  BY <1>1 DEF Sets
<1>3. Sets(new, n)' <=> n \in Adf!Targets(r.subnet)
  BY <1>1 DEF Sets
<1>4. \A i \in DOMAIN rules : Covered(i, n)' <=> Covered(i, n)
  BY <1>1 DEF Covered
<1>5. Covered(new, n)' <=> covered
  BY <1>1 DEF Covered
<1>6. \A i \in DOMAIN rules : Stands(i, n)' <=> Stands(i, n) /\ ~(r.all /\ covered)
  BY <1>1, <1>2, <1>4, <1>5 DEF Stands
<1>7. Stands(new, n)' <=> n \in Adf!Targets(r.subnet)
  BY <1>1, <1>3 DEF Stands
<1> HIDE DEF covered
<1>8. Standing(n)' = (IF r.all /\ covered THEN {} ELSE Standing(n))
                       \cup (IF n \in Adf!Targets(r.subnet) THEN {new} ELSE {})
  BY <1>1, <1>6, <1>7 DEF Standing
<1> QED BY <1>0, <1>8 DEF covered

LEMMA SetSubnetStep ==
  ASSUME FilterIInv, NEW subnet \in Subnet, NEW new_state \in {"ALLOW", "DENY"}, NEW all \in BOOLEAN,
         Adf!SetSubnet(subnet, new_state, all)
  PROVE  FilterIInv'
<1> DEFINE r == [subnet |-> subnet, state |-> new_state, all |-> all]
           targets == Adf!Targets(subnet)
           opened == UNION {{First(t, k) : k \in 0 .. Len(t) - 1} : t \in targets}
           closed == IF all THEN Adf!Closed(targets) ELSE {}
<1>1. /\ r \in RuleType /\ rules' = Append(rules, r)
      /\ extended' = (extended \cup opened) \ IF all THEN closed \cup targets ELSE {}
      /\ state' = [n \in Adf!Node |-> IF n \in targets THEN new_state
                                      ELSE IF n \in closed THEN "AS_PARENT" ELSE state[n]]
  BY DEF Adf!SetSubnet, RuleType, First
<1>2. rules \in Seq(RuleType) /\ StatesAsRuled /\ ReachedIfSet
  BY DEF FilterIInv
<1>3. targets \subseteq Adf!Node /\ \A t, u \in targets : Len(t) = Len(u)
  BY <1>1, TargetsAre
<1>4. closed = {n \in Adf!Node : all /\ \E t \in targets : n # t /\ Below(n, t)}
  BY DEF Adf!Closed, Below
<1> DEFINE covered(n) == \E t \in targets : Below(n, t)
<1>0. PICK new \in Nat : new = Len(rules) + 1
  BY <1>2
<1>5. \A n \in Adf!Node : Standing(n)' = (IF all /\ covered(n) THEN {} ELSE Standing(n))
                                           \cup (IF n \in targets THEN {new} ELSE {})
  BY <1>0, <1>1, <1>2, StandingAfter
<1>6. rules' \in Seq(RuleType) /\ \A i \in DOMAIN rules : rules'[i] = rules[i] /\ i < new
  BY <1>0, <1>1, <1>2
<1>7. rules'[new] = r /\ new \in Nat
  BY <1>0, <1>1, <1>2
<1>8. \A n \in Adf!Node : Below(n, n)
  BY BelowIs, NodeIs
<1> HIDE DEF closed, opened, targets
<1>9. StatesAsRuled'
  <2> SUFFICES ASSUME NEW n \in Adf!Node
               PROVE  \/ Standing(n)' = {} /\ state'[n] = IF n = Adf!Root THEN "DENY" ELSE "AS_PARENT"
                      \/ \E i \in Standing(n)' : LastStanding(i, n)' /\ state'[n] = rules'[i].state
    BY DEF StatesAsRuled
  <2>1. Standing(n) \subseteq DOMAIN rules /\ DOMAIN rules \subseteq Nat
    BY <1>2 DEF Standing
  <2>2. CASE n \in targets
    <3>1. new \in Standing(n)' /\ \A k \in Standing(n)' : k <= new
      BY <1>5, <1>6, <1>7, <2>1, <2>2
    <3>2. LastStanding(new, n)' /\ state'[n] = rules'[new].state
      <4>1. LastStanding(new, n)'
        BY <3>1 DEF LastStanding
      <4>2. state'[n] = new_state /\ r.state = new_state
        BY <1>1, <2>2
      <4> QED BY <1>7, <4>1, <4>2
    <3> QED BY <3>1, <3>2
  <2>3. CASE n \notin targets /\ all /\ covered(n)
    <3>1. Standing(n)' = {} /\ n \in closed
      BY <1>4, <1>5, <2>3
    <3>2. n # Adf!Root
      <4>1. PICK t \in targets : Below(n, t)
        BY <2>3
      <4>2. Len(t) <= Len(n) /\ Len(t) # Len(n) /\ Len(t) \in Nat /\ Len(n) \in Nat
        BY <1>3, <2>3, <4>1, BelowIs, BelowNests, NodeIs
      <4> QED BY <4>2, RootIs
    <3> QED BY <1>1, <2>3, <3>1, <3>2
  <2>4. CASE n \notin targets /\ ~(all /\ covered(n))
    <3>1. Standing(n)' = Standing(n) /\ n \notin closed
      BY <1>4, <1>5, <2>4
    <3>2. state'[n] = state[n]
      BY <1>1, <2>4, <3>1
    <3>3. \A i \in Standing(n) : LastStanding(i, n)' <=> LastStanding(i, n)
      BY <3>1 DEF LastStanding
    <3>4. \A i \in Standing(n) : rules'[i] = rules[i]
      BY <1>6, <2>1
    <3> QED BY <1>2, <3>1, <3>2, <3>3, <3>4 DEF StatesAsRuled
  <2> QED BY <2>2, <2>3, <2>4
<1>10. ReachedIfSet'
  <2> SUFFICES ASSUME NEW n \in Adf!Node, state'[n] # "AS_PARENT", NEW k \in 0 .. Len(n) - 1
               PROVE  First(n, k) \in extended'
    BY DEF ReachedIfSet
  <2> DEFINE p == First(n, k)
  <2>1. k \in 0 .. Len(n) /\ k < Len(n) /\ Len(n) \in Nat /\ k \in Nat
    BY NodeIs
  <2>2. p \in Adf!Node /\ Len(p) = k
    BY <2>1, FirstIs
  <2>3. Below(n, p) /\ n # p
    BY <2>1, <2>2, BelowFirst
  <2> HIDE DEF p
  <2>4. p \in extended \cup opened
    <3>1. CASE n \in targets
      BY <3>1 DEF opened, p
    <3>2. CASE n \notin targets
      BY <1>1, <1>2, <3>2 DEF ReachedIfSet, p
    <3> QED BY <3>1, <3>2
  <2>5. ASSUME all, p \in closed \cup targets PROVE FALSE
    <3>1. PICK t \in targets : Below(p, t)
      BY <1>3, <1>4, <1>8, <2>5
    <3>2. t \in Adf!Node /\ Below(n, t) /\ Len(t) <= Len(p) /\ Len(t) \in Nat
      BY <1>3, <2>2, <2>3, <3>1, BelowNests, BelowIs, NodeIs
    <3>3. Len(t) # Len(n)
      BY <2>1, <2>2, <3>2
    <3>4. n \notin targets
      BY <1>3, <3>3
    <3>5. n \in closed
      BY <1>4, <2>5, <3>2, <3>3
    <3> QED BY <1>1, <3>4, <3>5
  <2> QED BY <1>1, <2>4, <2>5 DEF p
<1> QED BY <1>6, <1>9, <1>10 DEF FilterIInv

LEMMA FilterNextStep == FilterIInv /\ [Adf!Next]_filterVars => FilterIInv'
<1> SUFFICES ASSUME FilterIInv, [Adf!Next]_filterVars PROVE FilterIInv'
  OBVIOUS
<1>1. CASE UNCHANGED filterVars
  <2>1. extended' = extended /\ state' = state /\ rules' = rules
    BY <1>1 DEF filterVars
  <2>2. \A n : Standing(n)' = Standing(n)
    BY <2>1 DEF Standing, Stands, Sets, Covered
  <2>3. StatesAsRuled'
    BY <2>1, <2>2 DEF FilterIInv, StatesAsRuled, LastStanding
  <2>4. ReachedIfSet'
    BY <2>1 DEF FilterIInv, ReachedIfSet
  <2> QED BY <2>1, <2>3, <2>4 DEF FilterIInv
<1> QED BY <1>1, SetSubnetStep DEF Adf!Next

-----------------------------------------------------------------------------
(* The address filter: access is what the rules say.  The tree ranks the rules by the *)
(* level they set, addrfilt.h by the length of their subnets.                         *)

About(ip) == {i \in DOMAIN rules : Adf!Covers(rules[i], ip)}
Level(i) == Adf!LevelOf(rules[i])
Length(i) == rules[i].subnet.bits

\* The rules about ip that the tree still holds, and the one it decides by.
InTree(ip) == {i \in About(ip) : ~\E k \in About(ip) : k > i /\ rules[k].all /\ Level(k) <= Level(i)}
TreeDecides(i, ip) == \A k \in InTree(ip) : Level(k) < Level(i) \/ (Level(k) = Level(i) /\ k <= i)
TreeRuled(ip) == InTree(ip) # {} /\ \E i \in InTree(ip) : TreeDecides(i, ip) /\ rules[i].state = "ALLOW"

LEMMA FilterMaxInSet ==
  ASSUME NEW N \in Nat, NEW S \in SUBSET (0 .. N), S # {}
  PROVE  Adf!Max(S) \in S /\ \A y \in S : Adf!Max(S) >= y
<1> DEFINE T == {N - x : x \in S}
<1>1. T \in SUBSET Nat /\ T # {}
  <2>1. \A x \in S : N - x \in Nat
    OBVIOUS
  <2> QED BY <2>1
<1>2. Min(T) \in T /\ \A y \in T : Min(T) <= y
  BY <1>1, MinInSet
<1>3. PICK x \in S : Min(T) = N - x
  BY <1>2
<1>4. \A y \in S : x >= y
  <2> TAKE y \in S
  <2>1. N - y \in T
    OBVIOUS
  <2>2. N - x <= N - y
    BY <1>2, <1>3, <2>1
  <2> QED BY <2>2
<1> HIDE DEF T
<1> QED BY <1>4 DEF Adf!Max

LEMMA TreeAllows ==
  ASSUME FilterIInv, NEW ip \in Adf!Address
  PROVE  Adf!IsAllowed(ip) = TreeRuled(ip)
<1> DEFINE p(k) == First(ip, k)
           reached(n) == \A k \in 0 .. n - 1 : p(k) \in extended
           says(n) == reached(n) /\ state[p(n)] # "AS_PARENT"
           M == {n \in 0 .. FilterLevels : says(n)}
           m == Adf!Max(M)
<1>1. ip \in Adf!Node /\ Len(ip) = FilterLevels /\ FilterLevels \in Nat
  BY AddressIsNode, FilterAssumption DEF Adf!SubnetsAssumption
<1>2. rules \in Seq(RuleType) /\ StatesAsRuled /\ ReachedIfSet
  BY DEF FilterIInv
<1>3. \A k \in 0 .. FilterLevels : p(k) \in Adf!Node /\ Len(p(k)) = k /\ Below(ip, p(k))
  BY <1>1, FirstIs, BelowFirst
<1>4. \A n \in 0 .. FilterLevels : \A k \in 0 .. n : First(p(n), k) = p(k)
  <2> TAKE n \in 0 .. FilterLevels
  <2> TAKE k \in 0 .. n
  <2>1. k \in 0 .. FilterLevels /\ Len(p(k)) = k /\ Len(p(n)) = n /\ k <= n
    BY <1>1, <1>3
  <2>2. p(n) \in Adf!Node /\ p(k) \in Adf!Node /\ Below(ip, p(n)) /\ Below(ip, p(k))
    BY <1>3, <2>1
  <2> HIDE DEF p
  <2>3. Below(p(n), p(k))
    BY <1>1, <2>1, <2>2, BelowNests
  <2> QED BY <2>1, <2>2, <2>3, BelowFirst
<1>5. \A n \in 0 .. FilterLevels : says(n) <=> state[p(n)] # "AS_PARENT"
  <2> SUFFICES ASSUME NEW n \in 0 .. FilterLevels, state[p(n)] # "AS_PARENT", NEW k \in 0 .. n - 1
               PROVE  p(k) \in extended
    OBVIOUS
  <2>1. k \in 0 .. n /\ p(n) \in Adf!Node /\ Len(p(n)) = n
    BY <1>3
  <2>2. First(p(n), k) = p(k)
    BY <1>4, <2>1
  <2> HIDE DEF p
  <2> QED BY <1>2, <2>1, <2>2 DEF ReachedIfSet
<1>6. Adf!IsAllowed(ip) = (state[p(m)] = "ALLOW")
  BY DEF Adf!IsAllowed, First
<1> HIDE DEF p, reached, says
<1> DEFINE Speaks(n) == state[p(n)] # "AS_PARENT"
\* The rules about the address that stand are those that stand for a node on its way.
<1> DEFINE about == {i \in DOMAIN rules : Adf!Covers(rules[i], ip)}
           taken(i) == \E k \in about : k > i /\ rules[k].all /\ Adf!LevelOf(rules[k]) <= Adf!LevelOf(rules[i])
           left == {i \in about : ~taken(i)}
           decides(i) == \A k \in left : \/ Adf!LevelOf(rules[k]) < Adf!LevelOf(rules[i])
                                         \/ Adf!LevelOf(rules[k]) = Adf!LevelOf(rules[i]) /\ k <= i
<1>7. TreeRuled(ip) = (left # {} /\ \E i \in left : decides(i) /\ rules[i].state = "ALLOW")
  BY DEF TreeRuled, InTree, TreeDecides, About, Level
<1>8. ASSUME NEW i \in DOMAIN rules
      PROVE  /\ rules[i] \in RuleType /\ i \in Nat
             /\ \A t \in Adf!Targets(rules[i].subnet) : t \in Adf!Node /\ Len(t) = Adf!LevelOf(rules[i])
  BY <1>2, TargetsAre
<1>9. ASSUME NEW i \in about
      PROVE  LET n == Adf!LevelOf(rules[i]) IN n \in 0 .. FilterLevels /\ p(n) \in Adf!Targets(rules[i].subnet)
  <2>1. PICK t \in Adf!Targets(rules[i].subnet) : Below(ip, t)
    BY <1>9 DEF Adf!Covers, Below
  <2>2. t \in Adf!Node /\ Len(t) = Adf!LevelOf(rules[i])
    BY <1>8, <1>9
  <2>3. Len(t) \in 0 .. FilterLevels /\ t = p(Len(t))
    BY <1>1, <2>1, <2>2, BelowFirst DEF p
  <2> QED BY <2>2, <2>3
<1>10. ASSUME NEW n \in 0 .. FilterLevels, NEW i \in DOMAIN rules, Sets(i, p(n))
       PROVE  i \in about /\ Adf!LevelOf(rules[i]) = n
  BY <1>3, <1>8, <1>10 DEF Sets, Adf!Covers, Below
<1>11. ASSUME NEW i \in about, NEW k \in DOMAIN rules
       PROVE  Covered(k, p(Adf!LevelOf(rules[i])))
                <=> k \in about /\ Adf!LevelOf(rules[k]) <= Adf!LevelOf(rules[i])
  <2> DEFINE n == Adf!LevelOf(rules[i])
  <2>1. n \in 0 .. FilterLevels /\ p(n) \in Adf!Node /\ Len(p(n)) = n /\ Below(ip, p(n))
    BY <1>3, <1>9
  <2> HIDE DEF n
  <2>2. ASSUME Covered(k, p(n)) PROVE k \in about /\ Adf!LevelOf(rules[k]) <= n
    <3>1. PICK t \in Adf!Targets(rules[k].subnet) : Below(p(n), t)
      BY <2>2 DEF Covered
    <3>2. t \in Adf!Node /\ Len(t) = Adf!LevelOf(rules[k])
      BY <1>8
    <3>3. Below(ip, t) /\ Len(t) <= n
      BY <1>1, <2>1, <3>1, <3>2, BelowNests, BelowIs
    <3> QED BY <3>2, <3>3 DEF Adf!Covers, Below
  <2>3. ASSUME k \in about, Adf!LevelOf(rules[k]) <= n PROVE Covered(k, p(n))
    <3>1. PICK t \in Adf!Targets(rules[k].subnet) : Below(ip, t)
      BY <2>3 DEF Adf!Covers, Below
    <3>2. t \in Adf!Node /\ Len(t) = Adf!LevelOf(rules[k])
      BY <1>8
    <3>3. Below(p(n), t)
      BY <1>1, <2>1, <2>3, <3>1, <3>2, BelowNests
    <3> QED BY <3>3 DEF Covered
  <2> QED BY <2>2, <2>3 DEF n
<1>12. ASSUME NEW i \in left
       PROVE  LET n == Adf!LevelOf(rules[i]) IN n \in 0 .. FilterLevels /\ i \in Standing(p(n))
  <2>1. i \in about /\ ~taken(i) /\ i \in DOMAIN rules
    BY <1>12
  <2>2. /\ Adf!LevelOf(rules[i]) \in 0 .. FilterLevels
        /\ p(Adf!LevelOf(rules[i])) \in Adf!Targets(rules[i].subnet)
    BY <1>9, <2>1
  <2>3. \A k \in DOMAIN rules : k > i /\ rules[k].all => ~Covered(k, p(Adf!LevelOf(rules[i])))
    BY <1>11, <2>1
  <2> HIDE DEF about, left
  <2> QED BY <2>1, <2>2, <2>3 DEF Standing, Stands, Sets
<1>13. ASSUME NEW n \in 0 .. FilterLevels, NEW i \in Standing(p(n))
       PROVE  i \in left /\ Adf!LevelOf(rules[i]) = n
  <2>1. i \in DOMAIN rules /\ Sets(i, p(n))
        /\ ~\E k \in DOMAIN rules : k > i /\ rules[k].all /\ Covered(k, p(n))
    BY <1>13 DEF Standing, Stands
  <2>2. i \in about /\ Adf!LevelOf(rules[i]) = n
    BY <1>10, <2>1
  <2>3. ~taken(i)
    BY <1>11, <2>1, <2>2
  <2> QED BY <2>2, <2>3
<1> HIDE DEF about, taken, left
\* The deepest node on the way that says something.
<1>14. \A n \in 0 .. FilterLevels : Standing(p(n)) # {} => Speaks(n)
  <2> SUFFICES ASSUME NEW n \in 0 .. FilterLevels, Standing(p(n)) # {} PROVE Speaks(n)
    OBVIOUS
  <2>1. PICK i \in Standing(p(n)) : state[p(n)] = rules[i].state
    BY <1>2, <1>3 DEF StatesAsRuled
  <2>2. rules[i].state \in {"ALLOW", "DENY"}
    BY <1>8, <2>1 DEF Standing, RuleType
  <2> QED BY <2>1, <2>2
<1>15. p(0) = Adf!Root
  BY <1>1, <1>3, RootIs
<1>16. Speaks(0)
  <2>1. Standing(p(0)) = {} => state[p(0)] = "DENY"
    BY <1>2, <1>15, RootIs DEF StatesAsRuled
  <2> QED BY <1>1, <1>14, <2>1
<1>17. m \in 0 .. FilterLevels /\ Speaks(m) /\ \A n \in 0 .. FilterLevels : Speaks(n) => n <= m
  <2>1. M = {n \in 0 .. FilterLevels : Speaks(n)} /\ M # {} /\ M \in SUBSET (0 .. FilterLevels)
    BY <1>1, <1>5, <1>16
  <2> HIDE DEF M
  <2>2. m \in M /\ \A n \in M : m >= n
    BY <1>1, <2>1, FilterMaxInSet
  <2> QED BY <1>1, <2>1, <2>2
<1> HIDE DEF m, M
<1>18. \A i \in left : Adf!LevelOf(rules[i]) <= m
  BY <1>12, <1>14, <1>17
<1>19. CASE Standing(p(m)) = {}
  <2>1. state[p(m)] = "DENY" /\ p(m) = Adf!Root
    BY <1>2, <1>3, <1>17, <1>19 DEF StatesAsRuled
  <2>2. m = 0
    BY <1>3, <1>17, <2>1, RootIs
  <2>3. left = {}
    <3> SUFFICES ASSUME NEW i \in left PROVE FALSE
      OBVIOUS
    <3>1. Adf!LevelOf(rules[i]) = 0
      BY <1>12, <1>18, <2>2
    <3> QED BY <1>12, <1>19, <2>2, <3>1
  <2> QED BY <1>6, <1>7, <2>1, <2>3
<1>20. CASE Standing(p(m)) # {}
  <2>1. PICK i \in Standing(p(m)) : LastStanding(i, p(m)) /\ state[p(m)] = rules[i].state
    BY <1>2, <1>3, <1>17, <1>20 DEF StatesAsRuled
  <2>2. i \in left /\ Adf!LevelOf(rules[i]) = m /\ i \in Nat
    BY <1>8, <1>13, <1>17, <2>1 DEF Standing
  <2>3. decides(i)
    <3> SUFFICES ASSUME NEW k \in left, ~(Adf!LevelOf(rules[k]) < m)
                 PROVE  Adf!LevelOf(rules[k]) = m /\ k <= i
      BY <2>2
    <3>1. Adf!LevelOf(rules[k]) = m
      BY <1>12, <1>17, <1>18
    <3>2. k \in Standing(p(m))
      BY <1>12, <3>1
    <3> QED BY <2>1, <3>1, <3>2 DEF LastStanding
  <2>4. ASSUME NEW j \in left, decides(j) PROVE j = i
    <3>1. Adf!LevelOf(rules[j]) \in Nat /\ j \in Nat /\ m \in Nat
      BY <1>8, <1>12, <1>17 DEF Standing
    <3>2. Adf!LevelOf(rules[j]) <= m
      BY <1>18
    <3>3. m <= Adf!LevelOf(rules[j]) /\ (m = Adf!LevelOf(rules[j]) => i <= j)
      BY <2>2, <2>4, <3>1
    <3>4. j <= i
      BY <2>2, <2>3, <3>1, <3>2, <3>3
    <3> QED BY <2>2, <3>1, <3>2, <3>3, <3>4
  <2> QED BY <1>6, <1>7, <2>1, <2>2, <2>3, <2>4
<1> QED BY <1>19, <1>20

\* The level of a subnet: as many whole levels as its bits need.
LEMMA WholeLevels ==
  ASSUME NEW N \in Nat \ {0}, NEW a \in Nat
  PROVE  LET l == a \div N + (IF a % N = 0 THEN 0 ELSE 1)
         IN l \in Nat /\ N * l >= a /\ N * l < a + N
<1> DEFINE q == a \div N
           r == a % N
<1>1. q \in Nat /\ r \in 0 .. N - 1 /\ a = N * q + r
  OBVIOUS
<1> HIDE DEF q, r
<1>2. N * (q + 1) = N * q + N /\ N * q \in Int
  BY <1>1
<1>3. CASE r = 0
  BY <1>1, <1>3 DEF q, r
<1>4. CASE r # 0
  <2>1. q + 1 \in Nat /\ N * (q + 1) >= a /\ N * (q + 1) < a + N
    BY <1>1, <1>2, <1>4
  <2> QED BY <1>4, <2>1 DEF q, r
<1> QED BY <1>3, <1>4

LEMMA FewerLevels ==
  ASSUME NEW N \in Nat \ {0}, NEW a \in Nat, NEW b \in Nat, a <= b,
         NEW l \in Nat, N * l >= a, N * l < a + N,
         NEW m \in Nat, N * m >= b
  PROVE  l <= m
<1> SUFFICES ASSUME m < l PROVE FALSE
  OBVIOUS
<1>1. l = m + 1 + (l - m - 1) /\ l - m - 1 \in Nat
  OBVIOUS
<1>2. N * l = N * m + N + N * (l - m - 1) /\ N * (l - m - 1) >= 0 /\ N * m \in Int
  BY <1>1
<1> QED BY <1>2

\* A rule with a longer subnet sets no higher a level.
LEMMA LevelsGrow ==
  ASSUME rules \in Seq(RuleType), NEW i \in DOMAIN rules, NEW k \in DOMAIN rules
  PROVE  /\ Level(i) \in Nat /\ Length(i) \in Nat /\ i \in Nat
         /\ Length(k) <= Length(i) => Level(k) <= Level(i)
<1>1. NBITS \in Nat \ {0} /\ i \in Nat
  BY FilterAssumption DEF Adf!SubnetsAssumption
<1>2. ASSUME NEW j \in DOMAIN rules
      PROVE  Length(j) \in Nat /\ Level(j) \in Nat /\ NBITS * Level(j) >= Length(j)
             /\ NBITS * Level(j) < Length(j) + NBITS
  <2>1. Length(j) \in Nat
    <3>1. rules[j] \in RuleType
      OBVIOUS
    <3> QED BY <3>1, FilterAssumption DEF Adf!SubnetsAssumption, RuleType, Length
  <2>2. Level(j) = Length(j) \div NBITS + (IF Length(j) % NBITS = 0 THEN 0 ELSE 1)
    BY DEF Level, Length, Adf!LevelOf
  <2> HIDE DEF Level, Length
  <2> QED BY <1>1, <2>1, <2>2, WholeLevels
<1>3. ASSUME Length(k) <= Length(i) PROVE Level(k) <= Level(i)
  BY <1>1, <1>2, <1>3, FewerLevels
<1> QED BY <1>1, <1>2, <1>3

\* Of some rules there is one of greatest length, the last of these.
LEMMA DecidingExists ==
  ASSUME rules \in Seq(RuleType), NEW S \in SUBSET DOMAIN rules, S # {}
  PROVE  \E i \in S : \A k \in S : Length(k) < Length(i) \/ (Length(k) = Length(i) /\ k <= i)
<1>1. \A i \in DOMAIN rules : i \in Nat /\ i <= Len(rules) /\ Len(rules) \in Nat
  OBVIOUS
<1>2. PICK B \in Nat : \A i \in DOMAIN rules : Length(i) \in 0 .. B
  <2>1. NBITS * FilterLevels \in Nat
    BY FilterAssumption DEF Adf!SubnetsAssumption
  <2>2. ASSUME NEW i \in DOMAIN rules PROVE Length(i) \in 0 .. NBITS * FilterLevels
    <3>1. rules[i] \in RuleType
      OBVIOUS
    <3> QED BY <3>1, FilterAssumption DEF Adf!SubnetsAssumption, RuleType, Length
  <2> QED BY <2>1, <2>2
<1> DEFINE L == {Length(i) : i \in S}
           longest == Max(L)
<1>3. longest \in L /\ \A y \in L : longest >= y
  <2>1. L \in SUBSET (0 .. B) /\ L # {}
    BY <1>2
  <2> HIDE DEF L
  <2> QED BY <2>1, MaxInSet
<1>4. \A i \in S : Length(i) \in Nat /\ longest >= Length(i) /\ longest \in Nat
  BY <1>2, <1>3
<1>5. PICK h \in S : Length(h) = longest
  BY <1>3
<1> HIDE DEF longest, L
<1> DEFINE T == {i \in S : Length(i) = longest}
           last == Max(T)
<1>6. last \in T /\ \A y \in T : last >= y
  <2>1. T \in SUBSET (0 .. Len(rules)) /\ T # {} /\ Len(rules) \in Nat
    BY <1>1, <1>5
  <2> HIDE DEF T
  <2> QED BY <2>1, MaxInSet
<1>7. last \in S /\ Length(last) = longest /\ \A k \in S : Length(k) = longest => k <= last
  <2>1. \A k \in S : Length(k) = longest => last >= k
    BY <1>6
  <2>2. \A k \in S : k \in Nat /\ last \in Nat
    BY <1>1, <1>6
  <2> QED BY <1>6, <2>1, <2>2
<1> HIDE DEF last, T
<1>8. \A k \in S : Length(k) < Length(last) \/ (Length(k) = Length(last) /\ k <= last)
  <2> TAKE k \in S
  <2>1. Length(k) \in Nat /\ longest \in Nat /\ longest >= Length(k)
    BY <1>4
  <2> QED BY <1>7, <2>1
<1> QED BY <1>7, <1>8

\* The rule that decides by the length of its subnet is the one by which the tree
\* decides, unless a later one has overwritten the entry.
LEMMA TreeDecidesAsRuled ==
  ASSUME rules \in Seq(RuleType), NEW ip, NEW i \in Adf!InForce(ip), Adf!Decides(i, ip),
         \A k \in Adf!InForce(ip) : ~(k > i /\ Level(k) = Level(i))
  PROVE  i \in InTree(ip) /\ TreeDecides(i, ip)
<1> DEFINE in == Adf!InForce(ip)
           about == About(ip)
           taken(j) == \E k \in about : k > j /\ rules[k].all /\ Length(k) <= Length(j)
<1>1. in = {j \in about : ~taken(j)} /\ about \subseteq DOMAIN rules
  BY DEF Adf!InForce, About, Length
<1>2. \A k \in in : Length(k) < Length(i) \/ (Length(k) = Length(i) /\ k <= i)
  BY DEF Adf!Decides, Length
<1>3. \A j \in about : Level(j) \in Nat /\ Length(j) \in Nat /\ j \in Nat
  BY <1>1, LevelsGrow
<1>4. \A j, k \in about : Length(k) <= Length(j) => Level(k) <= Level(j)
  BY <1>1, LevelsGrow
<1>5. InTree(ip) = {j \in about : ~\E k \in about : k > j /\ rules[k].all /\ Level(k) <= Level(j)}
  BY DEF InTree
<1>6. i \in about /\ ~taken(i)
  BY <1>1
<1>7. InTree(ip) \subseteq in
  BY <1>1, <1>4, <1>5
\* The later rules for all of a subnet are of longer ones, the last of them is in force.
<1>8. i \in InTree(ip)
  <2> SUFFICES ASSUME NEW k0 \in about, k0 > i, rules[k0].all PROVE FALSE
    BY <1>5, <1>6
  <2> DEFINE all == {k \in about : k > i /\ rules[k].all}
             m == Max(all)
  <2>1. m \in all /\ \A k \in all : m >= k
    <3>1. all \in SUBSET (0 .. Len(rules)) /\ all # {} /\ Len(rules) \in Nat
      BY <1>1
    <3> HIDE DEF all
    <3> QED BY <3>1, MaxInSet
  <2>2. m \in about /\ m > i /\ rules[m].all
    BY <2>1
  <2>3. \A k \in about : k > m => ~rules[k].all
    <3> SUFFICES ASSUME NEW k \in about, k > m, rules[k].all PROVE FALSE
      OBVIOUS
    <3>1. k \in Nat /\ m \in Nat /\ i \in Nat
      BY <1>3, <1>6, <2>2
    <3>2. k \in all
      BY <2>2, <3>1
    <3> QED BY <2>1, <3>1, <3>2
  <2> HIDE DEF m, all
  <2>4. m \in in
    BY <1>1, <2>2, <2>3
  <2>5. Length(m) <= Length(i)
    BY <1>2, <1>3, <1>6, <2>2, <2>4
  <2> QED BY <1>6, <2>2, <2>5
<1>9. ASSUME NEW k \in InTree(ip)
      PROVE  Level(k) < Level(i) \/ (Level(k) = Level(i) /\ k <= i)
  <2>1. k \in in /\ k \in about /\ ~(k > i /\ Level(k) = Level(i))
    BY <1>1, <1>7
  <2>2. Length(k) <= Length(i)
    BY <1>2, <1>3, <1>6, <2>1
  <2>3. Level(k) <= Level(i)
    BY <1>4, <1>6, <2>1, <2>2
  <2> QED BY <1>3, <1>6, <2>1, <2>3
<1> QED BY <1>8, <1>9 DEF TreeDecides

LEMMA FilterAllows == FilterIInv => Adf!AllowedAsRuled
<1> SUFFICES ASSUME FilterIInv, NEW ip \in Adf!Address, ~Adf!Overwritten(ip)
             PROVE  Adf!IsAllowed(ip) = Adf!Ruled(ip)
  BY DEF Adf!AllowedAsRuled
<1>1. rules \in Seq(RuleType)
  BY DEF FilterIInv
<1>2. Adf!InForce(ip) \subseteq DOMAIN rules /\ InTree(ip) \subseteq About(ip) /\ About(ip) \subseteq DOMAIN rules
  BY DEF Adf!InForce, InTree, About
<1>3. \A i \in DOMAIN rules : i \in Nat /\ Level(i) \in Nat /\ Length(i) \in Nat
  BY <1>1, LevelsGrow
<1>4. Adf!IsAllowed(ip) = TreeRuled(ip)
  BY TreeAllows
<1>5. CASE Adf!InForce(ip) = {}
  <2>1. InTree(ip) = {}
    <3>1. \A j, k \in About(ip) : Length(k) <= Length(j) => Level(k) <= Level(j)
      BY <1>1, <1>2, LevelsGrow
    <3> QED BY <1>5, <3>1 DEF Adf!InForce, InTree, About, Length
  <2> QED BY <1>4, <1>5, <2>1 DEF TreeRuled, Adf!Ruled
<1>6. CASE Adf!InForce(ip) # {}
  <2>1. PICK i \in Adf!InForce(ip) : \A k \in Adf!InForce(ip) :
          Length(k) < Length(i) \/ (Length(k) = Length(i) /\ k <= i)
    BY <1>1, <1>2, <1>6, DecidingExists
  <2>2. Adf!Decides(i, ip)
    BY <2>1 DEF Adf!Decides, Length
  <2>3. \A k \in Adf!InForce(ip) : ~(k > i /\ Level(k) = Level(i))
    BY <2>2 DEF Adf!Overwritten, Level
  <2>4. i \in InTree(ip) /\ TreeDecides(i, ip)
    BY <1>1, <2>2, <2>3, TreeDecidesAsRuled
  <2>5. ASSUME NEW j \in InTree(ip), TreeDecides(j, ip) PROVE j = i
    BY <1>2, <1>3, <2>4, <2>5 DEF TreeDecides
  <2>6. ASSUME NEW j \in Adf!InForce(ip), Adf!Decides(j, ip) PROVE j = i
    <3>1. Length(i) < Length(j) \/ (Length(i) = Length(j) /\ i <= j)
      BY <2>6 DEF Adf!Decides, Length
    <3> QED BY <1>2, <1>3, <2>1, <3>1
  <2>7. TreeRuled(ip) = (rules[i].state = "ALLOW")
    BY <2>4, <2>5 DEF TreeRuled
  <2>8. Adf!Ruled(ip) = (rules[i].state = "ALLOW")
    BY <2>2, <2>6 DEF Adf!Ruled
  <2> QED BY <1>4, <2>7, <2>8
<1> QED BY <1>5, <1>6

-----------------------------------------------------------------------------
(* Folds from the left, of a function and not of an operator, which a lemma *)
(* can be about: the sets 1 .. k are what is left of the sequence to fold.   *)

\* What is left to fold without its last.
Rest(s) == s \ {Max(s)}

\* step, folded over the numbers 1 .. N, is a function of the sets of them.
Steps(T, N) == [T \X (1 .. N) -> T]
Folds(T, N, base, step) ==
  {f \in [SUBSET (1 .. N) -> T] :
     \A s \in SUBSET (1 .. N) : f[s] = IF s = {} THEN base ELSE step[<<f[Rest(s)], Max(s)>>]}

LEMMA FoldExists ==
  ASSUME NEW N \in Nat, NEW T, NEW base \in T, NEW step \in Steps(T, N)
  PROVE  Folds(T, N, base, step) # {}
<1> DEFINE Is(f, k) ==
             /\ f \in [SUBSET (1 .. k) -> T]
             /\ f = [s \in SUBSET (1 .. k) |-> IF s = {} THEN base ELSE step[<<f[Rest(s)], Max(s)>>]]
           Bad == {k \in 0 .. N : ~\E f : Is(f, k)}
<1> step \in [T \X (1 .. N) -> T]
  BY DEF Steps
<1>0. \A k \in 0 .. N : \A s \in SUBSET (1 .. k) :
         s # {} => Max(s) \in s /\ Rest(s) \in SUBSET (1 .. k) /\ (\A y \in s : y <= Max(s))
  <2> TAKE k \in 0 .. N
  <2> SUFFICES ASSUME NEW s \in SUBSET (1 .. k), s # {}
               PROVE  Max(s) \in s /\ Rest(s) \in SUBSET (1 .. k) /\ (\A y \in s : y <= Max(s))
    OBVIOUS
  <2>1. s \in SUBSET (0 .. k) /\ k \in Nat
    OBVIOUS
  <2>2. Max(s) \in s /\ \A y \in s : Max(s) >= y
    BY <2>1, MaxInSet
  <2>3. \A y \in s : y \in Nat
    BY <2>1
  <2> QED BY <2>2, <2>3 DEF Rest
<1>1. Is([s \in SUBSET (1 .. 0) |-> base], 0)
  BY DEF Rest
<1>2. ASSUME NEW k \in 1 .. N, NEW f, Is(f, k - 1)
      PROVE  \E g : Is(g, k)
  <2> DEFINE g == [s \in SUBSET (1 .. k) |->
                     IF s = {} THEN base ELSE IF k \in s THEN step[<<f[s \ {k}], k>>] ELSE f[s]]
  <2>1. k - 1 \in 0 .. N /\ k \in 0 .. N /\ 1 .. k - 1 \subseteq 1 .. k
    OBVIOUS
  <2>2. \A s \in SUBSET (1 .. k) : k \notin s => s \in SUBSET (1 .. k - 1)
    OBVIOUS
  <2>3. \A s \in SUBSET (1 .. k) : s \ {k} \in SUBSET (1 .. k - 1)
    OBVIOUS
  <2>4. \A s \in SUBSET (1 .. k - 1) : g[s] = f[s]
    <3> TAKE s \in SUBSET (1 .. k - 1)
    <3>1. s \in SUBSET (1 .. k) /\ k \notin s
      BY <2>1
    <3>2. s = {} => f[s] = base
      BY <1>2
    <3> QED BY <3>1, <3>2
  <2>5. \A s \in SUBSET (1 .. k) : g[s] \in T
    <3> TAKE s \in SUBSET (1 .. k)
    <3>1. CASE k \in s
      <4>1. f[s \ {k}] \in T
        BY <1>2, <2>3
      <4> QED BY <3>1, <4>1
    <3>2. CASE k \notin s
      BY <1>2, <2>2, <3>2
    <3> QED BY <3>1, <3>2
  <2>6. ASSUME NEW s \in SUBSET (1 .. k), s # {}
        PROVE  g[s] = step[<<g[Rest(s)], Max(s)>>]
    <3>0. Max(s) \in s /\ \A y \in s : y <= Max(s)
      BY <1>0, <2>1, <2>6
    <3>1. CASE k \in s
      <4>1. Max(s) = k
        <5>1. Max(s) \in 1 .. k /\ k <= Max(s)
          BY <3>0, <3>1
        <5> QED BY <5>1
      <4>2. Rest(s) = s \ {k} /\ Rest(s) \in SUBSET (1 .. k - 1)
        BY <2>3, <4>1 DEF Rest
      <4>3. g[Rest(s)] = f[s \ {k}]
        BY <2>4, <4>2
      <4>4. g[s] = step[<<f[s \ {k}], k>>]
        BY <3>1
      <4> QED BY <4>1, <4>3, <4>4
    <3>2. CASE k \notin s
      <4>1. s \in SUBSET (1 .. k - 1)
        BY <2>2, <3>2
      <4>2. Rest(s) \in SUBSET (1 .. k - 1)
        BY <1>0, <2>1, <2>6, <4>1
      <4>3. g[s] = f[s] /\ g[Rest(s)] = f[Rest(s)]
        BY <2>4, <4>1, <4>2
      <4>4. f[s] = step[<<f[Rest(s)], Max(s)>>]
        BY <1>2, <2>6, <4>1
      <4> QED BY <4>3, <4>4
    <3> QED BY <3>1, <3>2
  <2>7. g[{}] = base /\ g = [s \in SUBSET (1 .. k) |-> g[s]]
    OBVIOUS
  <2> HIDE DEF g
  <2>8. g \in [SUBSET (1 .. k) -> T]
    BY <2>5, <2>7
  <2>9. [s \in SUBSET (1 .. k) |-> g[s]]
          = [s \in SUBSET (1 .. k) |-> IF s = {} THEN base ELSE step[<<g[Rest(s)], Max(s)>>]]
    BY <2>6, <2>7
  <2>10. Is(g, k)
    BY <2>7, <2>8, <2>9
  <2> QED BY <2>10
<1> HIDE DEF Is
<1>3. Bad = {}
  <2> SUFFICES ASSUME Bad # {} PROVE FALSE
    OBVIOUS
  <2>1. Bad \in SUBSET Nat
    OBVIOUS
  <2>2. Min(Bad) \in Bad /\ \A y \in Bad : Min(Bad) <= y
    BY <2>1, MinInSet
  <2> DEFINE k == Min(Bad)
  <2>3. k \in 0 .. N /\ (~\E f : Is(f, k)) /\ \A y \in Bad : k <= y
    BY <2>2
  <2> HIDE DEF k
  <2>4. k # 0
    BY <1>1, <2>3
  <2>5. k - 1 \notin Bad
    BY <2>3
  <2>6. k \in 1 .. N /\ k - 1 \in 0 .. N
    BY <2>3, <2>4
  <2>7. \E f : Is(f, k - 1)
    BY <2>5, <2>6
  <2> QED BY <1>2, <2>3, <2>6, <2>7
<1>4. N \in 0 .. N
  OBVIOUS
<1>5. PICK f : Is(f, N)
  BY <1>3, <1>4
<1>6. f \in Folds(T, N, base, step)
  BY <1>5 DEF Is, Folds
<1> QED BY <1>6

\* What holds before the first and is kept by each holds after the last.
LEMMA FoldStays ==
  ASSUME NEW N \in Nat, NEW P, NEW g, g[1 .. 0] \in P[0],
         \A k \in 1 .. N : g[1 .. k - 1] \in P[k - 1] => g[1 .. k] \in P[k]
  PROVE  g[1 .. N] \in P[N]
<1> DEFINE Bad == {k \in 0 .. N : g[1 .. k] \notin P[k]}
<1>1. Bad = {}
  <2> SUFFICES ASSUME Bad # {} PROVE FALSE
    OBVIOUS
  <2>1. Bad \in SUBSET Nat
    OBVIOUS
  <2>2. Min(Bad) \in Bad /\ \A y \in Bad : Min(Bad) <= y
    BY <2>1, MinInSet
  <2> DEFINE k == Min(Bad)
  <2>3. k \in 0 .. N /\ g[1 .. k] \notin P[k] /\ \A y \in Bad : k <= y
    BY <2>2
  <2> HIDE DEF k
  <2>4. k # 0
    BY <2>3
  <2>5. k \in 1 .. N /\ k - 1 \in 0 .. N /\ k - 1 \notin Bad
    BY <2>3, <2>4
  <2>6. g[1 .. k - 1] \in P[k - 1]
    BY <2>5
  <2> QED BY <2>3, <2>5, <2>6
<1>2. N \in 0 .. N
  OBVIOUS
<1> QED BY <1>1, <1>2

LEMMA RangeRest ==
  ASSUME NEW k \in Nat, k > 0
  PROVE  1 .. k # {} /\ Max(1 .. k) = k /\ Rest(1 .. k) = 1 .. k - 1
<1>1. 1 .. k # {} /\ 1 .. k \in SUBSET (0 .. k) /\ k \in 1 .. k
  OBVIOUS
<1>2. Max(1 .. k) \in 1 .. k /\ Max(1 .. k) >= k
  BY <1>1, MaxInSet
<1>3. Max(1 .. k) = k
  BY <1>2
<1> QED BY <1>1, <1>3 DEF Rest

-----------------------------------------------------------------------------
(* The log of clients. *)

Table(c, n) == SubSeq(c, 1, n)
Tables == {Table(c, n) : c \in LogClient, n \in 1 .. LogLevels - 1}
LogType == [subnets : SUBSET Tables, nodes : Seq(LogClient), max_nodes : Nat, alloced : Nat, reached : BOOLEAN]

\* The largest thing that can have been added last.
LastAdded(max) == Clg!Max({SubnetSize, NodeSize + PointerSize * max})

MemoryHolds(l) == l.reached = (l.alloced >= Limit) /\ l.alloced < Limit + LastAdded(l.max_nodes)

LogIInv ==
  /\ Clg!Log \in LogType
  /\ hits \in [LogClient -> Nat] /\ seen_hits \in [LogClient -> Nat] /\ lost \in [LogClient -> Nat]
  /\ Clg!AccessesCounted

LEMMA LogConstants ==
  /\ LogLevels \in Nat \ {0} /\ FirstNodes \in Nat \ {0} /\ Limit \in Nat \ {0}
  /\ SubnetSize \in Nat /\ NodeSize \in Nat /\ PointerSize \in Nat
BY TablesAssumption DEF Clg!LogAssumption

LEMMA LastAddedIs ==
  ASSUME NEW max \in Nat
  PROVE  /\ LastAdded(max) \in Nat
         /\ SubnetSize <= LastAdded(max) /\ NodeSize + PointerSize * max <= LastAdded(max)
<1> DEFINE a == SubnetSize
           b == NodeSize + PointerSize * max
<1>1. a \in Nat /\ b \in Nat
  BY LogConstants
<1> HIDE DEF a, b
<1>2. \E x \in {a, b} : \A y \in {a, b} : x >= y
  BY <1>1
<1>3. Clg!Max({a, b}) \in {a, b} /\ \A y \in {a, b} : Clg!Max({a, b}) >= y
  BY <1>2 DEF Clg!Max
<1> QED BY <1>1, <1>3 DEF LastAdded, a, b

LEMMA LastAddedGrows ==
  ASSUME NEW max \in Nat, NEW more \in Nat, max <= more
  PROVE  LastAdded(max) <= LastAdded(more)
<1> DEFINE b == NodeSize + PointerSize * max
<1>1. b <= NodeSize + PointerSize * more
  BY LogConstants
<1>2. LastAdded(max) \in {SubnetSize, b}
  <2> DEFINE a == SubnetSize
  <2>1. a \in Nat /\ b \in Nat
    BY LogConstants
  <2> HIDE DEF a, b
  <2>2. \E x \in {a, b} : \A y \in {a, b} : x >= y
    BY <2>1
  <2>3. Clg!Max({a, b}) \in {a, b}
    BY <2>2 DEF Clg!Max
  <2> QED BY <2>3 DEF LastAdded, a, b
<1>3. /\ LastAdded(more) \in Nat /\ SubnetSize <= LastAdded(more)
      /\ NodeSize + PointerSize * more <= LastAdded(more)
  BY LastAddedIs
<1>4. b \in Nat /\ NodeSize + PointerSize * more \in Nat /\ SubnetSize \in Nat
  BY LogConstants
<1> HIDE DEF b
<1> QED BY <1>1, <1>2, <1>3, <1>4

LEMMA AllocatedIs ==
  ASSUME NEW l \in LogType, NEW size \in Nat
  PROVE  LET x == Clg!Allocated(l, size)
         IN /\ x \in LogType /\ x.alloced = l.alloced + size
            /\ x.reached = (l.reached \/ l.alloced + size >= Limit)
            /\ x.subnets = l.subnets /\ x.nodes = l.nodes /\ x.max_nodes = l.max_nodes
<1> DEFINE total == l.alloced + size
           full == l.reached \/ l.alloced + size >= Limit
           x == [l EXCEPT !.alloced = total, !.reached = full]
<1>1. l.alloced \in Nat /\ total \in Nat
  BY DEF LogType
<1>2. full \in BOOLEAN
  BY DEF LogType
<1>3. Clg!Allocated(l, size) = x
  BY DEF Clg!Allocated
<1> HIDE DEF total, full
<1>4. x \in LogType
  BY <1>1, <1>2 DEF LogType
<1>5. x.alloced = total /\ x.reached = full
  BY DEF LogType
<1>6. x.subnets = l.subnets /\ x.nodes = l.nodes /\ x.max_nodes = l.max_nodes
  BY DEF LogType
<1> QED BY <1>3, <1>4, <1>5, <1>6 DEF total, full

\* One step of the way down to the node.
OpenOne(l, t) == IF t \in l.subnets \/ l.reached THEN l ELSE Clg!CreateSubnet(l, t)

\* What the first k steps may have made of a log.
Opened(log, ip, k) ==
  {l \in LogType :
     /\ MemoryHolds(l) /\ log.subnets \subseteq l.subnets
     /\ l.nodes = log.nodes /\ l.max_nodes = log.max_nodes
     /\ log.reached => l.reached
     /\ l.reached \/ \A n \in 1 .. k : Table(ip, n) \in l.subnets}

LEMMA OpenOneStep ==
  ASSUME NEW log \in LogType, NEW ip \in LogClient, NEW k \in 1 .. LogLevels - 1,
         NEW l \in Opened(log, ip, k - 1)
  PROVE  OpenOne(l, Table(ip, k)) \in Opened(log, ip, k)
<1> DEFINE t == Table(ip, k)
<1>1. t \in Tables /\ k \in Nat
  BY LogConstants DEF Tables
<1>2. /\ l \in LogType /\ MemoryHolds(l) /\ log.subnets \subseteq l.subnets
      /\ l.nodes = log.nodes /\ l.max_nodes = log.max_nodes /\ (log.reached => l.reached)
      /\ l.reached \/ \A n \in 1 .. k - 1 : Table(ip, n) \in l.subnets
  BY DEF Opened
<1>3. CASE t \in l.subnets \/ l.reached
  <2>1. l.reached \/ \A n \in 1 .. k : Table(ip, n) \in l.subnets
    <3> SUFFICES ASSUME ~l.reached, NEW n \in 1 .. k PROVE Table(ip, n) \in l.subnets
      OBVIOUS
    <3>1. n \in 1 .. k - 1 \/ n = k
      BY <1>1
    <3> QED BY <1>2, <1>3, <3>1
  <2>2. l \in Opened(log, ip, k)
    BY <1>2, <2>1 DEF Opened
  <2> QED BY <1>3, <2>2 DEF OpenOne
<1>4. CASE ~(t \in l.subnets \/ l.reached)
  <2> HIDE DEF t
  <2> DEFINE y == [l EXCEPT !.subnets = @ \cup {t}]
             x == Clg!Allocated(y, SubnetSize)
  <2>1. y \in LogType /\ y.subnets = l.subnets \cup {t} /\ y.nodes = l.nodes /\ y.max_nodes = l.max_nodes
        /\ y.alloced = l.alloced /\ y.reached = l.reached
    BY <1>1, <1>2 DEF LogType
  <2> HIDE DEF y
  <2>2. /\ x \in LogType /\ x.alloced = l.alloced + SubnetSize /\ x.reached = (l.alloced + SubnetSize >= Limit)
        /\ x.subnets = l.subnets \cup {t} /\ x.nodes = l.nodes /\ x.max_nodes = l.max_nodes
    <3>1. /\ x \in LogType /\ x.alloced = y.alloced + SubnetSize
          /\ x.reached = (y.reached \/ y.alloced + SubnetSize >= Limit)
          /\ x.subnets = y.subnets /\ x.nodes = y.nodes /\ x.max_nodes = y.max_nodes
      BY <2>1, AllocatedIs, LogConstants, Zenon
    <3>2. y.reached = FALSE
      BY <1>2, <1>4, <2>1 DEF LogType
    <3> HIDE DEF x
    <3> QED BY <2>1, <3>1, <3>2
  <2>3. OpenOne(l, t) = x
    BY <1>4 DEF OpenOne, Clg!CreateSubnet, y
  <2> HIDE DEF x
  <2>4. MemoryHolds(x)
    <3>1. l.alloced \in Nat /\ l.max_nodes \in Nat /\ l.alloced < Limit
      BY <1>2, <1>4, LogConstants DEF LogType, MemoryHolds
    <3>2. SubnetSize <= LastAdded(l.max_nodes) /\ LastAdded(l.max_nodes) \in Nat
      BY <3>1, LastAddedIs
    <3> QED BY <2>2, <3>1, <3>2, LogConstants DEF MemoryHolds
  <2>5. \A n \in 1 .. k : Table(ip, n) \in x.subnets
    <3> TAKE n \in 1 .. k
    <3>1. n \in 1 .. k - 1 \/ n = k
      BY <1>1
    <3> QED BY <1>2, <1>4, <2>2, <3>1 DEF t
  <2>6. x \in Opened(log, ip, k)
    BY <1>2, <1>4, <2>2, <2>4, <2>5 DEF Opened
  <2> QED BY <2>3, <2>6 DEF t
<1> QED BY <1>3, <1>4

LEMMA OpenOneType ==
  ASSUME NEW l \in LogType, NEW t \in Tables
  PROVE  OpenOne(l, t) \in LogType
<1> DEFINE y == [l EXCEPT !.subnets = @ \cup {t}]
<1>1. y \in LogType
  BY DEF LogType
<1> HIDE DEF y
<1>2. Clg!Allocated(y, SubnetSize) \in LogType
  BY <1>1, AllocatedIs, LogConstants, Zenon
<1> QED BY <1>2 DEF OpenOne, Clg!CreateSubnet, y

LEMMA ClgMax == \A S : Clg!Max(S) = Max(S)
BY DEF Clg!Max, Max

LEMMA FoundIs ==
  ASSUME NEW log \in LogType, MemoryHolds(log), NEW ip \in LogClient
  PROVE  \E s \in Opened(log, ip, LogLevels - 1) :
           Clg!Found(log, ip) =
             IF s.reached \/ Clg!Contains(s.nodes, ip) THEN s ELSE Clg!CreateNode(s, ip)
<1> DEFINE N == LogLevels - 1
           numbers == [n \in 1 .. N |-> n]
           Is(f) == f = [s \in SUBSET (1 .. N) |->
                           IF s = {} THEN log
                           ELSE OpenOne(f[s \ {Clg!Max(s)}], Table(ip, numbers[Clg!Max(s)]))]
           g == CHOOSE f : Is(f)
           P == [k \in 0 .. N |-> Opened(log, ip, k)]
           step == [p \in LogType \X (1 .. N) |-> OpenOne(p[1], Table(ip, p[2]))]
<1>1. N \in Nat /\ DOMAIN numbers = 1 .. N
  BY LogConstants
<1>2. Clg!Found(log, ip) =
        LET s == g[1 .. N] IN IF s.reached \/ Clg!Contains(s.nodes, ip) THEN s ELSE Clg!CreateNode(s, ip)
  BY <1>1 DEF Clg!Found, Clg!FoldLeft, Clg!MapThenFoldSet, OpenOne, Table
<1>3. \E f : Is(f)
  <2>1. step \in [LogType \X (1 .. N) -> LogType]
    BY OpenOneType DEF Tables
  <2>2. \A l \in LogType, n \in 1 .. N : step[<<l, n>>] = OpenOne(l, Table(ip, n))
    OBVIOUS
  <2> HIDE DEF step, N
  <2>3. PICK f : f \in Folds(LogType, N, log, step)
    <3>1. N \in Nat /\ log \in LogType /\ step \in Steps(LogType, N)
      BY <1>1, <2>1 DEF Steps
    <3>2. Folds(LogType, N, log, step) # {}
      BY ONLY <3>1, FoldExists
    <3> QED BY <3>2
  <2>3b. /\ f \in [SUBSET (1 .. N) -> LogType]
        /\ \A s \in SUBSET (1 .. N) : f[s] = IF s = {} THEN log ELSE step[<<f[Rest(s)], Max(s)>>]
    BY <2>3 DEF Folds
  <2>4. ASSUME NEW s \in SUBSET (1 .. N), s # {}
        PROVE  step[<<f[Rest(s)], Max(s)>>]
                 = OpenOne(f[s \ {Clg!Max(s)}], Table(ip, numbers[Clg!Max(s)]))
    <3>1. s \in SUBSET (0 .. N)
      BY <1>1
    <3>2. Max(s) \in 1 .. N
      BY <1>1, <2>4, <3>1, MaxInSet
    <3>3. Rest(s) \in SUBSET (1 .. N) /\ Rest(s) = s \ {Clg!Max(s)} /\ Clg!Max(s) = Max(s)
      BY ClgMax DEF Rest
    <3>4. f[Rest(s)] \in LogType /\ numbers[Max(s)] = Max(s)
      BY <2>3b, <3>2, <3>3
    <3> QED BY <2>2, <3>2, <3>3, <3>4
  <2>5. [s \in SUBSET (1 .. N) |-> f[s]]
          = [s \in SUBSET (1 .. N) |->
               IF s = {} THEN log
               ELSE OpenOne(f[s \ {Clg!Max(s)}], Table(ip, numbers[Clg!Max(s)]))]
    BY <2>3b, <2>4
  <2>6. f = [s \in SUBSET (1 .. N) |-> f[s]]
    BY <2>3b
  <2> QED BY <2>5, <2>6
<1>4. Is(g)
  BY <1>3
<1> HIDE DEF g
<1>5. g[1 .. 0] = log
  <2>1. {} \in SUBSET (1 .. N) /\ 1 .. 0 = {}
    OBVIOUS
  <2> QED BY <1>4, <2>1
<1>6. ASSUME NEW k \in 1 .. N
      PROVE  g[1 .. k] = OpenOne(g[1 .. k - 1], Table(ip, k))
  <2>1. 1 .. k \in SUBSET (1 .. N) /\ k \in Nat /\ k > 0
    BY <1>1
  <2>2. 1 .. k # {} /\ Clg!Max(1 .. k) = k /\ (1 .. k) \ {k} = 1 .. k - 1
    BY <2>1, RangeRest, ClgMax DEF Rest
  <2>3. g[1 .. k] = OpenOne(g[(1 .. k) \ {Clg!Max(1 .. k)}], Table(ip, numbers[Clg!Max(1 .. k)]))
    BY <1>4, <2>1, <2>2
  <2> QED BY <2>2, <2>3
<1>7. P[0] = Opened(log, ip, 0) /\ \A k \in 1 .. N : P[k - 1] = Opened(log, ip, k - 1) /\ P[k] = Opened(log, ip, k)
  BY <1>1
<1>8. log \in Opened(log, ip, 0)
  BY DEF Opened
<1>9. \A k \in 1 .. N : g[1 .. k - 1] \in P[k - 1] => g[1 .. k] \in P[k]
  BY <1>6, <1>7, OpenOneStep
<1> HIDE DEF P
<1>10. g[1 .. N] \in P[N]
  BY <1>1, <1>5, <1>7, <1>8, <1>9, FoldStays
<1>11. P[N] = Opened(log, ip, N)
  BY <1>1 DEF P
<1> QED BY <1>2, <1>10, <1>11

LEMMA CreateNodeIs ==
  ASSUME NEW log \in LogType, NEW ip \in LogClient, MemoryHolds(log), ~log.reached,
         Len(log.nodes) <= log.max_nodes
  PROVE  LET x == Clg!CreateNode(log, ip)
         IN /\ x \in LogType /\ MemoryHolds(x)
            /\ x.subnets = log.subnets /\ x.nodes = Append(log.nodes, ip)
            /\ Len(x.nodes) <= x.max_nodes
<1> DEFINE full == Len(log.nodes) = log.max_nodes
           max == IF ~full THEN log.max_nodes ELSE IF log.max_nodes = 0 THEN FirstNodes ELSE 2 * log.max_nodes
           list == IF full THEN PointerSize * (max - Len(log.nodes)) ELSE 0
           y == [log EXCEPT !.nodes = Append(@, ip), !.max_nodes = max]
           x == Clg!Allocated(y, NodeSize + list)
<1>1. /\ log.nodes \in Seq(LogClient) /\ log.max_nodes \in Nat /\ log.alloced \in Nat /\ log.alloced < Limit
      /\ Len(log.nodes) \in Nat
  BY LogConstants DEF LogType, MemoryHolds
<1>2. max \in Nat /\ log.max_nodes <= max /\ Len(log.nodes) + 1 <= max
  BY <1>1, LogConstants
<1>3. list \in Nat /\ list <= PointerSize * max
  <2> HIDE DEF max
  <2>1. CASE full
    <3> DEFINE less == max - Len(log.nodes)
    <3>1. less \in Nat /\ less <= max
      BY <1>1, <1>2
    <3> HIDE DEF less
    <3>2. PointerSize * less \in Nat /\ PointerSize * less <= PointerSize * max
      BY <1>2, <3>1, LogConstants
    <3> QED BY <2>1, <3>2 DEF less
  <2>2. CASE ~full
    <3>1. PointerSize * max \in Nat
      BY <1>2, LogConstants
    <3> QED BY <2>2, <3>1
  <2> QED BY <2>1, <2>2
<1> HIDE DEF full, max, list
<1>4. /\ y \in LogType /\ y.nodes = Append(log.nodes, ip) /\ y.max_nodes = max
      /\ y.subnets = log.subnets /\ y.alloced = log.alloced /\ y.reached = log.reached
  <2> DEFINE more == Append(log.nodes, ip)
  <2>1. more \in Seq(LogClient)
    BY <1>1
  <2>2. y = [log EXCEPT !.nodes = more, !.max_nodes = max]
    OBVIOUS
  <2> HIDE DEF more, y
  <2>3. y \in LogType
    BY <1>2, <2>1, <2>2 DEF LogType
  <2>4. y.nodes = more /\ y.max_nodes = max
    BY <2>2 DEF LogType
  <2>5. y.subnets = log.subnets /\ y.alloced = log.alloced /\ y.reached = log.reached
    BY <2>2 DEF LogType
  <2> QED BY <2>3, <2>4, <2>5 DEF more
<1> HIDE DEF y
<1>5. /\ x \in LogType /\ x.alloced = y.alloced + (NodeSize + list)
      /\ x.reached = (y.reached \/ y.alloced + (NodeSize + list) >= Limit)
      /\ x.subnets = y.subnets /\ x.nodes = y.nodes /\ x.max_nodes = y.max_nodes
  <2>1. NodeSize + list \in Nat
    BY <1>3, LogConstants
  <2> QED BY <1>4, <2>1, AllocatedIs, Zenon
<1>6. Clg!CreateNode(log, ip) = x
  BY DEF Clg!CreateNode, full, max, list, y
<1> HIDE DEF x
<1>7. MemoryHolds(x)
  <2>1. NodeSize + PointerSize * max <= LastAdded(max) /\ LastAdded(max) \in Nat
    BY <1>2, LastAddedIs
  <2>2. NodeSize + list <= LastAdded(max)
    <3>1. PointerSize * max \in Nat
      BY <1>2, LogConstants
    <3> QED BY <1>3, <2>1, <3>1, LogConstants
  <2>3. x.alloced = log.alloced + (NodeSize + list) /\ x.reached = (x.alloced >= Limit) /\ x.max_nodes = max
    BY <1>4, <1>5
  <2> QED BY <1>1, <1>3, <2>1, <2>2, <2>3, LogConstants DEF MemoryHolds
<1>8. x.nodes = Append(log.nodes, ip) /\ Len(x.nodes) <= x.max_nodes
  BY <1>1, <1>2, <1>4, <1>5
<1> QED BY <1>4, <1>5, <1>6, <1>7, <1>8

LEMMA LogInitStep == Clg!Init => LogIInv
<1> SUFFICES ASSUME Clg!Init PROVE LogIInv
  OBVIOUS
<1>1. Clg!Log \in LogType /\ alloced = 0 /\ alloc_limit_reached = FALSE /\ nodes = <<>> /\ max_nodes = 0
  <2>1. alloc_limit_reached \in BOOLEAN /\ alloc_limit_reached = FALSE
    BY Zenon DEF Clg!Init
  <2>2. alloced = 0 /\ nodes = <<>> /\ max_nodes = 0 /\ subnets = {}
    BY Zenon DEF Clg!Init
  <2>3. subnets \in SUBSET Tables /\ nodes \in Seq(LogClient) /\ max_nodes \in Nat /\ alloced \in Nat
    BY <2>2
  <2>4. Clg!Log \in LogType
    BY ONLY <2>1, <2>3 DEF Clg!Log, LogType
  <2> QED BY <2>1, <2>2, <2>4
<1>2. /\ hits = [c \in LogClient |-> 0] /\ seen_hits = [c \in LogClient |-> 0] /\ lost = [c \in LogClient |-> 0]
  BY DEF Clg!Init
<1>3. LastAdded(0) \in Nat
  BY LastAddedIs
<1>4. Clg!AccessesCounted
  <2>1. \A c \in LogClient : hits[c] + lost[c] = seen_hits[c] /\ lost[c] = 0
    BY <1>2
  <2>2. \A c : ~Clg!Contains(nodes, c)
    BY <1>1 DEF Clg!Contains
  <2>3. Clg!IsInjective(nodes) /\ Len(nodes) <= max_nodes
    BY <1>1 DEF Clg!IsInjective
  <2>4. alloc_limit_reached = (alloced >= Limit) /\ alloced < Limit + LastAdded(max_nodes)
    <3>1. ~(alloced >= Limit) /\ alloced < Limit + LastAdded(max_nodes)
      BY <1>1, <1>3, LogConstants
    <3>2. alloc_limit_reached = FALSE
      BY <1>1, Zenon
    <3> DEFINE over == alloced >= Limit
    <3>3. over = FALSE
      BY <3>1
    <3> HIDE DEF over
    <3>4. alloc_limit_reached = over
      BY <3>2, <3>3
    <3> QED BY <3>1, <3>4 DEF over
  <2> QED BY <2>1, <2>2, <2>3, <2>4 DEF Clg!AccessesCounted, LastAdded
<1> QED BY <1>1, <1>2, <1>4 DEF LogIInv

LEMMA LogAccessStep ==
  ASSUME LogIInv, NEW ip \in LogClient, Clg!LogAccess(ip)
  PROVE  LogIInv'
<1> DEFINE log == Clg!Found(Clg!Log, ip)
           there(l, c) == Clg!Contains(l.nodes, c)
<1>1. /\ Clg!Log \in LogType /\ MemoryHolds(Clg!Log)
      /\ Clg!Log.subnets = subnets /\ Clg!Log.nodes = nodes /\ Clg!Log.max_nodes = max_nodes
      /\ Clg!Log.alloced = alloced /\ Clg!Log.reached = alloc_limit_reached
  BY DEF LogIInv, Clg!AccessesCounted, MemoryHolds, LastAdded, Clg!Log
<1>2. /\ hits \in [LogClient -> Nat] /\ seen_hits \in [LogClient -> Nat] /\ lost \in [LogClient -> Nat]
      /\ IsInjective(nodes) /\ Len(nodes) <= max_nodes
      /\ \A c \in LogClient :
           /\ hits[c] + lost[c] = seen_hits[c]
           /\ there(Clg!Log, c) => lost[c] = 0 /\ \A n \in 1 .. LogLevels - 1 : Table(c, n) \in subnets
           /\ lost[c] > 0 => alloc_limit_reached
  BY <1>1 DEF LogIInv, Clg!AccessesCounted, Clg!IsInjective, IsInjective, Table
<1>3. PICK s \in Opened(Clg!Log, ip, LogLevels - 1) :
        log = IF s.reached \/ there(s, ip) THEN s ELSE Clg!CreateNode(s, ip)
  BY <1>1, FoundIs
<1>4. /\ s \in LogType /\ MemoryHolds(s) /\ subnets \subseteq s.subnets /\ s.nodes = nodes /\ s.max_nodes = max_nodes
      /\ alloc_limit_reached => s.reached
      /\ s.reached \/ \A n \in 1 .. LogLevels - 1 : Table(ip, n) \in s.subnets
  BY <1>1 DEF Opened
<1>5. /\ subnets' = log.subnets /\ nodes' = log.nodes /\ max_nodes' = log.max_nodes
      /\ alloced' = log.alloced /\ alloc_limit_reached' = log.reached
      /\ seen_hits' = [seen_hits EXCEPT ![ip] = @ + 1]
      /\ IF there(log, ip) THEN hits' = [hits EXCEPT ![ip] = @ + 1] /\ UNCHANGED lost
         ELSE lost' = [lost EXCEPT ![ip] = @ + 1] /\ UNCHANGED hits
  BY DEF Clg!LogAccess
<1> HIDE DEF log
<1>6. /\ hits' \in [LogClient -> Nat] /\ seen_hits' \in [LogClient -> Nat] /\ lost' \in [LogClient -> Nat]
      /\ \A c \in LogClient : hits'[c] + lost'[c] = seen_hits'[c]
      /\ \A c \in LogClient : lost'[c] # lost[c] => c = ip /\ ~there(log, ip)
  <2> HIDE DEF there
  <2>1. seen_hits' \in [LogClient -> Nat] /\ seen_hits'[ip] = seen_hits[ip] + 1
        /\ \A c \in LogClient : c # ip => seen_hits'[c] = seen_hits[c]
    BY <1>2, <1>5
  <2>2. CASE there(log, ip)
    <3>1. hits' = [hits EXCEPT ![ip] = @ + 1] /\ lost' = lost
      BY <1>5, <2>2
    <3>2. hits' \in [LogClient -> Nat] /\ hits'[ip] = hits[ip] + 1
          /\ \A c \in LogClient : c # ip => hits'[c] = hits[c]
      BY <1>2, <3>1
    <3> QED BY <1>2, <2>1, <3>1, <3>2
  <2>3. CASE ~there(log, ip)
    <3>1. lost' = [lost EXCEPT ![ip] = @ + 1] /\ hits' = hits
      BY <1>5, <2>3
    <3>2. lost' \in [LogClient -> Nat] /\ lost'[ip] = lost[ip] + 1
          /\ \A c \in LogClient : c # ip => lost'[c] = lost[c]
      BY <1>2, <3>1
    <3> QED BY <1>2, <2>1, <2>3, <3>1, <3>2
  <2> QED BY <2>2, <2>3
\* The log after: sound, with a node for a ip only if it has had one or has all tables.
<1> DEFINE Good ==
             /\ log \in LogType /\ MemoryHolds(log) /\ subnets \subseteq log.subnets
             /\ IsInjective(log.nodes) /\ Len(log.nodes) <= log.max_nodes
             /\ alloc_limit_reached => log.reached
             /\ there(log, ip) \/ log.reached
             /\ \A c \in LogClient : there(log, c) =>
                  there(Clg!Log, c) \/ (c = ip /\ ~alloc_limit_reached
                                        /\ \A n \in 1 .. LogLevels - 1 : Table(c, n) \in log.subnets)
<1>7. Good
  <2>1. CASE s.reached \/ there(s, ip)
    <3>1. log = s
      BY <1>3, <2>1
    <3>2. \A c : there(log, c) <=> there(Clg!Log, c)
      BY <1>1, <1>4, <3>1
    <3> HIDE DEF there
    <3> QED BY <1>2, <1>4, <2>1, <3>1, <3>2
  <2>2. CASE ~(s.reached \/ there(s, ip))
    <3>1. log = Clg!CreateNode(s, ip) /\ ~s.reached /\ ~there(Clg!Log, ip)
      BY <1>1, <1>3, <1>4, <2>2
    <3>2. /\ log \in LogType /\ MemoryHolds(log) /\ log.subnets = s.subnets
          /\ log.nodes = Append(nodes, ip) /\ Len(log.nodes) <= log.max_nodes
      BY <1>2, <1>4, <3>1, CreateNodeIs
    <3>3. nodes \in Seq(LogClient)
      BY <1>1 DEF LogType
    <3>4. /\ Len(log.nodes) = Len(nodes) + 1 /\ log.nodes[Len(nodes) + 1] = ip
          /\ \A i \in 1 .. Len(nodes) : log.nodes[i] = nodes[i]
          /\ DOMAIN log.nodes = 1 .. Len(nodes) + 1 /\ DOMAIN nodes = 1 .. Len(nodes) /\ Len(nodes) \in Nat
      BY <3>2, <3>3
    <3>5. \A c \in LogClient : there(log, c) <=> there(Clg!Log, c) \/ c = ip
      BY <1>1, <3>4 DEF Clg!Contains
    <3>6. \A i \in 1 .. Len(nodes) : nodes[i] # ip
      BY <1>1, <3>1 DEF Clg!Contains
    <3>7. IsInjective(log.nodes)
      BY <1>2, <3>4, <3>6 DEF IsInjective
    <3> HIDE DEF there
    <3> QED BY <1>4, <3>1, <3>2, <3>5, <3>7
  <2> QED BY <2>1, <2>2
<1>8. Clg!Log' \in LogType
  <2>1. Clg!Log' = log
    BY <1>5, <1>7 DEF Clg!Log, LogType
  <2> QED BY <1>7, <2>1
<1>9. ASSUME NEW c \in LogClient
      PROVE  /\ there(log, c) => lost'[c] = 0 /\ \A n \in 1 .. LogLevels - 1 : Table(c, n) \in log.subnets
             /\ lost'[c] > 0 => log.reached
  <2>1. there(log, c) => lost'[c] = lost[c]
    BY <1>6, <1>9
  <2>2. ASSUME there(log, c)
        PROVE  lost[c] = 0 /\ \A n \in 1 .. LogLevels - 1 : Table(c, n) \in log.subnets
    <3>1. CASE there(Clg!Log, c)
      BY <1>2, <1>7, <3>1
    <3>2. CASE c = ip /\ ~alloc_limit_reached /\ \A n \in 1 .. LogLevels - 1 : Table(c, n) \in log.subnets
      <4>1. lost[c] \in Nat /\ ~(lost[c] > 0)
        BY <1>2, <3>2
      <4> QED BY <3>2, <4>1
    <3> QED BY <1>7, <2>2, <3>1, <3>2
  <2>3. ASSUME lost'[c] > 0 PROVE log.reached
    <3>1. CASE lost'[c] = lost[c]
      BY <1>2, <1>7, <2>3, <3>1
    <3>2. CASE lost'[c] # lost[c]
      BY <1>6, <1>7, <3>2
    <3> QED BY <3>1, <3>2
  <2> QED BY <2>1, <2>2, <2>3
<1>10. Clg!AccessesCounted'
  BY <1>5, <1>6, <1>7, <1>9 DEF Clg!AccessesCounted, MemoryHolds, LastAdded, Clg!IsInjective, IsInjective, Table
<1> QED BY <1>6, <1>8, <1>10 DEF LogIInv

LEMMA LogNextStep == LogIInv /\ [Clg!Next]_logVars => LogIInv'
<1> SUFFICES ASSUME LogIInv, [Clg!Next]_logVars PROVE LogIInv'
  OBVIOUS
<1>1. CASE UNCHANGED logVars
  BY <1>1 DEF logVars, LogIInv, Clg!Log, Clg!AccessesCounted
<1> QED BY <1>1, LogAccessStep DEF Clg!Next

-----------------------------------------------------------------------------
(* The whole. *)

\* The part that runs and those that rest in their first state.
ServiceIInv ==
  /\ IInv
  /\ part = "filter" => FilterIInv
  /\ part = "clients" => LogIInv
  /\ KeysIInv /\ ManualIInv /\ BroadcastIInv

\* Whatever part runs, all that the proofs know of each stays true.
THEOREM ServicesIInv == ServiceSpec => []ServiceIInv
<1>1. ServiceInit => ServiceIInv
  BY IInvInit, FilterInitStep, LogInitStep, KeysInitStep, ManualInitStep, BroadcastInitStep
     DEF ServiceInit, ServiceIInv
<1>2. ServiceIInv /\ [ServiceNext]_serviceVars => ServiceIInv'
  <2> SUFFICES ASSUME ServiceIInv, [ServiceNext]_serviceVars PROVE ServiceIInv'
    OBVIOUS
  <2>1. /\ part' = part /\ [Next]_vars
        /\ part = "filter" => [Adf!Next]_filterVars
        /\ part = "clients" => [Clg!Next]_logVars
        /\ [Key!Next]_keyVars /\ [Mnl!Next]_manualVars /\ [Brd!Next]_broadcastVars
    BY DEF ServiceNext, serviceVars
  <2>2. IInv'
    BY <2>1, IInvNext DEF ServiceIInv
  <2>3. (part = "filter" => FilterIInv)'
    BY <2>1, FilterNextStep DEF ServiceIInv
  <2>4. (part = "clients" => LogIInv)'
    BY <2>1, LogNextStep DEF ServiceIInv
  <2>5. KeysIInv' /\ ManualIInv' /\ BroadcastIInv'
    BY <2>1, KeysNextStep, ManualNextStep, BroadcastNextStep DEF ServiceIInv
  <2> QED BY <2>2, <2>3, <2>4, <2>5 DEF ServiceIInv
<1> QED BY <1>1, <1>2, PTL DEF ServiceSpec

\* The tree of the access filter answers for every address as addrfilt.h says of the
\* rules, by the lengths of their subnets, but where a less specific rule has later
\* overwritten the entry of the one that decides; for any width of the tables, any
\* subnets and any number of rules in any order (set_subnet, check_ip_in_node).
THEOREM ServicesAllowedAsRuled == ServiceSpec => []AllowedAsRuled
<1>1. ServiceIInv => AllowedAsRuled
  BY FilterAllows DEF ServiceIInv, AllowedAsRuled
<1> QED BY <1>1, ServicesIInv, PTL

\* No access that found a node is lost and the memory of the log passes its limit
\* by no more than one thing (CLG_LogNTPClientAccess, create_node); a key that is
\* used is in the file read last, whatever the cache holds (KEY_Reload,
\* lookup_key); a time entered keeps its mistake through slews and deletions
\* (MNL_AcceptTimestamp, slew_samples); each destination of broadcasts has one
\* timeout, which points to it while there is one block (BRD_AddDestination).
THEOREM ServicesTablesHold == ServiceSpec => []TablesHold
<1>1. ServiceIInv => TablesHold
  BY DEF ServiceIInv, TablesHold, LogIInv, KeysIInv, ManualIInv, BroadcastIInv
<1> QED BY <1>1, ServicesIInv, PTL
=============================================================================
