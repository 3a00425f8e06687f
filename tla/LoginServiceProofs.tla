-------------------------- MODULE LoginServiceProofs --------------------------
(***************************************************************************)
(* A session key is written only for a user who has proven to know the     *)
(* password, on the same connection: for any number of connections,        *)
(* accounts and messages.                                                  *)
(*                                                                         *)
(* SessionsProven is not inductive: a proof is checked against _srp6 and   *)
(* the key is written for UserName, so that the two must belong together   *)
(* (Bound).  They do because a challenge that fails changes neither, and   *)
(* one that succeeds changes both.                                         *)
(*                                                                         *)
(* The second part is about peers that send one message at a time, wait    *)
(* for the answer and read it as the block that is sent, for as long as    *)
(* their messages arrive in one piece (Kept): they are in step with the    *)
(* connection (OrderlyInv), so that they neither end the process nor get a *)
(* reply that a later one has overwritten, and are refused only for a salt *)
(* that was cut.  A message that is split over two reads ends all this:    *)
(* nothing is claimed of its peer from then on.                            *)
(*                                                                         *)
(* The third part is the arithmetic of the session key: client and server  *)
(* compute the same secret along different ways, and SHA1Interleave deals  *)
(* it out completely.                                                      *)
(***************************************************************************)
EXTENDS LoginService, WellFoundedInduction, TLAPS

\* r has the fields of a connection.
Whole(r) == /\ DOMAIN r = {"socket", "buff", "reads", "ready", "writes", "srp",
                           "UserName", "os", "proven"}
            /\ DOMAIN r.srp = {"gen", "user", "used"}

\* _srp6, if there is one, was made for UserName.
Bound(r) == r.srp.gen # 0 => r.srp.user = r.UserName

\* n agrees with r on what the sessions depend on.
Same(r, n) == Whole(n) /\ n.srp = r.srp /\ n.UserName = r.UserName /\ n.proven = r.proven

SessionInv == /\ DOMAIN con = Conns
              /\ \A c \in Conns : Whole(con[c]) /\ Bound(con[c])
              /\ \A s \in granted : s[1] \in Conns
              /\ SessionsProven

\* AsyncRead only starts a read.
LEMMA AsyncReadSame == ASSUME NEW r, Whole(r) PROVE Same(r, AsyncRead(r))
  BY DEF Whole, Same, AsyncRead

\* handle_write changes the buffer and starts a write and a read.
LEMMA WriteSame == ASSUME NEW r, NEW reply, Whole(r) PROVE Same(r, handle_write(r, reply))
  BY DEF Whole, Same, AsyncRead, handle_write

\* A connection that nobody refers to any more is closed and stays what it was.
LEMMA SettledSame == ASSUME NEW r, Whole(r) PROVE Same(r, Settled(r))
  BY DEF Whole, Same, Settled

\* What agrees with a connection keeps its object and its user together.
LEMMA SameBound == ASSUME NEW r, NEW n, Same(r, n), Bound(r) PROVE Bound(n)
  BY DEF Same, Bound

\* What it takes for a step of one connection to preserve the invariant: the
\* connection keeps its SRP6 object and its user together, forgets no proof,
\* and keys are written for users it has a proof of.
LEMMA StepOfOne ==
  ASSUME SessionInv, NEW c \in Conns, NEW n, con' = [con EXCEPT ![c] = n],
         Whole(n), Bound(n), con[c].proven \subseteq n.proven,
         \A s \in granted' : s \in granted \/ (s[1] = c /\ s[2] \in n.proven)
  PROVE  SessionInv'
<1>1. DOMAIN con' = Conns /\ con'[c] = n /\ \A d \in Conns : d # c => con'[d] = con[d]
  BY DEF SessionInv
<1>2. \A d \in Conns : Whole(con'[d]) /\ Bound(con'[d])
  BY <1>1 DEF SessionInv
<1>3. \A s \in granted' : s[1] \in Conns
  BY DEF SessionInv
<1>4. ASSUME NEW s \in granted' PROVE s[2] \in con'[s[1]].proven
  <2>1. CASE s \in granted
    BY <1>1, <2>1 DEF SessionInv, SessionsProven
  <2>2. CASE s[1] = c /\ s[2] \in n.proven
    BY <1>1, <2>2
  <2> QED BY <2>1, <2>2
<1> QED BY <1>1, <1>2, <1>3, <1>4 DEF SessionInv, SessionsProven

\* A step of one connection that writes no key and leaves its session alone.
LEMMA QuietStep ==
  ASSUME SessionInv, NEW c \in Conns, NEW n, con' = [con EXCEPT ![c] = n],
         Same(con[c], n), UNCHANGED granted
  PROVE  SessionInv'
<1>1. Whole(n) /\ con[c].proven \subseteq n.proven
  BY DEF Same
<1>2. Bound(n)
  BY SameBound DEF SessionInv
<1> QED BY <1>1, <1>2, StepOfOne

\* How a handler ends: with the connection as r but for reads and socket.
LEMMA LeaveStep ==
  ASSUME SessionInv, NEW c \in Conns, NEW r, NEW more \in BOOLEAN, Leave(c, r, more),
         Whole(r), Bound(r), con[c].proven \subseteq r.proven,
         \A s \in granted' : s \in granted \/ (s[1] = c /\ s[2] \in r.proven)
  PROVE  SessionInv'
<1> DEFINE q == IF more THEN AsyncRead(r) ELSE r
           n == Settled(q)
<1>1. Same(r, q)
  BY AsyncReadSame DEF Same
<1>2. Same(q, n)
  BY <1>1, SettledSame DEF Same
<1>3. Same(r, n)
  BY <1>1, <1>2 DEF Same
<1>4. con' = [con EXCEPT ![c] = n]
  BY DEF Leave
<1> HIDE DEF n
<1>5. Whole(n) /\ Bound(n) /\ n.proven = r.proven
  BY <1>3, SameBound DEF Same
<1> QED BY <1>4, <1>5, StepOfOne

\* A challenge: a new SRP6 object and UserName come together, or neither.
LEMMA ChallengeStep ==
  ASSUME SessionInv, NEW c \in Conns, NEW r, NEW m, Same(con[c], r), HandleChallenge(c, r, m),
         UNCHANGED granted
  PROVE  SessionInv'
<1> DEFINE s == MakeSrp(r, m.user)
           new == [r EXCEPT !.os = ChallengedSystem(m), !.UserName = ChallengedUser(r, m)]
           both == [new EXCEPT !.srp = s]
           reply == [cmd |-> "challengeOk", gen |-> s.gen, user |-> m.user,
                     salt |-> StrNCpy(Salt[m.user])]
           fail == [cmd |-> "challengeFail"]
<1>1. Whole(r) /\ Bound(r) /\ r.proven = con[c].proven
  BY SameBound DEF SessionInv, Same
<1>2. Whole(new) /\ new.srp = r.srp /\ new.proven = r.proven /\ new.UserName = ChallengedUser(r, m)
  BY <1>1 DEF Whole
<1>3. CASE Leave(c, r, FALSE)
  BY <1>1, <1>3, LeaveStep
<1>4. CASE m.user \notin Accounts /\ Leave(c, handle_write(new, fail), FALSE)
  <2>1. Same(new, handle_write(new, fail))
    BY <1>2, WriteSame
  <2>2. Bound(new)
    BY <1>1, <1>2, <1>4 DEF Bound, ChallengedUser
  <2>3. Bound(handle_write(new, fail))
    BY <2>1, <2>2, SameBound
  <2> HIDE DEF new, fail
  <2> QED BY <1>1, <1>2, <1>4, <2>1, <2>3, LeaveStep DEF Same
<1>5. CASE m.user \in Accounts /\ Leave(c, handle_write(both, reply), TRUE)
  <2>1. Whole(both) /\ both.srp = s /\ both.proven = r.proven /\ both.UserName = m.user
    BY <1>2, <1>5 DEF Whole, ChallengedUser, MakeSrp
  <2>2. Same(both, handle_write(both, reply))
    BY <2>1, WriteSame
  <2>3. Bound(both)
    BY <2>1 DEF Bound, MakeSrp
  <2>4. Bound(handle_write(both, reply))
    BY <2>2, <2>3, SameBound
  <2> HIDE DEF both, reply
  <2> QED BY <1>1, <1>5, <2>1, <2>2, <2>4, LeaveStep DEF Same
<1> QED BY <1>3, <1>4, <1>5 DEF HandleChallenge

\* A proof: the key is written for UserName, which is the user of the object
\* that has verified it.
LEMMA ProofStep ==
  ASSUME SessionInv, NEW c \in Conns, NEW r, NEW m, Same(con[c], r), HandleProof(c, r, m)
  PROVE  SessionInv'
<1> DEFINE used == [r EXCEPT !.srp.used = TRUE]
           ok == [used EXCEPT !.proven = @ \cup {r.srp.user}]
<1>1. Whole(r) /\ Bound(r) /\ r.proven = con[c].proven
  BY SameBound DEF SessionInv, Same
<1>2. /\ Whole(used) /\ used.UserName = r.UserName /\ used.proven = r.proven
      /\ used.srp.gen = r.srp.gen /\ used.srp.user = r.srp.user
  BY <1>1 DEF Whole
<1>3. Bound(used)
  BY <1>1, <1>2 DEF Bound
<1>4. Whole(ok) /\ ok.UserName = r.UserName /\ ok.proven = r.proven \cup {r.srp.user} /\ ok.srp = used.srp
  BY <1>2 DEF Whole
<1>5. Bound(ok)
  BY <1>2, <1>3, <1>4 DEF Bound
<1>6. \A s \in Granted(c, r, m) : Verified(r, m) /\ m.version /\ s[1] = c /\ s[2] \in ok.proven
  BY <1>1, <1>4 DEF Granted, Verified, Bound
<1> HIDE DEF used, ok
<1>7. CASE UNCHANGED <<con, granted>>
  BY <1>7 DEF SessionInv, SessionsProven
<1>8. ASSUME ~Verified(r, m) \/ ~m.version, granted' = granted \cup Granted(c, r, m)
      PROVE  granted' = granted
  BY <1>8 DEF Granted
<1>9. ASSUME NEW q, NEW reply, NEW more \in BOOLEAN, q = used \/ q = ok,
             Leave(c, handle_write(q, reply), more),
             \A s \in granted' : s \in granted \/ (s[1] = c /\ s[2] \in q.proven)
      PROVE  SessionInv'
  <2>1. Whole(q) /\ Bound(q) /\ con[c].proven \subseteq q.proven
    BY <1>1, <1>2, <1>3, <1>4, <1>5, <1>9
  <2>2. Same(q, handle_write(q, reply))
    BY <2>1, WriteSame
  <2>3. Bound(handle_write(q, reply))
    BY <2>1, <2>2, SameBound
  <2> QED BY <1>9, <2>1, <2>2, <2>3, LeaveStep DEF Same
<1>10. CASE ~Verified(r, m) /\ Leave(c, handle_write(used, [cmd |-> "proofFail"]), FALSE)
            /\ granted' = granted \cup Granted(c, r, m)
  BY <1>8, <1>9, <1>10
<1>11. CASE ~m.version /\ Leave(c, handle_write(ok, [cmd |-> "versionFail"]), FALSE)
            /\ granted' = granted \cup Granted(c, r, m)
  BY <1>8, <1>9, <1>11
<1>12. CASE Leave(c, handle_write(ok, [cmd |-> "proofOk"]), TRUE)
            /\ granted' = granted \cup Granted(c, r, m)
  BY <1>6, <1>9, <1>12
<1> QED BY <1>7, <1>10, <1>11, <1>12 DEF HandleProof, used, ok

\* handle_read, for every message.
LEMMA ReadStep == ASSUME SessionInv, NEW c \in Conns, handle_read(c) PROVE SessionInv'
<1> DEFINE r == [con[c] EXCEPT !.ready = Tail(@)]
           closed == [r EXCEPT !.socket = "closed"]
<1>1. Same(con[c], r)
  BY DEF SessionInv, Whole, Same
<1>2. Same(con[c], closed)
  BY <1>1 DEF Whole, Same
<1>3. CASE Leave(c, closed, FALSE) /\ UNCHANGED granted
  <2>1. Whole(closed) /\ Bound(closed) /\ closed.proven = con[c].proven
    BY <1>2, SameBound DEF SessionInv, Same
  <2> HIDE DEF closed
  <2> QED BY <1>3, <2>1, LeaveStep
<1>4. ASSUME NEW m, HandleChallenge(c, r, m), UNCHANGED granted PROVE SessionInv'
  <2> HIDE DEF r
  <2> QED BY <1>1, <1>4, ChallengeStep
<1>5. ASSUME NEW m, HandleProof(c, r, m) PROVE SessionInv'
  <2> HIDE DEF r
  <2> QED BY <1>1, <1>5, ProofStep
<1>6. CASE Leave(c, r, TRUE) /\ UNCHANGED granted
  <2>1. Whole(r) /\ Bound(r) /\ r.proven = con[c].proven
    BY <1>1, SameBound DEF SessionInv, Same
  <2> HIDE DEF r
  <2> QED BY <1>6, <2>1, LeaveStep
<1>7. \/ Leave(c, closed, FALSE) /\ UNCHANGED granted
      \/ \E m : HandleChallenge(c, r, m) /\ UNCHANGED granted
      \/ \E m : HandleProof(c, r, m)
      \/ Leave(c, r, TRUE) /\ UNCHANGED granted
  BY DEF handle_read
<1> QED BY <1>3, <1>4, <1>5, <1>6, <1>7

\* The operations that io_context has in hand.
LEMMA IoStep == ASSUME SessionInv, NEW c \in Conns, Io(c) PROVE SessionInv'
<1>1. CASE handle_read(c)
  BY <1>1, ReadStep
<1>2. CASE Receive(c)
  <2>0. PICK b : /\ UNCHANGED granted
                 /\ con' = [con EXCEPT ![c] = [con[c] EXCEPT !.reads = @ - 1,
                                !.ready = Append(@, "data"), !.buff = b]]
    BY <1>2 DEF Receive
  <2> DEFINE n == [con[c] EXCEPT !.reads = @ - 1, !.ready = Append(@, "data"), !.buff = b]
  <2>1. con' = [con EXCEPT ![c] = n] /\ UNCHANGED granted
    BY <2>0
  <2>2. Same(con[c], n)
    BY DEF SessionInv, Whole, Same
  <2> HIDE DEF n
  <2> QED BY <2>1, <2>2, QuietStep
<1>3. CASE ReadFails(c)
  <2> DEFINE n == [con[c] EXCEPT !.reads = @ - 1, !.ready = Append(@, "error")]
  <2>1. con' = [con EXCEPT ![c] = n] /\ UNCHANGED granted
    BY <1>3 DEF ReadFails
  <2>2. Same(con[c], n)
    BY DEF SessionInv, Whole, Same
  <2> HIDE DEF n
  <2> QED BY <2>1, <2>2, QuietStep
<1>4. CASE Transmit(c) \/ WriteFails(c)
  <2> DEFINE sent == [con[c] EXCEPT !.writes = Tail(@)]
             n == Settled(sent)
  <2>1. con' = [con EXCEPT ![c] = n] /\ UNCHANGED granted
    BY <1>4 DEF Transmit, WriteFails
  <2>2. Same(con[c], sent)
    BY DEF SessionInv, Whole, Same
  <2>3. Same(con[c], n)
    BY <2>2, SettledSame DEF Same
  <2> HIDE DEF n
  <2> QED BY <2>1, <2>3, QuietStep
<1>5. CASE HandleAccept(c)
  <2> DEFINE made == [con[c] EXCEPT !.socket = "open"]
             n == AsyncRead(made)
  <2>1. con' = [con EXCEPT ![c] = n] /\ UNCHANGED granted
    BY <1>5 DEF HandleAccept
  <2>2. Same(con[c], made)
    BY DEF SessionInv, Whole, Same
  <2>3. Same(con[c], n)
    BY <2>2, AsyncReadSame DEF Same
  <2> HIDE DEF n
  <2> QED BY <2>1, <2>3, QuietStep
<1> QED BY <1>1, <1>2, <1>3, <1>4, <1>5 DEF Io

\* The server starts without connections and without sessions.
LEMMA SessionInvInit == LInit => SessionInv
  BY DEF LInit, SessionInv, SessionsProven, NoCon, NoSrp, Whole, Bound

\* Only the io thread's handlers touch what the invariant is about.
LEMMA SessionInvNext == SessionInv /\ [LNext]_vars => SessionInv'
<1> SUFFICES ASSUME SessionInv, [LNext]_vars PROVE SessionInv'
  OBVIOUS
<1>1. CASE UNCHANGED <<con, granted>>
  BY <1>1 DEF SessionInv, SessionsProven
<1>2. ASSUME NEW c \in Conns, Io(c) PROVE SessionInv'
  BY <1>2, IoStep
<1>3. ASSUME NEW c \in Conns, Connect(c) \/ (\E m \in Messages(c) : Send(c, m)) \/ Depart(c)
      PROVE  UNCHANGED <<con, granted>>
  BY <1>3 DEF Connect, Send, Depart
<1>4. HandleAcceptError \/ Shutdown \/ Rest \/ UNCHANGED vars => UNCHANGED <<con, granted>>
  BY DEF HandleAcceptError, Shutdown, Rest, vars
<1> QED BY <1>1, <1>2, <1>3, <1>4 DEF LNext

\* A session key is written to the database only for a user whose proof was
\* verified on the same connection, whatever its peer and the others send, in
\* whatever order reads and writes end.
THEOREM OnlyProvenSessions == LSpec => []SessionsProven
<1>1. SessionInv => SessionsProven
  BY DEF SessionInv
<1> QED BY <1>1, SessionInvInit, SessionInvNext, PTL DEF LSpec

-----------------------------------------------------------------------------
(***************************************************************************)
(* Peers that keep to the protocol.  What they are promised is not         *)
(* inductive: it needs that the peer and its connection are in step, which *)
(* is what InStep says.  Between them there is at any time one message, on *)
(* the wire or in the buffer, or one reply, in the buffer, or none; the    *)
(* reads that are outstanding into the buffer do not hurt because an       *)
(* orderly peer waits for the reply.                                       *)
(***************************************************************************)

WholePeer(p) ==
    /\ DOMAIN p = {"at", "got", "waits", "blocks", "orderly", "whole", "garbled", "tried"}
    /\ p.blocks \in BOOLEAN /\ p.orderly \in BOOLEAN /\ p.whole \in BOOLEAN
    /\ IF p.at = "away" THEN p.orderly ELSE p.orderly => p.blocks

\* The salt of account u has a zero byte that is not at its end.
Crooked(u) == \E i, j \in DOMAIN Salt[u] : i < j /\ Salt[u][i] = 0 /\ Salt[u][j] # 0

\* After a successful challenge the connection holds the unused SRP6 object that
\* the reply was made with.
Owns(r, reply) ==
    reply.cmd = "challengeOk" =>
        /\ r.srp.gen # 0 /\ r.srp.used = FALSE /\ r.os = "known"
        /\ reply.gen = r.srp.gen
        /\ reply.user \in Accounts
        /\ reply.salt = StrNCpy(Salt[reply.user])

\* A refusal is deserved.
Just(p, reply) == reply.cmd = "proofFail" /\ p.tried # Stranger => Crooked(p.tried)

\* m is a message that an orderly peer may have sent, and a proof will be
\* verified unless the salt was cut or the password was not known.
Proper(m, r, p) ==
    \/ m.cmd = "challenge" /\ m.sized = TRUE /\ m.os = "known"
    \/ /\ m.cmd = "proof"
       /\ p.got.cmd = "challengeOk"
       /\ p.tried # Stranger => m.m1 = r.srp.gen \/ Crooked(p.tried)

\* The phases of an orderly exchange: nothing is asked; the message is on the
\* wire; it is in the buffer; the reply is in the buffer.
Idle(r, p, w) == /\ p.waits = FALSE /\ w = <<>>
                 /\ r.ready = <<>> /\ r.writes = <<>> /\ r.reads > 0
                 /\ Owns(r, p.got) /\ Just(p, p.got)
Asked(r, p, w) == /\ p.waits = TRUE /\ w # <<>> /\ w = <<Head(w)>> /\ Proper(Head(w), r, p)
                  /\ r.ready = <<>> /\ r.writes = <<>> /\ r.reads > 0
                  /\ Owns(r, p.got)
Reached(r, p, w) == /\ p.waits = TRUE /\ w = <<>> /\ Proper(r.buff, r, p)
                    /\ r.ready = <<"data">> /\ r.writes = <<>>
                    /\ Owns(r, p.got)
Answered(r, p, w) == /\ p.waits = TRUE /\ w = <<>>
                     /\ r.ready = <<>> /\ r.writes = <<r.buff>> /\ r.reads > 0
                     /\ Owns(r, r.buff) /\ Just(p, r.buff)

Before(r, p, w) == /\ p.at \in {"away", "waiting"} /\ p.waits = FALSE
                   /\ p.got.cmd = "zero" /\ r = NoCon /\ w = <<>>
During(r, p, w) == /\ p.at = "connected" /\ r.socket = "open" /\ r.reads \in Nat
                   /\ Idle(r, p, w) \/ Asked(r, p, w) \/ Reached(r, p, w) \/ Answered(r, p, w)
After(r, p, w) == /\ p.at = "gone" /\ w = <<>> /\ Just(p, p.got)
                  /\ r.writes = <<>> /\ r.ready \in Seq({"error"})

InStep(r, p, w) == /\ p.garbled = FALSE
                   /\ Before(r, p, w) \/ During(r, p, w) \/ After(r, p, w)

PeerOK(c) == /\ WholePeer(peer[c])
             /\ Kept(c) => InStep(con[c], peer[c], wire[c])

OrderlyInv == /\ DOMAIN peer = Conns /\ DOMAIN wire = Conns
              /\ gens \in Nat
              /\ \A c \in Conns : PeerOK(c)
              /\ OrderlyPeersDoNotKill

\* Being in step depends on these fields of the peer.
LEMMA InStepSame ==
    ASSUME NEW r, NEW p, NEW q, NEW w, InStep(r, p, w),
           q.at = p.at, q.got = p.got, q.waits = p.waits, q.garbled = p.garbled, q.tried = p.tried
    PROVE  InStep(r, q, w)
  BY DEF InStep, Before, During, After, Idle, Asked, Reached, Answered, Just, Proper

\* What strncpy changes has a zero byte that is not at its end.
LEMMA CopyCut ==
    ASSUME NEW u \in Accounts, StrNCpy(Salt[u]) # Salt[u]
    PROVE  Crooked(u)
<1> DEFINE s == Salt[u]
<1>1. s \in Seq(Nat)
  BY LoginAssumption
<1>2. ASSUME \A i \in DOMAIN s : StrNCpy(s)[i] = s[i] PROVE FALSE
  <2>1. s = [i \in DOMAIN s |-> s[i]]
    BY <1>1
  <2>2. StrNCpy(s) = [i \in DOMAIN s |-> s[i]]
    BY <1>2 DEF StrNCpy
  <2> QED BY <2>1, <2>2
<1>3. PICK i \in DOMAIN s : StrNCpy(s)[i] # s[i]
  BY <1>2
<1>4. s[i] # 0 /\ \E j \in 1..i : s[j] = 0
  BY <1>3 DEF StrNCpy
<1>5. PICK j \in 1..i : s[j] = 0
  BY <1>4
<1>6. j \in DOMAIN s /\ j < i
  BY <1>1, <1>4, <1>5
<1> QED BY <1>4, <1>5, <1>6 DEF Crooked

\* A connection that waits for a read is not destroyed.
LEMMA SettledOpen ==
    ASSUME NEW r, r.reads \in Nat, r.reads > 0
    PROVE  Settled(r) = r
  BY DEF Settled

\* The handler that writes a reply to an orderly peer leaves the two in step.
LEMMA AnswerInStep ==
    ASSUME NEW q, NEW p, NEW reply, NEW more \in BOOLEAN, NEW n,
           n = Settled(IF more THEN AsyncRead(handle_write(q, reply)) ELSE handle_write(q, reply)),
           Whole(q), q.socket = "open", q.reads \in Nat, q.ready = <<>>, q.writes = <<>>,
           p.at = "connected", p.waits = TRUE, p.garbled = FALSE,
           Owns(q, reply), Just(p, reply)
    PROVE  InStep(n, p, <<>>)
<1> DEFINE h == handle_write(q, reply)
<1>1. /\ Whole(h) /\ h.buff = reply /\ h.writes = Append(q.writes, reply)
      /\ h.reads = q.reads + 1 /\ h.ready = q.ready /\ h.socket = q.socket
      /\ h.srp = q.srp /\ h.os = q.os
  BY DEF Whole, handle_write, AsyncRead
<1>2. Append(<<>>, reply) = <<reply>>
  OBVIOUS
<1> HIDE DEF h
<1> DEFINE k == IF more THEN AsyncRead(h) ELSE h
<1>3. /\ k.buff = reply /\ k.writes = <<reply>>
      /\ (k.reads = h.reads \/ k.reads = h.reads + 1) /\ k.ready = <<>>
      /\ k.socket = "open" /\ k.srp = q.srp /\ k.os = q.os
  BY <1>1, <1>2 DEF Whole, AsyncRead
<1>4. k.reads \in Nat /\ k.reads > 0
  BY <1>1, <1>3
<1>5. n = k
  BY <1>4, SettledOpen DEF h
<1>6. Owns(k, reply)
  BY <1>3 DEF Owns
<1> HIDE DEF k
<1>7. Answered(k, p, <<>>)
  BY <1>3, <1>4, <1>6 DEF Answered
<1> QED BY <1>3, <1>4, <1>5, <1>7 DEF InStep, During

\* What a step of connection c leaves alone.
Only(c) == /\ DOMAIN peer' = Conns /\ DOMAIN wire' = Conns
           /\ \A d \in Conns \ {c} :
                 con'[d] = con[d] /\ peer'[d] = peer[d] /\ wire'[d] = wire[d]

\* A step of one connection leaves the other peers in step with theirs.
LEMMA OrderlyStepOfOne ==
    ASSUME OrderlyInv, NEW c \in Conns, Only(c), gens' \in Nat, PeerOK(c)',
           Kept(c)' => Kept(c),
           died' = "proof" => died = "proof" \/ ~Kept(c)'
    PROVE  OrderlyInv'
<1>1. \A d \in Conns : PeerOK(d)'
  <2> SUFFICES ASSUME NEW d \in Conns, d # c PROVE PeerOK(d)'
    OBVIOUS
  <2> QED BY DEF OrderlyInv, Only, PeerOK, Kept
<1>2. OrderlyPeersDoNotKill'
  <2>1. \A d \in Conns : Kept(d)' => Kept(d)
    BY DEF Only, Kept
  <2> QED BY <2>1 DEF OrderlyInv, OrderlyPeersDoNotKill
<1> QED BY <1>1, <1>2 DEF OrderlyInv, Only

\* A challenge in the buffer is answered.
LEMMA ChallengeInStep ==
    ASSUME gens \in Nat, NEW c \in Conns, NEW r, NEW p, NEW m, HandleChallenge(c, r, m),
           DOMAIN con = Conns, Whole(r), r.socket = "open", r.reads \in Nat,
           r.ready = <<>>, r.writes = <<>>,
           p.at = "connected", p.waits = TRUE, p.garbled = FALSE,
           m.sized = TRUE, m.os = "known"
    PROVE  InStep(con'[c], p, <<>>)
<1> DEFINE s == MakeSrp(r, m.user)
           new == [r EXCEPT !.os = ChallengedSystem(m), !.UserName = ChallengedUser(r, m)]
           both == [new EXCEPT !.srp = s]
           reply == [cmd |-> "challengeOk", gen |-> s.gen, user |-> m.user,
                     salt |-> StrNCpy(Salt[m.user])]
           fail == [cmd |-> "challengeFail"]
<1>1. /\ Whole(new) /\ new.socket = "open" /\ new.reads \in Nat
      /\ new.ready = <<>> /\ new.writes = <<>> /\ new.os = "known"
  BY DEF Whole, ChallengedSystem
<1>2. /\ Whole(both) /\ both.socket = "open" /\ both.reads \in Nat
      /\ both.ready = <<>> /\ both.writes = <<>> /\ both.os = "known"
      /\ both.srp = [gen |-> gens + 1, user |-> m.user, used |-> FALSE]
  BY <1>1 DEF Whole, MakeSrp
<1>3. CASE m.user \notin Accounts /\ Leave(c, handle_write(new, fail), FALSE)
  <2>1. con'[c] = Settled(handle_write(new, fail))
    BY <1>3 DEF Leave
  <2>2. Owns(new, fail) /\ Just(p, fail)
    BY DEF Owns, Just
  <2> HIDE DEF new, fail
  <2> QED BY <1>1, <2>1, <2>2, AnswerInStep
<1>4. CASE m.user \in Accounts /\ Leave(c, handle_write(both, reply), TRUE)
  <2>1. con'[c] = Settled(AsyncRead(handle_write(both, reply)))
    BY <1>4 DEF Leave
  <2>2. Owns(both, reply)
    BY <1>2, <1>4 DEF Owns, MakeSrp
  <2>3. Just(p, reply)
    BY DEF Just
  <2> HIDE DEF both, reply
  <2> QED BY <1>2, <2>1, <2>2, <2>3, AnswerInStep
<1> QED BY <1>3, <1>4 DEF HandleChallenge

\* A proof that is in order in the buffer is answered, and the process lives: its
\* SRP6 object exists and is unused, the system is known, the peer is there.
LEMMA ProofInStep ==
    ASSUME NEW c \in Conns, NEW r, NEW m, HandleProof(c, r, m),
           DOMAIN con = Conns, Whole(r), r.socket = "open", r.reads \in Nat,
           r.ready = <<>>, r.writes = <<>>,
           peer[c].at = "connected", peer[c].waits = TRUE, peer[c].garbled = FALSE,
           Owns(r, peer[c].got), peer[c].got.cmd = "challengeOk",
           peer[c].tried # Stranger => m.m1 = r.srp.gen \/ Crooked(peer[c].tried)
    PROVE  InStep(con'[c], peer[c], <<>>) /\ UNCHANGED died
<1> DEFINE used == [r EXCEPT !.srp.used = TRUE]
           ok == [used EXCEPT !.proven = @ \cup {r.srp.user}]
           refused == [cmd |-> "proofFail"]
           outdated == [cmd |-> "versionFail"]
           welcome == [cmd |-> "proofOk"]
<1>1. r.srp.gen # 0 /\ r.srp.used = FALSE /\ r.os = "known"
  BY DEF Owns
<1>2. ~ProofKills(c, r, m) /\ UNCHANGED died
  BY <1>1 DEF ProofKills, HandleProof
<1>3. /\ Whole(used) /\ used.socket = "open" /\ used.reads \in Nat
      /\ used.ready = <<>> /\ used.writes = <<>>
  BY DEF Whole
<1>4. /\ Whole(ok) /\ ok.socket = "open" /\ ok.reads \in Nat
      /\ ok.ready = <<>> /\ ok.writes = <<>>
  BY <1>3 DEF Whole
<1>5. /\ Owns(used, refused) /\ Owns(ok, outdated) /\ Owns(ok, welcome)
      /\ Just(peer[c], outdated) /\ Just(peer[c], welcome)
  BY DEF Owns, Just
<1> HIDE DEF used, ok
<1>6. ASSUME NEW q, NEW p, NEW reply, NEW more \in BOOLEAN,
             p = peer[c],
             Leave(c, handle_write(q, reply), more), q = used \/ q = ok,
             Owns(q, reply), Just(p, reply)
      PROVE  InStep(con'[c], peer[c], <<>>)
  <2>1. con'[c] = Settled(IF more THEN AsyncRead(handle_write(q, reply)) ELSE handle_write(q, reply))
    BY <1>6 DEF Leave
  <2>2. /\ Whole(q) /\ q.socket = "open" /\ q.reads \in Nat
        /\ q.ready = <<>> /\ q.writes = <<>>
    BY <1>3, <1>4, <1>6
  <2>3. PICK n : n = con'[c]
    OBVIOUS
  <2>4. InStep(n, p, <<>>)
    BY <1>6, <2>1, <2>2, <2>3, AnswerInStep
  <2> QED BY <1>6, <2>3, <2>4
<1>7. CASE ~Verified(r, m) /\ Leave(c, handle_write(used, refused), FALSE)
  <2>1. peer[c].tried # Stranger => Crooked(peer[c].tried)
    BY <1>1, <1>7 DEF Verified
  <2>2. Just(peer[c], refused)
    BY <2>1 DEF Just
  <2> QED BY <1>2, <1>5, <1>6, <1>7, <2>2
<1>8. CASE Leave(c, handle_write(ok, outdated), FALSE)
  BY <1>2, <1>5, <1>6, <1>8
<1>9. CASE Leave(c, handle_write(ok, welcome), TRUE)
  BY <1>2, <1>5, <1>6, <1>9
<1> QED BY <1>2, <1>7, <1>8, <1>9 DEF HandleProof, used, ok

\* handle_read, whether its peer is orderly or not.
LEMMA ReadInStep ==
    ASSUME SessionInv, OrderlyInv, NEW c \in Conns, handle_read(c)
    PROVE  OrderlyInv'
<1> DEFINE r == [con[c] EXCEPT !.ready = Tail(@)]
           m == con[c].buff
           closed == [r EXCEPT !.socket = "closed"]
<1>1. UNCHANGED <<peer, wire>> /\ died = "no" /\ con[c].ready # <<>>
  BY DEF handle_read, Serving
<1>2. DOMAIN con = Conns /\ Whole(con[c]) /\ PeerOK(c) /\ gens \in Nat
  BY DEF SessionInv, OrderlyInv
<1>3. /\ Whole(r) /\ r.socket = con[c].socket /\ r.reads = con[c].reads
      /\ r.ready = Tail(con[c].ready) /\ r.writes = con[c].writes
      /\ r.srp = con[c].srp /\ r.os = con[c].os
  BY <1>2 DEF Whole
<1>4. Only(c)
  <2>1. \A d \in Conns \ {c} : con'[d] = con[d]
    BY <1>2 DEF handle_read, HandleChallenge, HandleProof, Leave
  <2> QED BY <1>1, <2>1 DEF Only, OrderlyInv
<1>5. gens' \in Nat
  <2>1. gens' = gens \/ \E u : gens' = MakeSrp(r, u).gen
    BY DEF handle_read, HandleChallenge
  <2> QED BY <1>2, <2>1 DEF MakeSrp
<1>0. Kept(c)' = Kept(c)
  BY <1>1 DEF Kept
<1>6. CASE ~Kept(c)
  <2>1. PeerOK(c)'
    BY <1>0, <1>1, <1>2, <1>6 DEF PeerOK
  <2> QED BY <1>0, <1>1, <1>4, <1>5, <1>6, <2>1, OrderlyStepOfOne
<1>7. CASE Kept(c)
  <2>1. InStep(con[c], peer[c], wire[c])
    BY <1>2, <1>7 DEF PeerOK
  <2>2. SUFFICES InStep(con'[c], peer[c], wire[c]) /\ UNCHANGED died
    <3>1. PeerOK(c)'
      BY <1>1, <1>2, <2>2 DEF PeerOK
    <3> QED BY <1>0, <1>1, <1>4, <1>5, <2>2, <3>1, OrderlyStepOfOne
  <2>3. CASE Before(con[c], peer[c], wire[c])
    BY <1>1, <2>3 DEF Before, NoCon
  <2>4. CASE During(con[c], peer[c], wire[c])
    <3>1. Reached(con[c], peer[c], wire[c])
      BY <1>1, <2>4 DEF During, Idle, Asked, Answered
    <3>2. /\ Head(con[c].ready) = "data" /\ Tail(con[c].ready) = <<>>
      BY <3>1 DEF Reached
    <3>3. /\ r.socket = "open" /\ r.reads \in Nat /\ r.ready = <<>> /\ r.writes = <<>>
          /\ peer[c].at = "connected" /\ peer[c].waits = TRUE /\ peer[c].garbled = FALSE
          /\ wire[c] = <<>>
      BY <1>3, <2>1, <2>4, <3>1, <3>2 DEF During, Reached, InStep
    <3>4. Understood(con[c].buff) = {m} /\ m.cmd \in {"challenge", "proof"} /\ Proper(m, con[c], peer[c])
      BY <3>1 DEF Reached, Proper, Understood
    <3>5. Owns(r, peer[c].got)
      BY <1>3, <3>1 DEF Reached, Owns
    <3> HIDE DEF r, m
    <3>6. \/ m.cmd = "challenge" /\ HandleChallenge(c, r, m) /\ UNCHANGED died
          \/ m.cmd = "proof" /\ HandleProof(c, r, m)
      BY <3>2, <3>4 DEF handle_read, r, m
    <3>7. CASE m.cmd = "challenge" /\ HandleChallenge(c, r, m) /\ UNCHANGED died
      <4>1. m.sized = TRUE /\ m.os = "known"
        BY <3>4, <3>7 DEF Proper
      <4> QED BY <1>2, <1>3, <3>3, <3>7, <4>1, ChallengeInStep
    <3>8. CASE m.cmd = "proof" /\ HandleProof(c, r, m)
      <4>1. /\ peer[c].got.cmd = "challengeOk"
            /\ peer[c].tried # Stranger => m.m1 = r.srp.gen \/ Crooked(peer[c].tried)
        BY <1>3, <3>4, <3>8 DEF Proper
      <4> QED BY <1>2, <1>3, <3>3, <3>5, <3>8, <4>1, ProofInStep
    <3> QED BY <3>6, <3>7, <3>8
  <2>5. CASE After(con[c], peer[c], wire[c])
    <3>1. con[c].ready \in Seq({"error"}) /\ con[c].writes = <<>>
      BY <2>5 DEF After
    <3>2. Head(con[c].ready) = "error" /\ Tail(con[c].ready) \in Seq({"error"})
      BY <1>1, <3>1
    <3>3. con'[c] = Settled(closed) /\ UNCHANGED died
      BY <1>2, <3>2 DEF handle_read, Leave
    <3>4. Whole(closed) /\ closed.ready = r.ready /\ closed.writes = r.writes
      BY <1>3 DEF Whole
    <3>5. con'[c].ready = Tail(con[c].ready) /\ con'[c].writes = <<>>
      BY <1>3, <3>1, <3>3, <3>4 DEF Settled, Whole
    <3> QED BY <2>1, <2>5, <3>2, <3>3, <3>5 DEF InStep, After
  <2> QED BY <2>1, <2>3, <2>4, <2>5 DEF InStep
<1> QED BY <1>6, <1>7

\* A read that ends takes an orderly peer's message from the wire to the buffer.
LEMMA ReceiveInStep ==
    ASSUME SessionInv, OrderlyInv, NEW c \in Conns, Receive(c) \/ ReadFails(c)
    PROVE  OrderlyInv'
<1>1. /\ DOMAIN con = Conns /\ Whole(con[c]) /\ PeerOK(c) /\ WholePeer(peer[c]) /\ gens \in Nat
      /\ DOMAIN wire = Conns /\ DOMAIN peer = Conns
  BY DEF SessionInv, OrderlyInv, PeerOK
<1>2. UNCHANGED <<gens, died>>
  BY DEF Receive, ReadFails
<1>3. Only(c)
  BY <1>1, <1>2 DEF Only, OrderlyInv, Receive, ReadFails
<1>a. /\ WholePeer(peer'[c]) /\ (Kept(c)' => Kept(c))
      /\ peer'[c].at = peer[c].at /\ peer'[c].got = peer[c].got
      /\ peer'[c].waits = peer[c].waits /\ peer'[c].garbled = peer[c].garbled
      /\ peer'[c].tried = peer[c].tried
  <2>1. CASE ReadFails(c)
    BY <1>1, <2>1 DEF ReadFails, Kept
  <2>2. CASE Receive(c)
    <3>1. PICK cut \in BOOLEAN : peer' = [peer EXCEPT ![c].whole = @ /\ ~cut]
      BY <2>2 DEF Receive
    <3>2. peer'[c] = [peer[c] EXCEPT !.whole = @ /\ ~cut]
      BY <1>1, <3>1
    <3> QED BY <1>1, <3>2 DEF WholePeer, Kept
  <2> QED BY <2>1, <2>2
<1>4. SUFFICES ASSUME Kept(c)' PROVE InStep(con'[c], peer[c], wire'[c])
  <2>1. ASSUME Kept(c)' PROVE InStep(con'[c], peer'[c], wire'[c])
    <3>1. PICK p, q : p = peer[c] /\ q = peer'[c]
      OBVIOUS
    <3>2. InStep(con'[c], p, wire'[c])
      BY <1>4, <2>1, <3>1
    <3>3. InStep(con'[c], q, wire'[c])
      BY <1>a, <3>1, <3>2, InStepSame
    <3> QED BY <3>1, <3>3
  <2>2. PeerOK(c)'
    BY <1>a, <2>1 DEF PeerOK
  <2> QED BY <1>a, <1>1, <1>2, <1>3, <2>2, OrderlyStepOfOne
<1>5. InStep(con[c], peer[c], wire[c])
  BY <1>1, <1>4, <1>a DEF PeerOK
<1>6. CASE Receive(c)
  <2>0. PICK k \in 0..Len(wire[c]) :
             /\ k > 0
             /\ wire' = [wire EXCEPT ![c] = SubSeq(@, k + 1, Len(@))]
             /\ con' = [con EXCEPT ![c] = [con[c] EXCEPT
                           !.reads = @ - 1, !.ready = Append(@, "data"),
                           !.buff = IF k = 0 THEN Fragment(Head(wire[c])) ELSE Head(wire[c])]]
    <3>1. PICK k \in 0..Len(wire[c]), cut \in BOOLEAN :
             /\ k > 0 \/ cut
             /\ wire' = [wire EXCEPT ![c] = IF cut THEN <<LeftOver>> \o SubSeq(@, k + 2, Len(@))
                                                   ELSE SubSeq(@, k + 1, Len(@))]
             /\ con' = [con EXCEPT ![c] = [con[c] EXCEPT
                           !.reads = @ - 1, !.ready = Append(@, "data"),
                           !.buff = IF k = 0 THEN Fragment(Head(wire[c])) ELSE Head(wire[c])]]
             /\ peer' = [peer EXCEPT ![c].whole = @ /\ ~cut]
      BY <1>6 DEF Receive
    <3>2. cut = FALSE
      BY <1>1, <1>4, <3>1 DEF Kept, WholePeer
    <3> QED BY <3>1, <3>2
  <2>1. /\ con[c].reads > 0 /\ wire[c] # <<>>
        /\ con'[c] = [con[c] EXCEPT !.reads = @ - 1, !.ready = Append(@, "data"),
                                    !.buff = Head(wire[c])]
    <3>1. con[c].reads > 0 /\ wire[c] # <<>>
      BY <1>6 DEF Receive
    <3>2. con'[c] = [con[c] EXCEPT !.reads = @ - 1, !.ready = Append(@, "data"),
                !.buff = IF k = 0 THEN Fragment(Head(wire[c])) ELSE Head(wire[c])]
      BY <1>1, <2>0
    <3>3. k # 0
      BY <2>0
    <3> QED BY <3>1, <3>2, <3>3
  <2>2. /\ con'[c].buff = Head(wire[c]) /\ con'[c].reads = con[c].reads - 1
        /\ con'[c].ready = Append(con[c].ready, "data")
        /\ con'[c].socket = con[c].socket /\ con'[c].writes = con[c].writes
        /\ con'[c].srp = con[c].srp /\ con'[c].os = con[c].os
    BY <1>1, <2>1 DEF Whole
  <2>3. During(con[c], peer[c], wire[c]) /\ Asked(con[c], peer[c], wire[c])
    BY <1>5, <2>1 DEF InStep, Before, During, After, Idle, Reached, Answered
  <2>4. wire'[c] = <<>>
    <3>1. wire'[c] = SubSeq(wire[c], k + 1, Len(wire[c]))
      BY <1>1, <2>0
    <3>2. PICK x : wire[c] = <<x>>
      BY <2>3 DEF Asked
    <3>3. SubSeq(<<x>>, 2, 1) = <<>> /\ Len(<<x>>) = 1
      OBVIOUS
    <3>4. k = 1
      BY <2>0, <3>2, <3>3
    <3> QED BY <3>1, <3>2, <3>3, <3>4
  <2>5. con'[c].ready = <<"data">>
    BY <2>2, <2>3 DEF Asked
  <2>6. con'[c].reads \in Nat
    BY <2>1, <2>2, <2>3 DEF During
  <2>7. Proper(con'[c].buff, con'[c], peer[c]) /\ Owns(con'[c], peer[c].got)
    BY <2>2, <2>3 DEF Asked, Proper, Owns
  <2>8. Reached(con'[c], peer[c], wire'[c])
    BY <2>2, <2>3, <2>4, <2>5, <2>7 DEF Asked, Reached
  <2> QED BY <1>5, <2>2, <2>3, <2>6, <2>8 DEF InStep, During
<1>7. CASE ReadFails(c)
  <2>1. /\ wire'[c] = wire[c] /\ con[c].reads > 0
        /\ peer[c].at = "gone" \/ con[c].socket = "closed"
        /\ con'[c] = [con[c] EXCEPT !.reads = @ - 1, !.ready = Append(@, "error")]
    BY <1>1, <1>7 DEF ReadFails
  <2>2. After(con[c], peer[c], wire[c])
    BY <1>5, <2>1 DEF InStep, Before, During, NoCon
  <2>3. con'[c].ready = Append(con[c].ready, "error") /\ con'[c].writes = con[c].writes
    BY <1>1, <2>1 DEF Whole
  <2>4. con'[c].ready \in Seq({"error"})
    BY <2>2, <2>3 DEF After
  <2> QED BY <1>5, <2>1, <2>2, <2>3, <2>4 DEF InStep, After
<1> QED BY <1>6, <1>7

\* A write that ends brings an orderly peer the reply that was composed for it:
\* nothing was read into the buffer since.
LEMMA TransmitInStep ==
    ASSUME SessionInv, OrderlyInv, NEW c \in Conns, Transmit(c) \/ WriteFails(c)
    PROVE  OrderlyInv'
<1>1. /\ DOMAIN con = Conns /\ Whole(con[c]) /\ PeerOK(c) /\ gens \in Nat
      /\ DOMAIN peer = Conns /\ WholePeer(peer[c])
  BY DEF SessionInv, OrderlyInv, PeerOK
<1>2. UNCHANGED <<wire, gens, died>>
  BY DEF Transmit, WriteFails
<1>3. Only(c)
  BY <1>1, <1>2 DEF Only, OrderlyInv, Transmit, WriteFails
<1>4. WholePeer(peer'[c]) /\ Kept(c)' = Kept(c)
  BY <1>1 DEF Transmit, WriteFails, WholePeer, Kept
<1>5. SUFFICES ASSUME Kept(c) PROVE InStep(con'[c], peer'[c], wire'[c])
  <2>1. PeerOK(c)'
    BY <1>4, <1>5 DEF PeerOK
  <2> QED BY <1>1, <1>2, <1>3, <1>4, <2>1, OrderlyStepOfOne
<1>6. InStep(con[c], peer[c], wire[c]) /\ con[c].writes # <<>>
  BY <1>1, <1>5 DEF PeerOK, Transmit, WriteFails
<1>7. During(con[c], peer[c], wire[c]) /\ Answered(con[c], peer[c], wire[c])
  BY <1>6 DEF InStep, Before, During, After, Idle, Asked, Reached, NoCon
<1>8. CASE Transmit(c)
  <2> DEFINE sent == [con[c] EXCEPT !.writes = Tail(@)]
  <2>1. /\ sent.reads = con[c].reads /\ sent.ready = <<>> /\ sent.socket = "open"
        /\ sent.writes = <<>> /\ sent.srp = con[c].srp /\ sent.os = con[c].os
    BY <1>1, <1>7 DEF Whole, Answered, During
  <2>2. sent.reads \in Nat /\ sent.reads > 0
    BY <1>7, <2>1 DEF During, Answered
  <2>3. con'[c] = Settled(sent)
    BY <1>1, <1>8 DEF Transmit
  <2>4. con'[c] = sent
    BY <2>2, <2>3, SettledOpen
  <2>5. Head(con[c].writes) = con[c].buff
    BY <1>7 DEF Answered
  <2>0. peer[c].blocks = TRUE
    BY <1>1, <1>5, <1>7 DEF WholePeer, Kept, During
  <2>6. /\ peer'[c].got = con[c].buff /\ peer'[c].waits = FALSE
        /\ peer'[c].garbled = (peer[c].garbled \/ con[c].buff # Head(con[c].writes))
        /\ peer'[c].at = peer[c].at /\ peer'[c].tried = peer[c].tried
    BY <1>1, <1>8, <2>0 DEF Transmit, WholePeer
  <2>7. peer'[c].garbled = FALSE
    BY <1>6, <2>5, <2>6 DEF InStep
  <2> HIDE DEF sent
  <2>8. Owns(con'[c], peer'[c].got) /\ Just(peer'[c], peer'[c].got)
    BY <1>7, <2>1, <2>4, <2>6 DEF Answered, Owns, Just
  <2>9. Idle(con'[c], peer'[c], wire'[c])
    BY <1>2, <1>7, <2>1, <2>2, <2>4, <2>6, <2>8 DEF Answered, Idle
  <2> QED BY <1>7, <2>1, <2>2, <2>4, <2>6, <2>7, <2>9 DEF InStep, During
<1>9. CASE WriteFails(c)
  BY <1>7, <1>9 DEF WriteFails, During
<1> QED BY <1>8, <1>9

\* An accepted peer has asked nothing, and a read waits for what it will ask.
LEMMA AcceptInStep ==
    ASSUME SessionInv, OrderlyInv, NEW c \in Conns, HandleAccept(c) \/ Connect(c)
    PROVE  OrderlyInv'
<1>1. /\ DOMAIN con = Conns /\ Whole(con[c]) /\ PeerOK(c) /\ gens \in Nat
      /\ DOMAIN peer = Conns /\ WholePeer(peer[c])
  BY DEF SessionInv, OrderlyInv, PeerOK
<1>2. UNCHANGED <<wire, gens, died>>
  BY DEF HandleAccept, Connect
<1>3. Only(c)
  BY <1>1, <1>2 DEF Only, OrderlyInv, HandleAccept, Connect
<1>4. /\ WholePeer(peer'[c]) /\ (Kept(c)' => Kept(c))
      /\ peer'[c].waits = peer[c].waits /\ peer'[c].got = peer[c].got
      /\ peer'[c].garbled = peer[c].garbled /\ peer[c].at \in {"away", "waiting"}
  <2>1. CASE HandleAccept(c)
    BY <1>1, <2>1 DEF HandleAccept, WholePeer, Kept
  <2>2. CASE Connect(c)
    <3>1. PICK blocks \in BOOLEAN :
             peer' = [peer EXCEPT ![c].at = "waiting", ![c].blocks = blocks, ![c].orderly = blocks]
      BY <2>2 DEF Connect
    <3>2. peer'[c] = [peer[c] EXCEPT !.at = "waiting", !.blocks = blocks, !.orderly = blocks]
      BY <1>1, <3>1
    <3>3. peer[c].at = "away"
      BY <2>2 DEF Connect
    <3>4. WholePeer(peer'[c])
      BY <1>1, <3>2 DEF WholePeer
    <3>5. /\ peer'[c].waits = peer[c].waits /\ peer'[c].got = peer[c].got
          /\ peer'[c].garbled = peer[c].garbled
      BY <1>1, <3>2 DEF WholePeer
    <3>6. Kept(c)' => Kept(c)
      BY <1>1, <3>2, <3>3 DEF WholePeer, Kept
    <3> QED BY <3>3, <3>4, <3>5, <3>6
  <2> QED BY <2>1, <2>2
<1>5. SUFFICES ASSUME Kept(c), Kept(c)' PROVE InStep(con'[c], peer'[c], wire'[c])
  <2>1. PeerOK(c)'
    BY <1>4, <1>5 DEF PeerOK
  <2> QED BY <1>1, <1>2, <1>3, <1>4, <2>1, OrderlyStepOfOne
<1>6. Before(con[c], peer[c], wire[c]) /\ peer[c].garbled = FALSE
  BY <1>1, <1>4, <1>5 DEF PeerOK, InStep, During, After
<1>7. CASE HandleAccept(c)
  <2>1. con'[c] = AsyncRead([con[c] EXCEPT !.socket = "open"]) /\ peer'[c].at = "connected"
    BY <1>1, <1>7 DEF HandleAccept, WholePeer
  <2>2. /\ con'[c].socket = "open" /\ con'[c].reads = 1
        /\ con'[c].ready = <<>> /\ con'[c].writes = <<>>
    BY <1>6, <2>1 DEF Before, NoCon, AsyncRead
  <2>3. Owns(con'[c], peer'[c].got) /\ Just(peer'[c], peer'[c].got)
    BY <1>4, <1>6 DEF Before, Owns, Just
  <2>4. Idle(con'[c], peer'[c], wire'[c])
    BY <1>2, <1>4, <1>6, <2>2, <2>3 DEF Before, Idle
  <2> QED BY <1>4, <1>6, <2>1, <2>2, <2>4 DEF InStep, During
<1>8. CASE Connect(c)
  <2>1. con' = con /\ peer'[c].at = "waiting"
    <3>1. PICK blocks \in BOOLEAN :
             peer' = [peer EXCEPT ![c].at = "waiting", ![c].blocks = blocks, ![c].orderly = blocks]
      BY <1>8 DEF Connect
    <3> QED BY <1>1, <1>8, <3>1 DEF Connect, WholePeer
  <2> QED BY <1>2, <1>4, <1>6, <2>1 DEF InStep, Before
<1> QED BY <1>7, <1>8

\* A message that is in order is answerable: a challenge as it should be, or a
\* proof after a successful challenge, which the SRP6 object of the connection
\* will verify if it was made with the password and with the whole salt.
LEMMA InOrderProper ==
    ASSUME NEW c \in Conns, NEW m \in Messages(c), InOrder(c, m), Owns(con[c], peer[c].got),
           NEW p, p.got = peer[c].got,
           p.tried = IF m.cmd = "proof" /\ m.knows THEN peer[c].got.user ELSE Stranger
    PROVE  Proper(m, con[c], p)
<1> DEFINE got == peer[c].got
<1>1. \/ \E u, os : m = Challenge(u, os, TRUE)
      \/ m = Challenge(Stranger, "known", FALSE)
      \/ m = Proof(0, FALSE, FALSE)
      \/ m = [cmd |-> "other"]
      \/ \E version \in BOOLEAN : m = ProofOf(got, version, TRUE)
  BY Zenon DEF Messages
<1>2. /\ \A u, os : Challenge(u, os, TRUE).cmd = "challenge" /\ Challenge(u, os, TRUE).sized = TRUE
      /\ Challenge(Stranger, "known", FALSE).cmd = "challenge"
      /\ Challenge(Stranger, "known", FALSE).sized = FALSE
  BY DEF Challenge
<1>3. /\ Proof(0, FALSE, FALSE).cmd = "proof"
      /\ \A version : ProofOf(got, version, TRUE).cmd = "proof"
  BY DEF Proof, ProofOf
<1>4. [cmd |-> "other"].cmd = "other"
  OBVIOUS
<1>5. \/ /\ m.cmd = "challenge"
         /\ (\E u, os : m = Challenge(u, os, TRUE)) \/ m = Challenge(Stranger, "known", FALSE)
      \/ /\ m.cmd = "proof"
         /\ m = Proof(0, FALSE, FALSE) \/ \E version \in BOOLEAN : m = ProofOf(got, version, TRUE)
      \/ m.cmd = "other"
  BY <1>1, <1>2, <1>3, <1>4, Zenon
<1>6. CASE m.cmd = "challenge"
  <2>1. \/ \E u, os : m = Challenge(u, os, TRUE)
        \/ m = Challenge(Stranger, "known", FALSE)
    BY <1>6, <1>5, Zenon
  <2>2. m.sized \in BOOLEAN
    BY <2>1, <1>2, Zenon
  <2> QED BY <1>6, <2>2 DEF InOrder, Proper
<1>7. CASE m.cmd = "proof"
  <2>1. got.cmd = "challengeOk"
    BY <1>7 DEF InOrder
  <2>2. m = Proof(0, FALSE, FALSE) \/ \E version \in BOOLEAN : m = ProofOf(got, version, TRUE)
    BY <1>7, <1>5, Zenon
  <2>3. CASE m = Proof(0, FALSE, FALSE)
    BY <1>7, <2>1, <2>3 DEF Proper, Proof
  <2>4. ASSUME NEW version \in BOOLEAN, m = ProofOf(got, version, TRUE)
        PROVE  Proper(m, con[c], p)
    <3>1. /\ m.m1 = (IF got.salt = Salt[got.user] THEN got.gen ELSE 0)
          /\ p.tried = got.user
      BY <1>7, <2>4 DEF ProofOf, Proof
    <3>2. /\ got.gen = con[c].srp.gen /\ got.user \in Accounts
          /\ got.salt = StrNCpy(Salt[got.user])
      BY <2>1 DEF Owns
    <3>3. got.salt # Salt[got.user] => Crooked(got.user)
      BY <3>2, CopyCut
    <3> QED BY <1>7, <2>1, <3>1, <3>2, <3>3 DEF Proper
  <2> QED BY <2>2, <2>3, <2>4
<1>8. m.cmd \in {"challenge", "proof", "other"}
  BY <1>5
<1> QED BY <1>6, <1>7, <1>8 DEF InOrder

\* A peer that sends out of order is not orderly any more; one that sends in
\* order has its only message on the wire.
LEMMA SendInStep ==
    ASSUME SessionInv, OrderlyInv, NEW c \in Conns, NEW m \in Messages(c), Send(c, m)
    PROVE  OrderlyInv'
<1>1. /\ DOMAIN con = Conns /\ PeerOK(c) /\ gens \in Nat
      /\ DOMAIN peer = Conns /\ DOMAIN wire = Conns /\ WholePeer(peer[c])
  BY DEF SessionInv, OrderlyInv, PeerOK
<1>2. UNCHANGED <<con, gens, died>>
  BY DEF Send
<1>3. Only(c)
  BY <1>1, <1>2 DEF Only, Send
<1>4. /\ DOMAIN peer'[c] = DOMAIN peer[c]
      /\ peer'[c].orderly = (peer[c].orderly /\ InOrder(c, m))
      /\ peer'[c].whole = peer[c].whole /\ peer'[c].blocks = peer[c].blocks
      /\ peer'[c].waits = TRUE /\ peer'[c].got = peer[c].got
      /\ peer'[c].garbled = peer[c].garbled /\ peer'[c].at = peer[c].at
      /\ peer'[c].tried = IF m.cmd = "proof" /\ m.knows THEN peer[c].got.user ELSE Stranger
  BY <1>1 DEF Send, WholePeer
<1>5. WholePeer(peer'[c])
  BY <1>1, <1>4 DEF WholePeer, Send
<1>6. SUFFICES ASSUME Kept(c), InOrder(c, m) PROVE InStep(con'[c], peer'[c], wire'[c])
  <2>1. PeerOK(c)'
    BY <1>4, <1>5, <1>6 DEF PeerOK, Kept
  <2>2. Kept(c)' => Kept(c)
    BY <1>4 DEF Kept
  <2> QED BY <1>1, <1>2, <1>3, <2>1, <2>2, OrderlyStepOfOne
<1>7. InStep(con[c], peer[c], wire[c]) /\ peer[c].at = "connected" /\ ~peer[c].waits
  BY <1>1, <1>6 DEF PeerOK, Send, InOrder
<1>8. During(con[c], peer[c], wire[c]) /\ Idle(con[c], peer[c], wire[c])
  BY <1>7 DEF InStep, Before, During, After, Asked, Reached, Answered
<1>9. wire'[c] = <<m>>
  BY <1>1, <1>8 DEF Send, Idle
<1>10. Proper(m, con[c], peer'[c])
  <2>1. PICK p : p = peer'[c]
    OBVIOUS
  <2>2. Proper(m, con[c], p)
    BY <1>4, <1>6, <1>8, <2>1, InOrderProper DEF Idle
  <2> QED BY <2>1, <2>2
<1>11. Asked(con'[c], peer'[c], wire'[c])
  BY <1>2, <1>4, <1>8, <1>9, <1>10 DEF Idle, Asked
<1> QED BY <1>2, <1>4, <1>7, <1>8, <1>11 DEF InStep, During

\* A peer that leaves while nothing is asked leaves nothing behind.
LEMMA DepartInStep ==
    ASSUME SessionInv, OrderlyInv, NEW c \in Conns, Depart(c)
    PROVE  OrderlyInv'
<1>1. /\ DOMAIN con = Conns /\ PeerOK(c) /\ gens \in Nat
      /\ DOMAIN peer = Conns /\ DOMAIN wire = Conns /\ WholePeer(peer[c])
  BY DEF SessionInv, OrderlyInv, PeerOK
<1>2. UNCHANGED <<con, gens, died>>
  BY DEF Depart
<1>3. Only(c)
  BY <1>1, <1>2 DEF Only, Depart
<1>4. /\ DOMAIN peer'[c] = DOMAIN peer[c]
      /\ peer'[c].orderly = (peer[c].orderly /\ ~peer[c].waits)
      /\ peer'[c].whole = peer[c].whole /\ peer'[c].blocks = peer[c].blocks
      /\ peer'[c].got = peer[c].got /\ peer'[c].tried = peer[c].tried
      /\ peer'[c].garbled = peer[c].garbled /\ peer'[c].at = "gone" /\ wire'[c] = <<>>
  BY <1>1 DEF Depart, WholePeer
<1>5. WholePeer(peer'[c])
  BY <1>1, <1>4 DEF WholePeer, Depart
<1>6. SUFFICES ASSUME Kept(c), ~peer[c].waits PROVE InStep(con'[c], peer'[c], wire'[c])
  <2>1. PeerOK(c)'
    BY <1>4, <1>5, <1>6 DEF PeerOK, Kept
  <2>2. Kept(c)' => Kept(c)
    BY <1>4 DEF Kept
  <2> QED BY <1>1, <1>2, <1>3, <2>1, <2>2, OrderlyStepOfOne
<1>7. InStep(con[c], peer[c], wire[c]) /\ peer[c].at = "connected"
  BY <1>1, <1>6 DEF PeerOK, Depart
<1>8. Idle(con[c], peer[c], wire[c])
  BY <1>6, <1>7 DEF InStep, Before, During, After, Asked, Reached, Answered
<1>9. /\ con[c].ready = <<>> /\ con[c].writes = <<>> /\ Just(peer'[c], peer'[c].got)
  BY <1>4, <1>8 DEF Idle, Just
<1>10. <<>> \in Seq({"error"})
  OBVIOUS
<1> QED BY <1>2, <1>4, <1>7, <1>9, <1>10 DEF InStep, After

\* Nobody has connected, so that everyone is in step.
LEMMA OrderlyInvInit == LInit => OrderlyInv
<1> SUFFICES ASSUME LInit PROVE OrderlyInv
  OBVIOUS
<1>1. ASSUME NEW c \in Conns PROVE PeerOK(c)
  <2>1. con[c] = NoCon /\ peer[c] = NoPeer /\ wire[c] = <<>>
    BY DEF LInit
  <2>2. WholePeer(NoPeer)
    BY DEF WholePeer, NoPeer
  <2>3. InStep(NoCon, NoPeer, <<>>)
    <3> HIDE DEF NoCon
    <3> QED BY DEF InStep, Before, NoPeer
  <2> QED BY <2>1, <2>2, <2>3 DEF PeerOK
<1> QED BY <1>1 DEF LInit, OrderlyInv, OrderlyPeersDoNotKill

\* Every step leaves orderly peers in step with their connections.
LEMMA OrderlyInvNext == SessionInv /\ OrderlyInv /\ [LNext]_vars => OrderlyInv'
<1> SUFFICES ASSUME SessionInv, OrderlyInv, [LNext]_vars PROVE OrderlyInv'
  OBVIOUS
<1>1. CASE UNCHANGED <<con, peer, wire, gens>> /\ (died' = died \/ died' = "second stop")
  BY <1>1 DEF OrderlyInv, PeerOK, OrderlyPeersDoNotKill, Kept
<1>2. ASSUME NEW c \in Conns, Io(c) PROVE OrderlyInv'
  BY <1>2, ReadInStep, ReceiveInStep, TransmitInStep, AcceptInStep DEF Io
<1>3. ASSUME NEW c \in Conns, Connect(c) \/ (\E m \in Messages(c) : Send(c, m)) \/ Depart(c)
      PROVE  OrderlyInv'
  BY <1>3, AcceptInStep, SendInStep, DepartInStep
<1>4. CASE HandleAcceptError \/ Shutdown \/ Rest \/ UNCHANGED vars
  BY <1>1, <1>4 DEF HandleAcceptError, Shutdown, Rest, vars
<1> QED BY <1>2, <1>3, <1>4 DEF LNext

\* Every orderly peer is in step with its connection, always.
THEOREM OrderlyPeersInStep == LSpec => []OrderlyInv
  BY SessionInvInit, SessionInvNext, OrderlyInvInit, OrderlyInvNext, PTL DEF LSpec

\* The assertion, the null pointer and the exceptions of handle_read that end the
\* process are out of reach of peers that keep to the protocol while none of their
\* messages is split over two reads.
THEOREM OrderlyPeersSafe == LSpec => []OrderlyPeersDoNotKill
<1>1. OrderlyInv => OrderlyPeersDoNotKill
  BY DEF OrderlyInv
<1> QED BY <1>1, OrderlyPeersInStep, PTL

\* The reply that an orderly peer gets is the one composed for it, although the
\* one buffer of the connection serves its reads and its writes: for peers that
\* read blocks of buff_len bytes and whose messages were not split.
THEOREM OrderlyPeersUnderstood == LSpec => []OrderlyRepliesIntact
<1>1. OrderlyInv => OrderlyRepliesIntact
  BY DEF OrderlyInv, OrderlyRepliesIntact, PeerOK, InStep
<1> QED BY <1>1, OrderlyPeersInStep, PTL

\* An orderly peer that knows the password, and whose messages were not split, is
\* refused only when strncpy has cut the salt of its account.
THEOREM OnlyCutSaltsRefused == LSpec => []RefusalsDeserved
<1>1. OrderlyInv => RefusalsDeserved
  <2> SUFFICES ASSUME OrderlyInv, NEW c \in Conns, Kept(c),
                      peer[c].got.cmd = "proofFail", peer[c].tried # Stranger, ~peer[c].waits
               PROVE  Crooked(peer[c].tried)
    BY DEF RefusalsDeserved, Crooked
  <2>1. InStep(con[c], peer[c], wire[c])
    BY DEF OrderlyInv, PeerOK
  <2>2. Just(peer[c], peer[c].got)
    BY <2>1 DEF InStep, Before, During, After, Idle, Asked, Reached, Answered
  <2> QED BY <2>2 DEF Just
<1> QED BY <1>1, OrderlyPeersInStep, PTL

-----------------------------------------------------------------------------
(***************************************************************************)
(* The third part is the arithmetic of the session key.  Induction on an   *)
(* exponent is done by the least number that is not in a set (AllNat), and *)
(* equality modulo N is the congruence Cong, which goes with sums and      *)
(* products.  ModExp is defined by a recursive function, whose recursion   *)
(* equation comes first (PowRec); from it follow the laws of powers.       *)
(***************************************************************************)

\* The modulus.
LEMMA NIs == N \in Nat /\ N > 2
  BY SRP6Assumption

\* A set of naturals has a least member.
LEMMA LeastNat ==
    ASSUME NEW T \in SUBSET Nat, T # {}
    PROVE  \E m \in T : \A n \in T : m <= n
<1> DEFINE R == OpToRel(<, Nat)
<1>1. IsWellFoundedOn(R, Nat)
  BY NatLessThanWellFounded
<1>2. \A x, y \in Nat : x < y => <<x, y>> \in R
  BY DEF OpToRel
<1> HIDE DEF R
<1>3. PICK x \in T : \A y \in T : ~(<<y, x>> \in R)
  BY <1>1, WFMin
<1>4. ASSUME NEW n \in T PROVE x <= n
  <2>1. ~(n < x)
    BY <1>2, <1>3
  <2> QED BY <2>1
<1> QED BY <1>4

\* Induction.
LEMMA AllNat ==
    ASSUME NEW T \in SUBSET Nat, 0 \in T, \A n \in T : n + 1 \in T
    PROVE  T = Nat
<1> DEFINE Bad == Nat \ T
<1> SUFFICES ASSUME Bad # {} PROVE FALSE
  OBVIOUS
<1>1. PICK n \in Bad : \A k \in Bad : n <= k
  <2>1. Bad \in SUBSET Nat
    OBVIOUS
  <2> QED BY <2>1, LeastNat
<1>2. n \in Nat /\ n # 0 /\ n \notin T
  BY <1>1
<1>3. n - 1 \in Nat /\ n - 1 \notin Bad
  BY <1>1, <1>2
<1>4. n - 1 \in T /\ (n - 1) + 1 = n
  BY <1>2, <1>3
<1> QED BY <1>2, <1>4

\* a and b leave the same remainder.
Cong(a, b) == \E k \in Int : a = b + k * N

\* The remainder.
LEMMA Remainder ==
    ASSUME NEW a \in Int
    PROVE  a % N \in 0..(N - 1) /\ Cong(a % N, a) /\ Cong(a, a % N)
<1>1. a % N \in 0..(N - 1)
  BY NIs
<1>2. a \div N \in Int /\ a = N * (a \div N) + (a % N)
  BY NIs
<1>3. PICK k \in Int, r \in Int : k = a \div N /\ r = a % N
  BY <1>1, <1>2, NIs
<1>4. a = r + k * N /\ r = a + (-k) * N /\ -k \in Int
  BY <1>2, <1>3, NIs
<1> QED BY <1>1, <1>3, <1>4 DEF Cong

\* Two remainders that are congruent are the same.
LEMMA CongSame ==
    ASSUME NEW a \in 0..(N - 1), NEW b \in 0..(N - 1), Cong(a, b)
    PROVE  a = b
<1>1. PICK k \in Int : a = b + k * N
  BY DEF Cong
<1>2. a \in Int /\ b \in Int /\ a >= 0 /\ b >= 0 /\ a < N /\ b < N /\ N \in Int
  BY NIs
<1>3. ~(k >= 1)
  <2>1. k >= 1 => k * N >= N
    BY <1>2
  <2> QED BY <1>1, <1>2, <2>1
<1>4. ~(k <= -1)
  <2>1. k <= -1 => k * N <= -N
    BY <1>2
  <2> QED BY <1>1, <1>2, <2>1
<1>5. k = 0
  BY <1>3, <1>4
<1>6. k * N = 0
  BY <1>5, <1>2
<1> QED BY <1>1, <1>2, <1>6

\* Congruence is symmetric,
LEMMA CongSym ==
    ASSUME NEW a \in Int, NEW b \in Int, Cong(a, b)
    PROVE  Cong(b, a)
<1>1. PICK k \in Int : a = b + k * N
  BY DEF Cong
<1>2. -k \in Int /\ b = a + (-k) * N
  BY <1>1, NIs
<1> QED BY <1>2 DEF Cong

\* transitive,
LEMMA CongTrans ==
    ASSUME NEW a \in Int, NEW b \in Int, NEW c \in Int, Cong(a, b), Cong(b, c)
    PROVE  Cong(a, c)
<1>1. PICK k \in Int : a = b + k * N
  BY DEF Cong
<1>2. PICK l \in Int : b = c + l * N
  BY DEF Cong
<1>3. k + l \in Int /\ a = c + (k + l) * N
  BY <1>1, <1>2, NIs
<1> QED BY <1>3 DEF Cong

\* and goes with products.
LEMMA CongMul ==
    ASSUME NEW a \in Int, NEW b \in Int, NEW c \in Int, NEW d \in Int, Cong(a, b), Cong(c, d)
    PROVE  Cong(a * c, b * d)
<1>1. PICK k \in Int : a = b + k * N
  BY DEF Cong
<1>2. PICK l \in Int : c = d + l * N
  BY DEF Cong
<1>3. PICK j \in Int : j = k * d + b * l + k * l * N
  BY NIs
<1>4. a * c = b * d + j * N
  BY <1>1, <1>2, <1>3, NIs
<1> QED BY <1>3, <1>4 DEF Cong


\* f has the first n powers of b.
IsPow(b, n, f) == f = [i \in 0..n |-> IF i = 0 THEN 1 % N ELSE (b * f[i - 1]) % N]

\* There is such a function.
LEMMA PowExists ==
    ASSUME NEW b, NEW n \in Nat
    PROVE  \E f : IsPow(b, n, f)
<1> DEFINE Bad == {m \in Nat : ~\E f : IsPow(b, m, f)}
<1>1. Bad = {}
  <2> SUFFICES ASSUME Bad # {} PROVE FALSE
    OBVIOUS
  <2>1. PICK m \in Bad : \A k \in Bad : m <= k
    BY LeastNat
  <2>2. CASE m = 0
    <3>1. IsPow(b, 0, [i \in 0..0 |-> 1 % N])
      BY DEF IsPow
    <3> QED BY <2>1, <2>2, <3>1
  <2>3. CASE m # 0
    <3>0. m \in Nat /\ (m - 1 \in Bad => m <= m - 1)
      BY <2>1
    <3>1. m - 1 \in Nat /\ m - 1 \notin Bad
      <4> HIDE DEF Bad
      <4> QED BY <2>3, <3>0
    <3>2. PICK f : IsPow(b, m - 1, f)
      BY <3>1
    <3> DEFINE h == [i \in 0..m |-> IF i = m THEN (b * f[m - 1]) % N ELSE f[i]]
    <3>3. ASSUME NEW i \in 0..m PROVE h[i] = IF i = 0 THEN 1 % N ELSE (b * h[i - 1]) % N
      <4>1. CASE i = m
        BY <2>3, <3>1, <4>1
      <4>2. CASE i # m
        <5>1. i \in 0..(m - 1) /\ h[i] = f[i]
          BY <3>1, <4>2
        <5>2. f[i] = IF i = 0 THEN 1 % N ELSE (b * f[i - 1]) % N
          BY <3>2, <5>1 DEF IsPow
        <5>3. i # 0 => i - 1 \in 0..m /\ i - 1 # m /\ h[i - 1] = f[i - 1]
          BY <5>1
        <5> QED BY <5>1, <5>2, <5>3
      <4> QED BY <4>1, <4>2
    <3>4. IsPow(b, m, h)
      BY <3>3 DEF IsPow
    <3> QED BY <2>1, <3>4
  <2> QED BY <2>2, <2>3
<1> QED BY <1>1

\* Two of them agree.
LEMMA PowUnique ==
    ASSUME NEW b, NEW n \in Nat, NEW f, NEW h, IsPow(b, n, f), IsPow(b, n + 1, h)
    PROVE  f[n] = h[n]
<1> DEFINE Bad == {i \in 0..n : f[i] # h[i]}
<1>1. Bad = {}
  <2> SUFFICES ASSUME Bad # {} PROVE FALSE
    OBVIOUS
  <2>1. PICK i \in Bad : \A k \in Bad : i <= k
    <3>1. Bad \in SUBSET Nat
      OBVIOUS
    <3> QED BY <3>1, LeastNat
  <2>2. i \in 0..n /\ i \in 0..(n + 1)
    BY <2>1
  <2>3. f[i] = (IF i = 0 THEN 1 % N ELSE (b * f[i - 1]) % N)
        /\ h[i] = (IF i = 0 THEN 1 % N ELSE (b * h[i - 1]) % N)
    BY <2>2 DEF IsPow
  <2>4. i # 0
    BY <2>1, <2>3
  <2>5. i - 1 \in 0..n /\ i - 1 \notin Bad
    BY <2>1, <2>2, <2>4
  <2> QED BY <2>1, <2>3, <2>5
<1> QED BY <1>1

\* b^e mod N.
Pow(b, e) == ModExp(b, e, N)

\* ModExp takes the last of the powers.
LEMMA PowIs ==
    ASSUME NEW b, NEW e \in Nat
    PROVE  \E f : IsPow(b, e, f) /\ Pow(b, e) = f[e]
<1> DEFINE F == CHOOSE f : IsPow(b, e, f)
<1>1. IsPow(b, e, F)
  BY PowExists
<1>2. Pow(b, e) = F[e]
  BY DEF Pow, ModExp, IsPow
<1> QED BY <1>1, <1>2

\* The recursion of ModExp.
LEMMA PowRec ==
    ASSUME NEW b \in Int, NEW e \in Nat
    PROVE  /\ Pow(b, 0) = 1 /\ Pow(b, e + 1) = (b * Pow(b, e)) % N
           /\ Pow(b, e) \in 0..(N - 1)
<1>1. Pow(b, 0) = 1
  <2>1. PICK f : IsPow(b, 0, f) /\ Pow(b, 0) = f[0]
    BY PowIs
  <2>2. 1 % N = 1
    BY NIs
  <2> QED BY <2>1, <2>2 DEF IsPow
<1>2. ASSUME NEW n \in Nat PROVE Pow(b, n + 1) = (b * Pow(b, n)) % N
  <2>1. PICK f : IsPow(b, n, f) /\ Pow(b, n) = f[n]
    BY PowIs
  <2>2. PICK h : IsPow(b, n + 1, h) /\ Pow(b, n + 1) = h[n + 1]
    BY PowIs
  <2>3. h[n] = f[n]
    BY <2>1, <2>2, PowUnique
  <2>4. h[n + 1] = (b * h[(n + 1) - 1]) % N
    BY <2>2 DEF IsPow
  <2>5. (n + 1) - 1 = n
    OBVIOUS
  <2> QED BY <2>1, <2>2, <2>3, <2>4, <2>5
<1> DEFINE Bad == {n \in Nat : Pow(b, n) \notin 0..(N - 1)}
<1>3. Bad = {}
  <2> SUFFICES ASSUME Bad # {} PROVE FALSE
    OBVIOUS
  <2>1. PICK n \in Bad : \A k \in Bad : n <= k
    BY LeastNat
  <2>2. n # 0
    BY <1>1, <2>1, NIs
  <2>3. n \in Nat /\ n - 1 \in Nat /\ n - 1 \notin Bad
    BY <2>1, <2>2
  <2>4. Pow(b, n - 1) \in 0..(N - 1)
    BY <2>3
  <2>5. Pow(b, (n - 1) + 1) = (b * Pow(b, n - 1)) % N
    BY <1>2, <2>3
  <2>6. b * Pow(b, n - 1) \in Int
    BY <2>4, NIs
  <2>7. (b * Pow(b, n - 1)) % N \in 0..(N - 1)
    BY <2>6, Remainder
  <2>8. (n - 1) + 1 = n
    BY <2>3
  <2> QED BY <2>1, <2>5, <2>7, <2>8
<1> QED BY <1>1, <1>2, <1>3


\* A number is congruent to itself.
LEMMA CongRefl == ASSUME NEW a \in Int PROVE Cong(a, a)
<1>1. 0 \in Int /\ a = a + 0 * N
  BY NIs
<1> QED BY <1>1 DEF Cong

\* Congruence goes with sums.
LEMMA CongAdd ==
    ASSUME NEW a \in Int, NEW b \in Int, NEW c \in Int, NEW d \in Int, Cong(a, b), Cong(c, d)
    PROVE  Cong(a + c, b + d)
<1>1. PICK k \in Int : a = b + k * N
  BY DEF Cong
<1>2. PICK l \in Int : c = d + l * N
  BY DEF Cong
<1>3. k + l \in Int /\ a + c = b + d + (k + l) * N
  BY <1>1, <1>2, NIs
<1> QED BY <1>3 DEF Cong

\* Congruent numbers have the same remainder.
LEMMA CongMod ==
    ASSUME NEW a \in Int, NEW b \in Int, Cong(a, b)
    PROVE  a % N = b % N
<1>1. PICK r \in 0..(N - 1) : r = a % N /\ Cong(r, a)
  BY Remainder
<1>2. PICK q \in 0..(N - 1) : q = b % N /\ Cong(b, q)
  BY Remainder
<1>3. r \in Int /\ q \in Int
  BY NIs
<1>4. Cong(r, b)
  BY <1>1, <1>3, CongTrans
<1>5. Cong(r, q)
  BY <1>2, <1>3, <1>4, CongTrans
<1> QED BY <1>1, <1>2, <1>5, CongSame

\* One power more.
LEMMA PowStep ==
    ASSUME NEW b \in Int, NEW e \in Nat
    PROVE  /\ Pow(b, e) \in Int /\ b * Pow(b, e) \in Int /\ Pow(b, e + 1) \in Int
           /\ Cong(Pow(b, e + 1), b * Pow(b, e))
<1>1. Pow(b, e) \in Int /\ Pow(b, e + 1) = (b * Pow(b, e)) % N
  BY PowRec, NIs
<1>2. b * Pow(b, e) \in Int
  BY <1>1
<1>3. Pow(b, e + 1) \in 0..(N - 1) /\ Cong(Pow(b, e + 1), b * Pow(b, e))
  BY <1>1, <1>2, Remainder
<1> QED BY <1>1, <1>2, <1>3, NIs

\* The power depends only on the remainder of the base.
LEMMA PowBase ==
    ASSUME NEW b \in Int, NEW c \in Int, Cong(b, c), NEW e \in Nat
    PROVE  Pow(b, e) = Pow(c, e)
<1> DEFINE T == {n \in Nat : Pow(b, n) = Pow(c, n)}
<1>1. 0 \in T
  BY PowRec
<1>2. ASSUME NEW n \in T PROVE n + 1 \in T
  <2>1. PICK p \in Int : p = Pow(b, n) /\ p = Pow(c, n)
    BY PowStep
  <2>2. Cong(b * p, c * p) /\ b * p \in Int /\ c * p \in Int
    <3>1. Cong(p, p) /\ b * p \in Int /\ c * p \in Int
      BY CongRefl
    <3> QED BY <3>1, CongMul
  <2>3. (b * p) % N = (c * p) % N
    BY <2>2, CongMod
  <2> QED BY <2>1, <2>3, PowRec
<1>3. T = Nat
  <2>1. T \in SUBSET Nat /\ \A n \in T : n + 1 \in T
    BY <1>2
  <2> HIDE DEF T
  <2> QED BY <1>1, <2>1, AllNat
<1> QED BY <1>3

\* b^(e + f) is b^e * b^f.
LEMMA PowSum ==
    ASSUME NEW b \in Int, NEW e \in Nat, NEW f \in Nat
    PROVE  Cong(Pow(b, e + f), Pow(b, e) * Pow(b, f))
<1> DEFINE T == {n \in Nat : Cong(Pow(b, e + n), Pow(b, e) * Pow(b, n))}
<1>1. 0 \in T
  <2>1. Pow(b, e) \in Int /\ Pow(b, 0) = 1 /\ e + 0 = e
    BY PowStep, PowRec
  <2>2. Pow(b, e) * 1 = Pow(b, e)
    BY <2>1
  <2>3. Cong(Pow(b, e + 0), Pow(b, e) * Pow(b, 0))
    BY <2>1, <2>2, CongRefl
  <2> QED BY <2>3
<1>2. ASSUME NEW n \in T PROVE n + 1 \in T
  <2>1. n \in Nat /\ e + n \in Nat /\ e + (n + 1) = (e + n) + 1
    OBVIOUS
  <2>2. PICK p \in Int : p = Pow(b, e)
    BY PowStep
  <2>3. PICK q \in Int, q1 \in Int : q = Pow(b, n) /\ q1 = Pow(b, n + 1) /\ Cong(q1, b * q)
    BY <2>1, PowStep
  <2>4. PICK r \in Int, r1 \in Int : r = Pow(b, e + n) /\ r1 = Pow(b, e + (n + 1)) /\ Cong(r1, b * r)
    BY <2>1, PowStep
  <2>5. Cong(r, p * q)
    BY <2>2, <2>3, <2>4
  <2>6. b * r \in Int /\ p * q \in Int /\ b * q \in Int /\ p * q1 \in Int /\ b * (p * q) \in Int
        /\ p * (b * q) \in Int /\ b * (p * q) = p * (b * q)
    OBVIOUS
  <2>7. Cong(b * r, b * (p * q))
    BY <2>5, <2>6, CongRefl, CongMul
  <2>8. Cong(r1, p * (b * q))
    BY <2>4, <2>6, <2>7, CongTrans
  <2>9. Cong(p * (b * q), p * q1)
    BY <2>3, <2>6, CongRefl, CongMul, CongSym
  <2>10. Cong(r1, p * q1)
    BY <2>6, <2>8, <2>9, CongTrans
  <2> QED BY <2>1, <2>2, <2>3, <2>4, <2>10
<1>3. T = Nat
  <2>1. T \in SUBSET Nat /\ \A n \in T : n + 1 \in T
    BY <1>2
  <2> HIDE DEF T
  <2> QED BY <1>1, <2>1, AllNat
<1> QED BY <1>3

\* b^(e * f) is (b^e)^f.
LEMMA PowMul ==
    ASSUME NEW b \in Int, NEW e \in Nat, NEW f \in Nat
    PROVE  Pow(b, e * f) = Pow(Pow(b, e), f)
<1>0. PICK p \in 0..(N - 1) : p = Pow(b, e) /\ p \in Int
  BY PowRec, NIs
<1> DEFINE T == {n \in Nat : Pow(b, e * n) = Pow(p, n)}
<1>1. 0 \in T
  <2>1. e * 0 = 0
    OBVIOUS
  <2> QED BY <1>0, <2>1, PowRec
<1>2. ASSUME NEW n \in T PROVE n + 1 \in T
  <2>1. n \in Nat /\ e * n \in Nat /\ e * (n + 1) = e * n + e /\ e * (n + 1) \in Nat
    OBVIOUS
  <2>2. PICK q \in Int : q = Pow(b, e * n) /\ q = Pow(p, n)
    BY <1>0, <2>1, PowStep
  <2>3. Cong(Pow(b, e * n + e), q * p)
    BY <1>0, <2>1, <2>2, PowSum
  <2>4. PICK r \in 0..(N - 1) : r = Pow(b, e * (n + 1)) /\ r \in Int
    BY <2>1, PowRec, NIs, SMTT(30)
  <2>5. Cong(r, q * p)
    BY <2>1, <2>3, <2>4
  <2>6. PICK s \in 0..(N - 1) : s = Pow(p, n + 1) /\ s \in Int /\ Cong(s, p * q)
    <3>1. n + 1 \in Nat
      OBVIOUS
    <3>2. Pow(p, n + 1) \in 0..(N - 1)
      BY <1>0, <3>1, PowRec
    <3>3. Pow(p, n + 1) \in Int /\ Cong(Pow(p, n + 1), p * q)
      BY <1>0, <2>1, <2>2, PowStep
    <3> QED BY <3>2, <3>3
  <2>7. q * p = p * q /\ p * q \in Int
    BY <1>0
  <2>8. Cong(p * q, s)
    BY <2>6, <2>7, CongSym
  <2>9. Cong(r, s)
    BY <2>4, <2>5, <2>6, <2>7, <2>8, CongTrans
  <2>10. r = s
    BY <2>9, CongSame
  <2> QED BY <2>1, <2>4, <2>6, <2>10
<1>3. T = Nat
  <2>1. T \in SUBSET Nat /\ \A n \in T : n + 1 \in T
    BY <1>2
  <2> HIDE DEF T
  <2> QED BY <1>1, <2>1, AllNat
<1> QED BY <1>0, <1>3

\* Client and server make the same S, for every modulus and generator, every
\* password, all random numbers and every digest of A and B, although the server
\* computes (A * v^u)^b and the client (B - 3 * g^x)^(a + u * x)
\* (CalculateVerifier, _B and VerifyChallengeResponse).
THEOREM SameSecret ==
    ASSUME NEW x \in Nat, NEW a \in Nat, NEW b \in Nat, NEW u \in Nat
    PROVE  ServerS(ModExp(g, a, N), u, b, CalculateVerifier(x))
              = ClientS(EphemeralB(b, CalculateVerifier(x)), a, u, x)
<1>0. PICK v : v = CalculateVerifier(x)
  OBVIOUS
<1>1. g \in Int /\ N \in Int /\ N > 2
  BY SRP6Assumption
<1>2. PICK w \in Int : w = Pow(g, x)
  BY <1>1, PowStep
<1>3. PICK A \in Int : A = Pow(g, a)
  BY <1>1, PowStep
<1>4. PICK p \in Int : p = Pow(g, b)
  BY <1>1, PowStep
<1>5. PICK e \in Nat : e = a + u * x
  OBVIOUS
<1>6. PICK G \in Int : G = Pow(g, e)
  BY <1>1, PowStep
<1>7. v = w
  BY <1>0, <1>2 DEF CalculateVerifier, Pow
<1>8. Pow(A * Pow(w, u), b) = Pow(G, b)
  <2>1. PICK y \in Int : y = Pow(w, u)
    BY PowStep
  <2>2. y = Pow(g, x * u)
    BY <1>1, <1>2, <2>1, PowMul
  <2>3. x * u \in Nat /\ a + x * u = e
    BY <1>5
  <2>4. Cong(G, A * y)
    BY <1>1, <1>3, <1>6, <2>2, <2>3, PowSum
  <2>5. A * y \in Int
    OBVIOUS
  <2>6. Cong(A * y, G)
    BY <2>4, <2>5, CongSym
  <2> QED BY <2>1, <2>5, <2>6, PowBase
<1>9. Pow(G, b) = Pow(g, e * b)
  BY <1>1, <1>6, PowMul
<1>10. Pow(p, e) = Pow(g, b * e)
  BY <1>1, <1>4, PowMul
<1>11. e * b = b * e
  OBVIOUS
<1> DEFINE B == (p + w * 3) % N
           Base == (B + 3 * (N - w)) % N
<1>12. B \in Int /\ Cong(B, p + w * 3)
  <2>1. p + w * 3 \in Int
    OBVIOUS
  <2> QED BY <1>1, <2>1, Remainder
<1>13. Base \in Int /\ Cong(Base, p)
  <2>1. PICK c \in Int : c = B
    BY <1>12
  <2>2. 3 * (N - w) \in Int /\ c + 3 * (N - w) \in Int /\ p + w * 3 \in Int
    BY <1>1
  <2>3. PICK d \in Int : d = 3 * (N - w)
    BY <2>2
  <2>4. Cong(c + d, (p + w * 3) + d)
    BY <1>12, <2>1, <2>2, <2>3, CongAdd, CongRefl
  <2>5. (p + w * 3) + d = p + 3 * N /\ 3 \in Int /\ (p + w * 3) + d \in Int
    BY <1>1, <2>3
  <2>6. Cong((p + w * 3) + d, p)
    BY <2>5 DEF Cong
  <2>7. c + d \in Int
    OBVIOUS
  <2>8. Cong(c + d, p)
    BY <2>4, <2>5, <2>6, <2>7, CongTrans
  <2>9. (c + d) % N \in 0..(N - 1) /\ Cong((c + d) % N, c + d)
    BY <2>7, Remainder
  <2>10. (c + d) % N \in Int
    BY <1>1, <2>9
  <2>11. Cong((c + d) % N, p)
    BY <2>7, <2>8, <2>9, <2>10, CongTrans
  <2> QED BY <2>1, <2>3, <2>10, <2>11
<1>14. Pow(Base, e) = Pow(p, e)
  <2> HIDE DEF Base
  <2> QED BY <1>13, PowBase
<1>15. ServerS(ModExp(g, a, N), u, b, v) = Pow(A * Pow(w, u), b)
  BY <1>3, <1>7 DEF ServerS, Pow
<1>16. ClientS(EphemeralB(b, v), a, u, x) = Pow(Base, e)
  BY <1>2, <1>4, <1>5, <1>7 DEF ClientS, EphemeralB, Pow
<1> QED BY <1>0, <1>8, <1>9, <1>10, <1>11, <1>14, <1>15, <1>16


\* What LeadingZeros counts.
LEMMA LeadingZerosIs ==
    ASSUME NEW K \in Nat, NEW X, NEW S \in [1..K -> X]
    PROVE  /\ LeadingZeros(S) \in 0..K
           /\ \A i \in 1..LeadingZeros(S) : S[i] = 0
           /\ LeadingZeros(S) < K => S[LeadingZeros(S) + 1] # 0
<1> DEFINE I == {i \in 1..K : S[i] # 0}
<1>1. Len(S) = K
  OBVIOUS
<1>2. LeadingZeros(S) = IF I # {} THEN (IF Min(I) = 0 THEN K ELSE Min(I) - 1) ELSE K
  BY <1>1 DEF LeadingZeros, SelectInSeq
<1>3. CASE I = {}
  BY <1>2, <1>3
<1>4. CASE I # {}
  <2>1. I \in SUBSET Nat
    OBVIOUS
  <2>2. \E x \in I : \A y \in I : x =< y
    BY <1>4, <2>1, LeastNat
  <2>3. PICK m \in I : m = Min(I) /\ \A y \in I : m =< y
    BY <2>2 DEF Min
  <2>4. m \in 1..K /\ S[m] # 0
    BY <2>3
  <2>5. ASSUME NEW i \in 1..(m - 1) PROVE S[i] = 0
    BY <2>3, <2>4
  <2>6. LeadingZeros(S) = m - 1
    BY <1>2, <1>4, <2>3, <2>4
  <2> QED BY <2>4, <2>5, <2>6
<1> QED BY <1>3, <1>4

\* What is left of a text behind its first n bytes.
LEMMA DropIs ==
    ASSUME NEW X, NEW S \in Seq(X), NEW K \in Nat, Len(S) = K, NEW n \in 0..K
    PROVE  /\ Drop(S, n) \in Seq(X) /\ Len(Drop(S, n)) = K - n
           /\ \A i \in 1..(K - n) : Drop(S, n)[i] = S[n + i]
  BY DEF Drop

\* h has the n bytes of a half of S that are behind the first p of it.
HalfFrom(h, S, odd, p, n) == Len(h) = n /\ \A j \in 1..n : h[j] = S[2 * p + 2 * j - 1 + odd]

\* The bytes of a half, behind the first p of it.
LEMMA HalfIs ==
    ASSUME NEW X, NEW m \in Nat, NEW S \in [1..(2 * m) -> X], NEW odd \in {0, 1}, NEW p \in 0..m
    PROVE  HalfFrom(Drop(Half(S, odd), p), S, odd, p, m - p)
<1>1. Len(S) = 2 * m /\ (2 * m) \div 2 = m /\ 2 * m \in Nat
  OBVIOUS
<1>2. Half(S, odd) = [i \in 1..m |-> S[2 * i - 1 + odd]]
  BY <1>1 DEF Half
<1>3. \A i \in 1..m : 2 * i - 1 + odd \in 1..(2 * m)
  OBVIOUS
<1>4. PICK h \in Seq(X) : h = Half(S, odd) /\ Len(h) = m /\ \A i \in 1..m : h[i] = S[2 * i - 1 + odd]
  BY <1>2, <1>3
<1>5. /\ Drop(h, p) \in Seq(X) /\ Len(Drop(h, p)) = m - p
      /\ \A j \in 1..(m - p) : Drop(h, p)[j] = h[p + j]
  BY <1>4, DropIs, ZenonT(60)
<1>6. ASSUME NEW j \in 1..(m - p) PROVE Drop(h, p)[j] = S[2 * p + 2 * j - 1 + odd]
  <2>1. p + j \in 1..m /\ 2 * (p + j) - 1 + odd = 2 * p + 2 * j - 1 + odd
    OBVIOUS
  <2> QED BY <1>4, <1>5, <2>1
<1> QED BY <1>4, <1>5, <1>6 DEF HalfFrom

\* The two halves that SHA1Interleave makes of a secret of 2 * m bytes, dealt out
\* alternately, are what is left of it behind the zeros, without the odd byte:
\* for every number of zeros in front.
THEOREM Deals ==
    ASSUME NEW X, NEW m \in Nat, NEW S \in [1..(2 * m) -> X]
    PROVE  DealtOut(S)
<1>a. PICK t : t = Drop(S, LeadingZeros(S))
  OBVIOUS
<1>b. PICK rest : rest = IF Len(t) % 2 = 1 THEN Tail(t) ELSE t
  OBVIOUS
<1>c. PICK h : h = SHA1Interleave(S)
  OBVIOUS
<1>1. S \in Seq(X) /\ Len(S) = 2 * m /\ 2 * m \in Nat
  OBVIOUS
<1>2. PICK z \in 0..(2 * m) : z = LeadingZeros(S)
  BY <1>1, LeadingZerosIs
<1>3. PICK p \in 0..m : p = (z + 1) \div 2 /\ (z = 2 * p \/ z = 2 * p - 1)
  OBVIOUS
<1>4. PICK a, b : a = Drop(Half(S, 0), p) /\ b = Drop(Half(S, 1), p)
  OBVIOUS
<1>5. h[1] = a /\ h[2] = b
  BY <1>c, <1>2, <1>3, <1>4 DEF SHA1Interleave
<1>6. Len(a) = m - p /\ \A j \in 1..(m - p) : a[j] = S[2 * p + 2 * j - 1]
  <2>1. 0 \in {0, 1}
    OBVIOUS
  <2>2. HalfFrom(a, S, 0, p, m - p)
    BY <1>4, <2>1, HalfIs, Zenon
  <2> QED BY <2>2 DEF HalfFrom
<1>7. Len(b) = m - p /\ \A j \in 1..(m - p) : b[j] = S[2 * p + 2 * j]
  <2>1. 1 \in {0, 1}
    OBVIOUS
  <2>2. HalfFrom(b, S, 1, p, m - p)
    BY <1>4, <2>1, HalfIs, Zenon
  <2> QED BY <2>2 DEF HalfFrom
<1>8. /\ t \in Seq(X) /\ Len(t) = 2 * m - z
      /\ \A i \in 1..(2 * m - z) : t[i] = S[z + i]
  BY <1>a, <1>1, <1>2, DropIs, Zenon
<1>9. /\ rest \in Seq(X) /\ Len(rest) = 2 * (m - p)
      /\ \A i \in 1..(2 * (m - p)) : rest[i] = S[2 * p + i]
  <2>1. CASE z = 2 * p
    <3>1. Len(t) % 2 # 1 /\ Len(t) = 2 * (m - p)
      BY <1>8, <2>1
    <3>2. rest = t
      BY <1>b, <3>1
    <3> QED BY <1>8, <2>1, <3>1, <3>2
  <2>2. CASE z = 2 * p - 1
    <3>1. Len(t) % 2 = 1 /\ Len(t) = 2 * (m - p) + 1
      BY <1>8, <2>2
    <3>2. rest = Tail(t)
      BY <1>b, <3>1
    <3>3. /\ rest \in Seq(X) /\ Len(rest) = 2 * (m - p)
          /\ \A i \in 1..(2 * (m - p)) : rest[i] = t[i + 1]
      BY <1>8, <3>1, <3>2
    <3>4. ASSUME NEW i \in 1..(2 * (m - p)) PROVE rest[i] = S[2 * p + i]
      <4>1. i + 1 \in 1..(2 * m - z) /\ z + (i + 1) = 2 * p + i
        BY <2>2
      <4> QED BY <1>8, <3>3, <4>1
    <3> QED BY <3>3, <3>4
  <2> QED BY <1>3, <2>1, <2>2
<1>10. ASSUME NEW i \in 1..(2 * (m - p))
       PROVE  rest[i] = IF i % 2 = 1 THEN a[(i + 1) \div 2] ELSE b[i \div 2]
  <2>1. CASE i % 2 = 1
    <3>1. (i + 1) \div 2 \in 1..(m - p) /\ 2 * ((i + 1) \div 2) = i + 1
      BY <2>1
    <3>2. PICK j \in 1..(m - p) : j = (i + 1) \div 2 /\ 2 * p + 2 * j - 1 = 2 * p + i
      BY <3>1
    <3> QED BY <1>6, <1>9, <2>1, <3>2
  <2>2. CASE i % 2 # 1
    <3>1. i \div 2 \in 1..(m - p) /\ 2 * (i \div 2) = i
      BY <2>2
    <3>2. PICK j \in 1..(m - p) : j = i \div 2 /\ 2 * p + 2 * j = 2 * p + i
      BY <3>1
    <3> QED BY <1>7, <1>9, <2>2, <3>2
  <2> QED BY <2>1, <2>2
<1>11. rest = [i \in 1..(2 * (m - p)) |-> IF i % 2 = 1 THEN a[(i + 1) \div 2] ELSE b[i \div 2]]
  <2>1. rest = [i \in 1..(2 * (m - p)) |-> rest[i]]
    BY <1>9
  <2> QED BY <1>10, <2>1, Zenon
<1>12. /\ Len(h[1]) = Len(h[2])
       /\ rest = [i \in 1..(2 * Len(h[1])) |->
                    IF i % 2 = 1 THEN h[1][(i + 1) \div 2] ELSE h[2][i \div 2]]
  BY <1>5, <1>6, <1>7, <1>11
<1> QED BY <1>a, <1>b, <1>c, <1>12, Zenon DEF DealtOut

\* The bytes of any S of the length of a key.
LEMMA InterleavedHolds == Interleaved
<1>1. PICK m \in Nat : KEY_LENGTH = 2 * m
  <2>1. KEY_LENGTH \in Nat /\ KEY_LENGTH % 2 = 0
    BY SRP6Assumption
  <2>2. KEY_LENGTH \div 2 \in Nat /\ KEY_LENGTH = 2 * (KEY_LENGTH \div 2)
    BY <2>1
  <2> QED BY <2>2
<1> QED BY <1>1, Deals, Zenon DEF Interleaved

\* The exponents of a run are among all.
LEMMA SameSHolds == SameS
<1>1. Exponents \in SUBSET Nat
  BY SRP6Assumption DEF Exponents
<1> SUFFICES ASSUME NEW x \in Exponents, NEW a \in Exponents, NEW b \in Exponents, NEW u \in Exponents
             PROVE  ServerS(ModExp(g, a, N), u, b, CalculateVerifier(x))
                       = ClientS(EphemeralB(b, CalculateVerifier(x)), a, u, x)
  BY Zenon DEF SameS
<1>2. x \in Nat /\ a \in Nat /\ b \in Nat /\ u \in Nat
  BY <1>1
<1> QED BY <1>2, SameSecret, Zenon

\* When a proof is verified, client and server have the same S and make the same
\* key of it, for every modulus, generator and length of the key.
THEOREM SameKeyHolds == LSpec => []SameKey
<1>1. SameKey
  BY SameSHolds, InterleavedHolds DEF SameKey
<1> QED BY <1>1, PTL
=============================================================================
