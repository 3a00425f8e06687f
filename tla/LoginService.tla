----------------------------- MODULE LoginService -----------------------------
(***************************************************************************)
(* The logon server: CMyService accepts connections, and every             *)
(* CMyTcpConnection answers a challenge and a proof of SRP6.  One io       *)
(* thread runs the handlers one after the other (nThreads is 1); reads and *)
(* writes are asynchronous, use the one buffer of the connection, and      *)
(* more than one of each may be outstanding.  main waits for a key, stops  *)
(* the service and destroys it.                                            *)
(*                                                                         *)
(* The peers are arbitrary: they send what they like when they like, and   *)
(* leave.  The network may deliver several messages at once, or the front  *)
(* of one and its remainder later: nothing in the server puts a message    *)
(* together again.  Auxiliary fields of peer say whether a peer has kept   *)
(* to the protocol and whether its messages came whole, so that properties *)
(* can be stated for those who do and when they did.  Database calls are   *)
(* those of SyncPool, seen from outside: they return.                      *)
(***************************************************************************)
EXTENDS SRP6, FiniteSets

CONSTANTS Conns,      \* connections
          Salt,       \* per account in the database: its salt, a sequence of bytes
          Stranger,   \* a user name that is not in the database
          MaxSends,   \* bound on the messages of all peers
          MaxWire,    \* bound on the messages of a peer that are on their way
          MaxSplits   \* bound on the messages that are split over two reads

Accounts == DOMAIN Salt

ASSUME LoginAssumption ==
    /\ \A u \in Accounts : Salt[u] \in Seq(Nat)
    /\ Stranger \notin Accounts
    /\ {MaxSends, MaxWire, MaxSplits} \subseteq Nat

VARIABLES con,      \* per connection: the CMyTcpConnection
          peer,     \* per connection: the client at its other end
          wire,     \* per connection: messages sent and not received
          armed,    \* an async_accept is outstanding
          died,     \* "no", or how the process ended
          granted,  \* <<connection, user>>: session keys written to the database
          gens,     \* SRP6 objects made so far: each has a random B of its own
          sends, splits

vars == <<con, peer, wire, armed, died, granted, gens, sends, splits>>

NoSrp == [gen |-> 0, user |-> Stranger, used |-> FALSE]

(***************************************************************************)
(* con: the socket; buff; reads outstanding; reads that are complete and   *)
(* whose handlers wait to run; writes outstanding, as the replies they     *)
(* were started for; _srp6, UserName and _os.  proven is auxiliary: the    *)
(* users whose proofs were verified here.                                  *)
(***************************************************************************)
NoCon == [socket |-> "none", buff |-> [cmd |-> "zero"], reads |-> 0, ready |-> <<>>,
          writes |-> <<>>, srp |-> NoSrp, UserName |-> Stranger, os |-> "none", proven |-> {}]

(***************************************************************************)
(* peer: where it is; the last reply it got; whether it waits for one;     *)
(* blocks when it reads every reply as the block of buff_len bytes that is *)
(* sent, and not as many bytes as the reply has; orderly as long as it     *)
(* keeps to the protocol, which takes blocks; whole as long as none of its *)
(* messages was split; garbled when a reply that it got was not the one    *)
(* composed for it; tried, the user that its last message was a proof for, *)
(* made with the right password.                                           *)
(***************************************************************************)
NoPeer == [at |-> "away", got |-> [cmd |-> "zero"], waits |-> FALSE, blocks |-> TRUE,
           orderly |-> TRUE, whole |-> TRUE, garbled |-> FALSE, tried |-> Stranger]

LInit == /\ con = [c \in Conns |-> NoCon]
         /\ peer = [c \in Conns |-> NoPeer]
         /\ wire = [c \in Conns |-> <<>>]
         /\ armed = TRUE
         /\ died = "no"
         /\ granted = {}
         /\ gens = 0
         /\ sends = 0
         /\ splits = 0

-----------------------------------------------------------------------------
(***************************************************************************)
(* Messages.                                                               *)
(***************************************************************************)

\* A plausible bug: the last byte is left for a terminating zero.
StrNCpyTerminated(s) == [i \in DOMAIN s |-> IF i = Len(s) THEN 0 ELSE s[i]]

\* strncpy of bytes: nothing is copied after a zero.
StrNCpy(s) == [i \in DOMAIN s |-> IF \E j \in 1..i : s[j] = 0 THEN 0 ELSE s[i]]

\* A challenge: sized says that its sizes agree; os is what the client runs on.
Challenge(user, os, sized) == [cmd |-> "challenge", user |-> user, os |-> os, sized |-> sized]
\* A proof: m1 is the SRP6 object whose B and salt its M1 was computed for, or 0
\* for no such object; knows is auxiliary: the peer knows the password.
Proof(m1, version, knows) == [cmd |-> "proof", m1 |-> m1, version |-> version, knows |-> knows]

\* The proof that a peer makes of a successful reply to its challenge.
ProofOf(reply, version, knows) ==
    Proof(IF knows /\ reply.salt = Salt[reply.user] THEN reply.gen ELSE 0, version, knows)

\* What is left of a message whose front was read, and what its front leaves in
\* the buffer; the command is the first byte of a message.
LeftOver == [cmd |-> "left over"]
Fragment(m) == IF m.cmd \in {"challenge", "proof"} THEN [cmd |-> "fragment", of |-> m] ELSE m

AnyChallenge == {Challenge(Stranger, "none", FALSE)}
    \cup {Challenge(u, os, TRUE) : u \in Accounts \cup {Stranger}, os \in {"known", "other"}}

(***************************************************************************)
(* What handle_read may make of the buffer, which a later read, or the     *)
(* reply to an earlier message, may have overwritten.  A reply has the cmd *)
(* of its request.  Earlier bytes, whatever they are, take the place of    *)
(* those of a front that have not arrived: a challenge may get other sizes *)
(* and another name and system, and a proof another M1 or crc_hash.  The   *)
(* first byte of a remainder is any: it is a challenge, a proof that is    *)
(* not verified, or no message.                                            *)
(***************************************************************************)
Understood(buff) ==
    CASE buff.cmd \in {"challengeOk", "challengeFail"} -> {Challenge(Stranger, "none", FALSE)}
      [] buff.cmd \in {"proofOk", "proofFail", "versionFail"} -> {Proof(0, FALSE, FALSE)}
      [] buff.cmd = "fragment" ->
            IF buff.of.cmd = "challenge" THEN AnyChallenge
            ELSE {buff.of, Proof(buff.of.m1, FALSE, buff.of.knows), Proof(0, FALSE, FALSE)}
      [] buff.cmd = "left over" -> AnyChallenge \cup {Proof(0, FALSE, FALSE), [cmd |-> "other"]}
      [] OTHER -> {buff}

-----------------------------------------------------------------------------
(***************************************************************************)
(* The handlers.                                                           *)
(***************************************************************************)

\* A connection with no operation outstanding has no owner: it is destroyed.
Settled(r) == IF r.reads = 0 /\ r.ready = <<>> /\ r.writes = <<>>
              THEN [r EXCEPT !.socket = "closed"] ELSE r

AsyncRead(r) == [r EXCEPT !.reads = @ + 1]

\* A plausible bug of handle_read: the reply is not copied to buff.
handle_writeUncopied(r, reply) ==
    AsyncRead([r EXCEPT !.writes = Append(@, reply)])

\* handle_write: the reply is in buff, which the write refers to; at once a read
\* into the same buffer is started.
handle_write(r, reply) ==
    AsyncRead([r EXCEPT !.buff = reply, !.writes = Append(@, reply)])

\* A handler ends and leaves connection c as r, with another read or without.
Leave(c, r, more) == con' = [con EXCEPT ![c] = Settled(IF more THEN AsyncRead(r) ELSE r)]

\* A plausible bug of handle_read: UserName is the name in the request.
ChallengedUserEarly(r, m) == m.user

\* UserName is set with the account found, and stays when there is none.
ChallengedUser(r, m) == IF m.user \in Accounts THEN m.user ELSE r.UserName

\* A plausible bug of handle_read: the system is looked up once the reply has
\* taken the place of the request in the buffer.
ChallengedSystemLate(m) == "none"

\* The system is taken from the request before anything is put into the buffer.
ChallengedSystem(m) == m.os

\* _srp6.emplace: a new object, with a new random key.
MakeSrp(r, u) == [gen |-> gens + 1, user |-> u, used |-> FALSE]

\* AUTH_LOGON_CHALLENGE: a message of the wrong size gets no answer and no other
\* read; a success starts two reads, one in handle_write.
HandleChallenge(c, r, m) ==
    LET s == MakeSrp(r, m.user)
        new == [r EXCEPT !.os = ChallengedSystem(m), !.UserName = ChallengedUser(r, m)]
        reply == [cmd |-> "challengeOk", gen |-> s.gen, user |-> m.user, salt |-> StrNCpy(Salt[m.user])]
    IN IF ~m.sized THEN Leave(c, r, FALSE) /\ UNCHANGED gens
       ELSE IF m.user \notin Accounts
       THEN Leave(c, handle_write(new, [cmd |-> "challengeFail"]), FALSE) /\ UNCHANGED gens
       ELSE /\ Leave(c, handle_write([new EXCEPT !.srp = s], reply), TRUE)
            /\ gens' = s.gen

\* VerifyChallengeResponse.
Verified(r, m) == m.m1 = r.srp.gen /\ r.srp.gen # 0

\* Whether the proof ends the process: there is no SRP6 object, it was used (an
\* assertion), VerifyVersion knows no hash for the system of the client (a null
\* pointer), or GetRemoteIpAddress throws because the peer is gone.
ProofKills(c, r, m) ==
    \/ r.srp.gen = 0
    \/ r.srp.used
    \/ Verified(r, m) /\ r.os # "known"
    \/ Verified(r, m) /\ m.version /\ (peer[c].at = "gone" \/ r.socket = "closed")

\* DirectExecute writes the session key for UserName.
Granted(c, r, m) == IF Verified(r, m) /\ m.version THEN {<<c, r.UserName>>} ELSE {}

\* AUTH_LOGON_PROOF.
HandleProof(c, r, m) ==
    LET used == [r EXCEPT !.srp.used = TRUE]
        ok == [used EXCEPT !.proven = @ \cup {r.srp.user}]
    IN IF ProofKills(c, r, m) THEN died' = "proof" /\ UNCHANGED <<con, granted>>
       ELSE /\ IF ~Verified(r, m) THEN Leave(c, handle_write(used, [cmd |-> "proofFail"]), FALSE)
               ELSE IF ~m.version THEN Leave(c, handle_write(ok, [cmd |-> "versionFail"]), FALSE)
               ELSE Leave(c, handle_write(ok, [cmd |-> "proofOk"]), TRUE)
            /\ granted' = granted \cup Granted(c, r, m)
            /\ UNCHANGED died

Serving == died = "no"

\* The handler of the oldest read of c that is complete.
handle_read(c) ==
    LET r == [con[c] EXCEPT !.ready = Tail(@)]
    IN /\ Serving
       /\ con[c].ready # <<>>
       /\ IF Head(con[c].ready) = "error"
          THEN /\ Leave(c, [r EXCEPT !.socket = "closed"], FALSE)
               /\ UNCHANGED <<died, granted, gens>>
          ELSE \E m \in Understood(con[c].buff) :
                 \/ m.cmd = "challenge" /\ HandleChallenge(c, r, m) /\ UNCHANGED <<died, granted>>
                 \/ m.cmd = "proof" /\ HandleProof(c, r, m) /\ UNCHANGED gens
                 \/ m.cmd \notin {"challenge", "proof"} /\ Leave(c, r, TRUE)
                      /\ UNCHANGED <<died, granted, gens>>
       /\ UNCHANGED <<peer, wire, armed, sends, splits>>

-----------------------------------------------------------------------------
(***************************************************************************)
(* Asynchronous operations (boost::asio and the network).                  *)
(***************************************************************************)

\* A read takes some of what has arrived: k messages, and with cut the front of
\* the one after them.  What was sent first is in front.
Receive(c) ==
    /\ Serving
    /\ con[c].socket = "open" /\ con[c].reads > 0 /\ wire[c] # <<>>
    /\ \E k \in 0..Len(wire[c]), cut \in BOOLEAN :
          /\ k > 0 \/ cut
          /\ cut => k < Len(wire[c]) /\ splits < MaxSplits
          /\ splits' = IF cut THEN splits + 1 ELSE splits
          /\ wire' = [wire EXCEPT ![c] = IF cut THEN <<LeftOver>> \o SubSeq(@, k + 2, Len(@))
                                                ELSE SubSeq(@, k + 1, Len(@))]
          /\ con' = [con EXCEPT ![c] = [con[c] EXCEPT
                          !.reads = @ - 1, !.ready = Append(@, "data"),
                          !.buff = IF k = 0 THEN Fragment(Head(wire[c])) ELSE Head(wire[c])]]
          /\ peer' = [peer EXCEPT ![c].whole = @ /\ ~cut]
    /\ UNCHANGED <<armed, died, granted, gens, sends>>

\* A read ends because the peer is gone, or the socket was closed.
ReadFails(c) ==
    /\ Serving
    /\ con[c].reads > 0
    /\ peer[c].at = "gone" \/ con[c].socket = "closed"
    /\ con' = [con EXCEPT ![c] = [con[c] EXCEPT !.reads = @ - 1, !.ready = Append(@, "error")]]
    /\ UNCHANGED <<peer, wire, armed, died, granted, gens, sends, splits>>

\* A write sends the buffer as it is now, all its buff_len bytes of which the reply
\* is the front, and HandleWrite logs it.  A peer that reads only as many bytes as
\* its reply has finds what is left of that block where it looks for the next one.
Transmit(c) ==
    LET late == ~peer[c].blocks /\ peer[c].got.cmd # "zero"
        reply == IF late THEN [cmd |-> "stale"] ELSE con[c].buff
        want == Head(con[c].writes)
    IN /\ Serving
       /\ con[c].writes # <<>> /\ con[c].socket = "open" /\ peer[c].at = "connected"
       /\ con' = [con EXCEPT ![c] = Settled([con[c] EXCEPT !.writes = Tail(@)])]
       /\ peer' = [peer EXCEPT ![c].got = reply, ![c].waits = FALSE,
                               ![c].garbled = @ \/ reply # want]
       /\ UNCHANGED <<wire, armed, died, granted, gens, sends, splits>>

WriteFails(c) ==
    /\ Serving
    /\ con[c].writes # <<>>
    /\ peer[c].at = "gone" \/ con[c].socket = "closed"
    /\ con' = [con EXCEPT ![c] = Settled([con[c] EXCEPT !.writes = Tail(@)])]
    /\ UNCHANGED <<peer, wire, armed, died, granted, gens, sends, splits>>

\* HandleAccept: the next accept is started before anything else.
HandleAccept(c) ==
    /\ Serving
    /\ armed
    /\ peer[c].at = "waiting"
    /\ peer' = [peer EXCEPT ![c].at = "connected"]
    /\ con' = [con EXCEPT ![c] = AsyncRead([con[c] EXCEPT !.socket = "open"])]
    /\ UNCHANGED <<wire, armed, died, granted, gens, sends, splits>>

\* A plausible bug of HandleAccept: it looks at the error first, and returns.
RearmedUnlessError == FALSE

\* HandleAccept calls StartAccept also when the accept has failed.
Rearmed == TRUE

\* The accept of a connection fails, for instance because no descriptor is left.
HandleAcceptError ==
    /\ Serving
    /\ armed
    /\ \E c \in Conns : peer[c].at = "waiting"
    /\ armed' = Rearmed
    /\ UNCHANGED <<con, peer, wire, died, granted, gens, sends, splits>>

-----------------------------------------------------------------------------
(***************************************************************************)
(* Peers.                                                                  *)
(***************************************************************************)

Connect(c) ==
    /\ Serving
    /\ peer[c].at = "away"
    /\ \E blocks \in BOOLEAN :
          peer' = [peer EXCEPT ![c].at = "waiting", ![c].blocks = blocks, ![c].orderly = blocks]
    /\ UNCHANGED <<con, wire, armed, died, granted, gens, sends, splits>>

\* What a peer may send: a challenge, also from an unknown system or of the wrong
\* size, a proof of the last challenge or of none, something else.
Messages(c) ==
    {Challenge(u, "known", TRUE) : u \in Accounts \cup {Stranger}}
    \cup {Challenge(u, "other", TRUE) : u \in Accounts}
    \cup {Challenge(Stranger, "known", FALSE), Proof(0, FALSE, FALSE), [cmd |-> "other"]}
    \cup (IF peer[c].got.cmd = "challengeOk"
          THEN {ProofOf(peer[c].got, version, TRUE) : version \in BOOLEAN} ELSE {})

\* Whether sending m keeps to the protocol: after the reply to the last message;
\* from a system the server knows; a proof once after a successful challenge.
InOrder(c, m) ==
    /\ ~peer[c].waits
    /\ m.cmd = "challenge" => m.os = "known" /\ m.sized
    /\ m.cmd = "proof" => peer[c].got.cmd = "challengeOk"
    /\ m.cmd # "other"

Send(c, m) ==
    /\ Serving
    /\ peer[c].at = "connected"
    /\ sends < MaxSends
    /\ Len(wire[c]) < MaxWire
    /\ sends' = sends + 1
    /\ wire' = [wire EXCEPT ![c] = Append(@, m)]
    /\ peer' = [peer EXCEPT ![c].waits = TRUE, ![c].orderly = @ /\ InOrder(c, m),
                            ![c].tried = IF m.cmd = "proof" /\ m.knows THEN peer[c].got.user ELSE Stranger]
    /\ UNCHANGED <<con, armed, died, granted, gens, splits>>

\* The peer resets the connection; what it has sent and the server has not read
\* is lost.
Depart(c) ==
    /\ Serving
    /\ peer[c].at = "connected"
    /\ peer' = [peer EXCEPT ![c].at = "gone", ![c].orderly = @ /\ ~peer[c].waits]
    /\ wire' = [wire EXCEPT ![c] = <<>>]
    /\ UNCHANGED <<con, armed, died, granted, gens, sends, splits>>

-----------------------------------------------------------------------------
(***************************************************************************)
(* main.                                                                   *)
(***************************************************************************)

\* getchar has returned.  Stop stops the io_context and joins the io thread, which
\* ends between two handlers; then main returns and ~CMyService calls Stop again:
\* the join of a thread that was joined throws out of the destructor, and the
\* process is terminated before StopDB.
Shutdown ==
    /\ Serving
    /\ died' = "second stop"
    /\ UNCHANGED <<con, peer, wire, armed, granted, gens, sends, splits>>

\* The io thread and the network go on with what was started on c.
Io(c) == \/ handle_read(c)
         \/ Receive(c)
         \/ ReadFails(c)
         \/ Transmit(c)
         \/ WriteFails(c)
         \/ HandleAccept(c)

Rest == died # "no" /\ UNCHANGED vars

LNext == \/ \E c \in Conns : \/ Io(c)
                             \/ Connect(c)
                             \/ \E m \in Messages(c) : Send(c, m)
                             \/ Depart(c)
         \/ HandleAcceptError
         \/ Shutdown
         \/ Rest

LSpec == LInit /\ [][LNext]_vars

(***************************************************************************)
(* Fairness: the io thread runs what is ready on every connection, and     *)
(* the network delivers; accepts do not fail for ever.  Peers and the user *)
(* at the keyboard owe nothing.                                            *)
(***************************************************************************)
LFairSpec == LSpec /\ \A c \in Conns : /\ WF_vars(handle_read(c))
                                       /\ WF_vars(Receive(c))
                                       /\ WF_vars(ReadFails(c))
                                       /\ WF_vars(Transmit(c))
                                       /\ WF_vars(WriteFails(c))
                                       /\ WF_vars(HandleAccept(c))

-----------------------------------------------------------------------------
(***************************************************************************)
(* Properties.                                                             *)
(***************************************************************************)

\* A session key is written to the database only for a user whose proof was
\* verified on the same connection, whatever other challenges, successful or
\* not, its peer has sent before, after or in between.
SessionsProven == \A s \in granted : s[2] \in con[s[1]].proven

\* Peer c has kept to the protocol, and its messages came whole.
Kept(c) == peer[c].orderly /\ peer[c].whole

\* Peers that keep to the protocol cannot bring the server down as long as every
\* message of theirs arrives in one piece: it dies before it is told to stop only
\* if a message was split, or some peer has sent a proof without a challenge, or
\* before the reply to its last message, named an unknown system, or left while
\* it was being answered.
OrderlyPeersDoNotKill == died = "proof" => \E c \in Conns : ~Kept(c)

\* A peer that keeps to the protocol, reads replies as the blocks of buff_len bytes
\* that they are sent in, and whose messages came whole gets the replies that were
\* composed for it, although a read into the buffer that holds them is outstanding
\* all the time.
OrderlyRepliesIntact == \A c \in Conns : Kept(c) => ~peer[c].garbled

\* Who knows the password, and keeps to the protocol, is refused only for an
\* account whose salt has a zero byte that is not at its end (the reply to the
\* challenge is put together with strncpy), or when a message of his was split.
RefusalsDeserved ==
    \A c \in Conns : Kept(c) /\ peer[c].got.cmd = "proofFail" /\ peer[c].tried # Stranger
                       /\ ~peer[c].waits
        => \E i, j \in DOMAIN Salt[peer[c].tried] :
              i < j /\ Salt[peer[c].tried][i] = 0 /\ Salt[peer[c].tried][j] # 0

SomeProof == \E c \in Conns : con[c].proven # {}

\* When a proof is verified client and server have made the same S, for every
\* password and all random numbers, although they compute it along different
\* ways (CalculateVerifier, _B and VerifyChallengeResponse); and they make the
\* same session key of it, also of an S with zeros in front: SHA1Interleave
\* takes neither a byte more nor one less than the client.
SameKey == SomeProof => SameS /\ Interleaved

\* An orderly peer whose messages came whole is answered, and one that connects is
\* accepted, even after accepts have failed.
PeersServed ==
    \A c \in Conns :
        (peer[c].at = "waiting" \/ (Kept(c) /\ peer[c].waits /\ peer[c].at = "connected"))
            ~> (~Serving \/ (peer[c].at = "connected" /\ ~(Kept(c) /\ peer[c].waits))
                         \/ peer[c].at = "gone")
=============================================================================
