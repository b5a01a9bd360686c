---------------------------- MODULE AgentWorkProofs ----------------------------
(***************************************************************************)
(* Theorems about what surrounds a run: a credential that is handed out is *)
(* alive, whatever it lives; an authorization code is sent once, for the   *)
(* login it was issued for, whatever goes wrong; a workspace pushes the    *)
(* agent's work and nothing else; a job closes what it opened; what was    *)
(* promised to a memory is found; and a run's cost is told as far as it is *)
(* known.                                                                  *)
(***************************************************************************)
EXTENDS AgentWork, Sequences, FiniteSetTheorems, TLAPS

-----------------------------------------------------------------------------
(* Credentials.  The holder's reckoning is late by at most what an answer   *)
(* takes, and a purchase is answered within that: time waits for nobody     *)
(* else.                                                                    *)
Tokens == [ends : Nat, reckoned : Nat]

CacheInv ==
  /\ clock \in Nat
  /\ cached \in Tokens \cup {None}
  /\ cached # None => cached.reckoned <= cached.ends + Latency
  /\ \A p \in purchases : p.at \in Nat /\ p.at <= clock /\ clock <= p.at + Latency
  /\ caller \in [Callers -> [at : {"idle", "waits", "has"}, token : Tokens \cup {None}]]
  /\ \A c \in Callers :
       caller[c].at = "has" => caller[c].token \in Tokens /\ clock < caller[c].token.ends

LEMMA CacheStart == Init => CacheInv
BY DEF Init, C!Empty, CacheInv

LEMMA CacheStep == CacheInv /\ [Next]_vars => CacheInv'
<1> SUFFICES ASSUME CacheInv, [Next]_vars PROVE CacheInv'
  OBVIOUS
<1> USE WorkAssumption DEF C!CacheAssumption
<1>1. CASE UNCHANGED credentials
  BY <1>1 DEF credentials, CacheInv
<1>2. CASE C!Tick
  <2>1. clock' = clock + 1 /\ \A c \in Callers : caller[c].at # "has"
    BY <1>2 DEF C!Tick
  <2>2. \A p \in purchases : p.at <= clock' /\ clock' <= p.at + Latency
    BY <1>2, <2>1 DEF C!Tick, CacheInv
  <2> QED BY <1>2, <2>1, <2>2 DEF C!Tick, CacheInv
<1>3. ASSUME NEW c \in Callers, C!Hit(c) PROVE CacheInv'
  <2>1. /\ cached \in Tokens
        /\ caller' = [caller EXCEPT ![c] = [at |-> "has", token |-> cached]]
        /\ UNCHANGED <<clock, cached, purchases>>
    BY <1>3 DEF C!Hit, C!Usable, C!Is, CacheInv
  <2>2. clock < cached.ends
    BY <1>3, <2>1 DEF C!Hit, C!Usable, CacheInv, Tokens
  <2> QED BY <2>1, <2>2 DEF CacheInv
<1>4. ASSUME NEW c \in Callers, C!Joins(c) \/ C!Used(c) PROVE CacheInv'
  <2>1. PICK at \in {"idle", "waits"} : caller' = [caller EXCEPT ![c] = [at |-> at, token |-> None]]
    BY <1>4 DEF C!Joins, C!Used, C!Is
  <2>2. UNCHANGED <<clock, cached, purchases>>
    BY <1>4 DEF C!Joins, C!Used
  <2> QED BY <2>1, <2>2 DEF CacheInv
<1>5. ASSUME NEW c \in Callers, C!Buys(c) PROVE CacheInv'
  <2>1. /\ caller' = [caller EXCEPT ![c] = [at |-> "waits", token |-> None]]
        /\ purchases' = purchases \cup {[by |-> c, at |-> clock]}
        /\ UNCHANGED <<clock, cached>>
    BY <1>5 DEF C!Buys, C!Is
  <2>2. \A p \in purchases' : p.at \in Nat /\ p.at <= clock /\ clock <= p.at + Latency
    BY <2>1 DEF CacheInv
  <2> QED BY <2>1, <2>2 DEF CacheInv
<1>6. ASSUME NEW p \in purchases, C!Answered(p) PROVE CacheInv'
  <2>1. PICK issued \in p.at .. clock :
          /\ cached' = [ends |-> issued + Life, reckoned |-> C!Reckoned(issued)]
          /\ caller' = [c \in Callers |->
               IF c \in C!WaitingFor(p) THEN [at |-> "has", token |-> cached'] ELSE caller[c]]
    BY <1>6 DEF C!Answered
  <2>2. /\ p.at \in Nat /\ clock \in Nat /\ issued \in Nat
        /\ issued <= clock /\ clock <= issued + Latency
    BY <2>1 DEF CacheInv
  <2>3. C!Reckoned(issued) \in {issued + Life, clock + Life}
    BY DEF C!Reckoned
  <2>4. /\ cached' \in Tokens /\ cached'.reckoned <= cached'.ends + Latency
        /\ clock < cached'.ends
    BY <2>1, <2>2, <2>3 DEF Tokens
  <2>5. UNCHANGED clock /\ purchases' \subseteq purchases
    BY <1>6 DEF C!Answered
  <2>6. caller' \in [Callers -> [at : {"idle", "waits", "has"}, token : Tokens \cup {None}]]
    BY <2>1, <2>4 DEF CacheInv
  <2>7. \A c \in Callers :
          caller'[c].at = "has" => caller'[c].token \in Tokens /\ clock < caller'[c].token.ends
    BY <2>1, <2>4 DEF CacheInv
  <2> QED BY <2>4, <2>5, <2>6, <2>7 DEF CacheInv
<1>7. ASSUME NEW p \in purchases, C!Failed(p) PROVE CacheInv'
  <2>1. /\ caller' = [c \in Callers |->
             IF c \in C!WaitingFor(p) THEN [at |-> "idle", token |-> None] ELSE caller[c]]
        /\ UNCHANGED <<clock, cached>> /\ purchases' \subseteq purchases
    BY <1>7 DEF C!Failed
  <2> QED BY <2>1 DEF CacheInv
<1>8. CASE OnCredentials
  BY <1>2, <1>3, <1>4, <1>5, <1>6, <1>7, <1>8 DEF OnCredentials, C!Next
<1> QED BY <1>1, <1>8 DEF Next, OnMemory, OnWorkspace, OnSession, OnPricing, OnSignIn, vars

(* client/src/auth.ts machineLogin(), gcp, token vault: for any number of    *)
(* callers, any life of a token and any failures, as long as an answer takes *)
(* no longer than the margin (which nothing in the code sees to) and the      *)
(* margin is shorter than the life, nobody is handed a dead credential.      *)
THEOREM HandedAliveHolds == Spec => []HandedAlive
<1>1. CacheInv => HandedAlive
  BY DEF CacheInv, HandedAlive, C!HandedAlive
<1> QED BY <1>1, CacheStart, CacheStep, PTL DEF Spec

-----------------------------------------------------------------------------
(* Sign-in.  A code is numbered among those of its login, so that a new one  *)
(* is new; what was sent is never what the address bar still holds.          *)
CodesOf(n, issued) == {c \in issued : c.of = n}

Numbered(issued) ==
  /\ IsFiniteSet(issued)
  /\ \A c \in issued : c.nr \in Nat /\ c.nr < Cardinality(CodesOf(c.of, issued))

CodeInv ==
  /\ Numbered(codes)
  /\ \A s \in sent : s.code \in codes /\ s.verifier = s.code.of
  /\ url # None => url \in codes /\ \A s \in sent : s.code # url
  /\ resent = FALSE

(* The part counts as this module does. *)
LEMMA SameCount == \A X : I!Cardinality(X) = Cardinality(X)
BY DEF I!Cardinality, Cardinality

(* The next code of a login is one that nobody has. *)
LEMMA NewCode ==
  ASSUME Numbered(codes), NEW n
  PROVE  /\ I!Issued(n) \notin codes /\ I!Issued(n).of = n
         /\ Numbered(codes \cup {I!Issued(n)})
<1> DEFINE new == I!Issued(n)
           more == codes \cup {new}
<1>1. new = [of |-> n, nr |-> Cardinality(CodesOf(n, codes))] /\ new.of = n
  <2>1. I!Issued(n) = [of |-> n, nr |-> Cardinality(CodesOf(n, codes))]
    BY SameCount, Zenon DEF I!Issued, CodesOf
  <2> QED BY <2>1
<1>2. \A m : IsFiniteSet(CodesOf(m, codes)) /\ Cardinality(CodesOf(m, codes)) \in Nat
  <2>1. ASSUME NEW m PROVE IsFiniteSet(CodesOf(m, codes))
    <3>1. CodesOf(m, codes) \subseteq codes
      BY DEF CodesOf
    <3> QED BY <3>1, FS_Subset DEF Numbered
  <2> QED BY <2>1, FS_CardinalityType
<1>3. new \notin codes
  <2>1. \A c \in codes : c.of = n => c.nr < Cardinality(CodesOf(n, codes)) /\ c.nr \in Nat
    BY DEF Numbered
  <2> QED BY <1>1, <1>2, <2>1
<1>4. IsFiniteSet(more)
  BY FS_AddElement DEF Numbered
<1>5. ASSUME NEW m, m # n PROVE CodesOf(m, more) = CodesOf(m, codes)
  BY <1>1, <1>5 DEF CodesOf
<1>6. Cardinality(CodesOf(n, more)) = Cardinality(CodesOf(n, codes)) + 1
  <2>1. CodesOf(n, more) = CodesOf(n, codes) \cup {new} /\ new \notin CodesOf(n, codes)
    BY <1>1, <1>3 DEF CodesOf
  <2> HIDE DEF new
  <2> QED BY <1>2, <2>1, FS_AddElement
<1>7. ASSUME NEW c \in more PROVE c.nr \in Nat /\ c.nr < Cardinality(CodesOf(c.of, more))
  <2>1. CASE c = new
    BY <1>1, <1>2, <1>6, <2>1
  <2>2. CASE c \in codes /\ c.of = n
    BY <1>2, <1>6, <2>2 DEF Numbered
  <2>3. CASE c \in codes /\ c.of # n
    BY <1>5, <2>3 DEF Numbered
  <2> QED BY <2>1, <2>2, <2>3
<1> QED BY <1>1, <1>3, <1>4, <1>7 DEF Numbered

LEMMA CodeStart == Init => CodeInv
<1> SUFFICES ASSUME Init PROVE CodeInv
  OBVIOUS
<1>1. codes = {} /\ sent = {} /\ url = None /\ resent = FALSE
  BY DEF Init, I!Empty
<1> QED BY <1>1, FS_EmptySet DEF CodeInv, Numbered

(* Steps that neither issue nor send a code. *)
LEMMA CodesStay ==
  ASSUME CodeInv, UNCHANGED <<codes, sent, resent>>, url' \in {url, None}
  PROVE  CodeInv'
BY DEF CodeInv, Numbered, CodesOf

LEMMA CodeStep == CodeInv /\ [Next]_vars => CodeInv'
<1> SUFFICES ASSUME CodeInv, [Next]_vars PROVE CodeInv'
  OBVIOUS
<1>1. CASE UNCHANGED signin
  BY <1>1, CodesStay DEF signin
<1>2. CASE I!Consents
  <2>1. /\ codes' = codes \cup {I!Issued(page)} /\ url' = I!Issued(page)
        /\ UNCHANGED <<sent, resent>>
    BY <1>2 DEF I!Consents, I!wire
  <2>2. I!Issued(page) \notin codes /\ Numbered(codes')
    BY <2>1, NewCode DEF CodeInv
  <2>3. \A s \in sent' : s.code \in codes /\ s.verifier = s.code.of
    BY <2>1 DEF CodeInv
  <2> QED BY <2>1, <2>2, <2>3 DEF CodeInv
<1>3. CASE I!Load
  <2>1. CASE UNCHANGED <<sent, resent>>
    BY <1>3, <2>1, CodesStay DEF I!Load, I!Callback, I!issuer
  <2>2. CASE url # None /\ url' = None /\ url.of = keys /\ I!Sends(url, keys)
    <3>1. /\ sent' = sent \cup {[code |-> url, verifier |-> keys]}
          /\ resent' = (resent \/ \E s \in sent : s.code = url)
      BY <2>2 DEF I!Sends
    <3>2. resent' = FALSE
      BY <2>2, <3>1 DEF CodeInv
    <3>3. UNCHANGED codes
      BY <1>3 DEF I!Load, I!issuer
    <3>4. \A s \in sent' : s.code \in codes /\ s.verifier = s.code.of
      BY <2>2, <3>1 DEF CodeInv
    <3> QED BY <2>2, <3>2, <3>3, <3>4 DEF CodeInv, Numbered, CodesOf
  <2> QED BY <1>3, <2>1, <2>2 DEF I!Load, I!Callback, I!wire
<1>4. ASSUME NEW n \in 1 .. attempts, I!Brings(n) PROVE CodeInv'
  <2>1. codes' = codes \cup {I!Issued(n)} /\ UNCHANGED url
    BY <1>4 DEF I!Brings
  <2>2. I!Issued(n) \notin codes /\ I!Issued(n).of = n /\ Numbered(codes')
    BY <2>1, NewCode DEF CodeInv
  <2>3. url' # None => url' \in codes /\ url' # I!Issued(n)
    BY <2>1, <2>2 DEF CodeInv
  <2>4. CASE UNCHANGED <<sent, resent>>
    BY <2>1, <2>2, <2>3, <2>4 DEF CodeInv
  <2>5. CASE n = keys /\ I!Sends(I!Issued(n), keys)
    <3>1. /\ sent' = sent \cup {[code |-> I!Issued(n), verifier |-> keys]}
          /\ resent' = (resent \/ \E s \in sent : s.code = I!Issued(n))
      BY <2>5 DEF I!Sends
    <3>2. resent' = FALSE
      BY <2>2, <3>1 DEF CodeInv
    <3>3. \A s \in sent' : s.code \in codes' /\ s.verifier = s.code.of
      BY <2>1, <2>2, <2>5, <3>1 DEF CodeInv
    <3>4. url' # None => \A s \in sent' : s.code # url'
      BY <2>1, <2>3, <3>1 DEF CodeInv
    <3> QED BY <2>1, <2>2, <2>3, <3>2, <3>3, <3>4 DEF CodeInv
  <2> QED BY <1>4, <2>4, <2>5 DEF I!Brings, I!wire
<1>5. CASE \/ I!Click \/ I!Navigates \/ I!Declines \/ I!Wanders \/ I!LoadFails \/ I!Reload
           \/ I!Unauthorized \/ I!Logout \/ I!Begins \/ I!TimerFires \/ I!Answered
           \/ I!Unanswered \/ I!Lapses
  <2>1. UNCHANGED <<codes, sent, resent>> /\ url' \in {url, None}
    BY <1>5 DEF I!Click, I!Navigates, I!Declines, I!Wanders, I!LoadFails, I!Reload,
       I!Unauthorized, I!Logout, I!Begins, I!TimerFires, I!Answered, I!Unanswered, I!Lapses,
       I!issuer, I!wire
  <2> QED BY <2>1, CodesStay
<1>6. CASE OnSignIn
  BY <1>2, <1>3, <1>4, <1>5, <1>6 DEF OnSignIn, I!Next
<1> QED BY <1>1, <1>6 DEF Next, OnMemory, OnWorkspace, OnSession, OnCredentials, OnPricing, vars

(* client/src/auth.ts, console/src/auth.ts: for any number of logins and      *)
(* any mishaps, whoever reloads or brings a code from another tab, a code is  *)
(* sent to the token endpoint at most once.                                   *)
THEOREM SentOnceHolds == Spec => []SentOnce
<1>1. CodeInv => SentOnce
  BY DEF CodeInv, SentOnce, I!SentOnce
<1> QED BY <1>1, CodeStart, CodeStep, PTL DEF Spec

(* ... and only with the verifier of the login it was issued for.             *)
THEOREM SentForItselfHolds == Spec => []SentForItself
<1>1. CodeInv => SentForItself
  BY DEF CodeInv, SentForItself, I!SentForItself
<1> QED BY <1>1, CodeStart, CodeStep, PTL DEF Spec

-----------------------------------------------------------------------------
(* The port.  Only a script listens. *)
PortInv == (client # "script" => serving = 0) /\ PortReleased

LEMMA PortStart == Init => PortInv
BY DEF Init, I!Empty, PortInv, PortReleased, I!PortReleased

LEMMA PortStep == PortInv /\ [Next]_vars => PortInv'
<1> SUFFICES ASSUME PortInv, [Next]_vars PROVE PortInv'
  OBVIOUS
<1> USE DEF PortInv, PortReleased, I!PortReleased
<1>1. CASE UNCHANGED <<client, place, keys, codes, serving, stopping, unopened>>
  BY <1>1
<1>2. CASE client = "console" /\ UNCHANGED <<client, serving>>
  BY <1>2
<1>3. CASE I!Begins
  BY <1>3 DEF I!Begins, I!issuer
<1>4. ASSUME NEW n \in 1 .. attempts, I!Brings(n) PROVE PortInv'
  <2>1. /\ codes' = codes \cup {I!Issued(n)} /\ I!Issued(n).of = n
        /\ stopping' = (stopping \/ n = serving)
        /\ client = "script" /\ UNCHANGED <<client, serving, unopened>>
    BY <1>4 DEF I!Brings, I!StopScheduled, I!Issued
  <2> QED BY <2>1
<1>5. CASE I!TimerFires
  BY <1>5 DEF I!TimerFires
<1>6. CASE I!Answered \/ I!Unanswered
  BY <1>6 DEF I!Answered, I!Unanswered, I!script
<1>7. CASE I!Lapses
  BY <1>1, <1>7 DEF I!Lapses, I!issuer, I!script
<1>8. CASE \/ I!Click \/ I!Navigates \/ I!Consents \/ I!Declines \/ I!Wanders \/ I!LoadFails
           \/ I!Load \/ I!Reload \/ I!Unauthorized \/ I!Logout
  BY <1>2, <1>8 DEF I!Click, I!Navigates, I!Consents, I!Declines, I!Wanders, I!LoadFails, I!Load,
     I!Reload, I!Unauthorized, I!Logout, I!script
<1>9. CASE OnSignIn
  BY <1>3, <1>4, <1>5, <1>6, <1>7, <1>8, <1>9 DEF OnSignIn, I!Next
<1>10. CASE UNCHANGED signin
  BY <1>1, <1>10 DEF signin
<1> QED BY <1>9, <1>10 DEF Next, OnMemory, OnWorkspace, OnSession, OnCredentials, OnPricing, vars

(* client/src/auth.ts browserLogin(): for any number of logins, the port is   *)
(* held for the login that waits or while its server stops, unless a code of  *)
(* another login came in between or no browser could be started for it.       *)
THEOREM PortReleasedHolds == Spec => []PortReleased
<1>1. PortInv => PortReleased
  BY DEF PortInv
<1> QED BY <1>1, PortStart, PortStep, PTL DEF Spec

(* auth.ts, in one statement: a login's code goes out once and for itself,    *)
(* and its port is let go.                                                    *)
THEOREM LoginIsItsOwnHolds == Spec => []LoginIsItsOwn
<1>1. SentForItself /\ SentOnce /\ PortReleased => LoginIsItsOwn
  BY DEF LoginIsItsOwn, SentForItself, SentOnce, PortReleased, I!LoginIsItsOwn
<1> QED BY <1>1, SentForItselfHolds, SentOnceHolds, PortReleasedHolds, PTL

-----------------------------------------------------------------------------
(* The workspace.  What the agent has not touched is as the clone left it:   *)
(* text is the repository's, and what the repository does not have was in    *)
(* the sandbox before, where it was noted unless no listing would show it.   *)
CloneInv ==
  /\ phase \in {"idle", "working", "ended"}
  /\ phase = "idle" => theirs = {}
  /\ phase # "ended" => note = "none"
  /\ theirs \subseteq W!Paths
  /\ phase = "working" =>
       /\ box \in [W!Paths -> W!InBox]
       /\ baseline = {p \in W!Paths : repo[p] \in {"text", "notUtf8"}}
       /\ \A p \in W!Paths \ theirs :
            /\ repo[p] = "text" => box[p] = "text"
            /\ p \notin baseline /\ box[p] # "none" => p \in preexisting \cup Vendored

LEMMA CloneStart == Init => CloneInv
BY DEF Init, W!Init, CloneInv

LEMMA CloneStep == CloneInv /\ [Next]_vars => CloneInv'
<1> SUFFICES ASSUME CloneInv, [Next]_vars PROVE CloneInv'
  OBVIOUS
<1>1. CASE UNCHANGED workspace
  BY <1>1 DEF workspace, CloneInv
<1>2. CASE W!Clone
  <2>1. PICK files \in [W!Paths -> W!InRepo], own \in SUBSET Native :
          /\ repo' = files
          /\ preexisting' = own \ Vendored
          /\ baseline' = {p \in W!Paths : files[p] \in {"text", "notUtf8"}}
          /\ box' = [p \in W!Paths |-> CASE files[p] = "text"    -> "text"
                                         [] files[p] = "notUtf8" -> "mangled"
                                         [] OTHER -> IF p \in own THEN "native" ELSE "none"]
    BY <1>2 DEF W!Clone
  <2>2. phase' = "working" /\ theirs' = {} /\ note' = "none"
    BY <1>2 DEF W!Clone, CloneInv
  <2>3. \A p \in W!Paths : box'[p] \in W!InBox
    BY <2>1 DEF W!InBox
  <2>4. box' \in [W!Paths -> W!InBox]
    BY <2>1, <2>3
  <2>5. ASSUME NEW p \in W!Paths
        PROVE  /\ repo'[p] = "text" => box'[p] = "text"
               /\ p \notin baseline' /\ box'[p] # "none" => p \in preexisting' \cup Vendored
    BY <2>1
  <2> QED BY <2>1, <2>2, <2>4, <2>5 DEF CloneInv
<1>3. ASSUME NEW p \in W!Paths, W!AgentWrites(p) PROVE CloneInv'
  <2>1. PICK content \in W!InBox : box' = [box EXCEPT ![p] = content]
    BY <1>3 DEF W!AgentWrites, W!InBox
  <2>2. /\ phase = "working" /\ theirs' = theirs \cup {p}
        /\ UNCHANGED <<phase, repo, preexisting, baseline, note>>
    BY <1>3 DEF W!AgentWrites
  <2> QED BY <2>1, <2>2 DEF CloneInv
<1>4. CASE W!CloneThrows \/ W!Finalize \/ W!FinalizeThrows
  <2>1. phase' = "ended" /\ UNCHANGED theirs
    BY <1>4 DEF W!CloneThrows, W!Finalize, W!FinalizeThrows
  <2> QED BY <2>1 DEF CloneInv
<1>5. CASE OnWorkspace
  BY <1>2, <1>3, <1>4, <1>5 DEF OnWorkspace, W!Next
<1> QED BY <1>1, <1>5 DEF Next, OnMemory, OnSession, OnCredentials, OnPricing, OnSignIn, vars

(* A listing shows what is there, outside node_modules, and so does what is   *)
(* taken of it.                                                               *)
LEMMA Listing ==
  ASSUME CloneInv, phase = "working"
  PROVE  /\ W!There(box) = {p \in W!Paths : box[p] # "none"}
         /\ W!Found(box) = W!There(box) \ Vendored
         /\ W!Listed(box) \subseteq W!Found(box)
BY DEF CloneInv, W!There, W!Found, W!Listed

LEMMA Taken ==
  ASSUME W!Listed(box) \subseteq W!Found(box), NEW present \in W!Present
  PROVE  present \subseteq W!Found(box)
<1>1. ASSUME NEW piece \in W!FirstOf(W!Listed(box)) PROVE piece \subseteq W!Listed(box)
  BY DEF W!FirstOf
<1> QED BY <1>1 DEF W!Present

LEMMA PushStep == CloneInv /\ [Next]_vars => [W!PushesTheirs]_workspace
<1> SUFFICES ASSUME CloneInv, [Next]_vars, phase = "working", branch' # branch,
                    NEW p \in DOMAIN branch'
             PROVE  IF branch'[p] = "deleted"
                      THEN p \in baseline /\ (box[p] = "none" \/ p \in unread')
                      ELSE p \in theirs \/ repo[p] = "notUtf8"
  BY DEF W!PushesTheirs
<1>1. W!Finalize
  BY DEF Next, OnMemory, OnWorkspace, OnSession, OnCredentials, OnPricing, OnSignIn, vars, workspace,
     W!Next, W!Clone, W!CloneThrows, W!FinalizeThrows, W!AgentWrites
<1>2. PICK failing \in W!Failing, present \in W!Present :
        unread' = failing \cup W!LeftOut(present) /\ branch' = W!Entries(present, failing)
  BY <1>1 DEF W!Finalize
<1> DEFINE gone    == W!Deleted(present, failing)
           stays   == (W!Written(present, failing) \cup W!Rewritten(present, failing)) \ gone
<1>3. /\ failing \subseteq unread'
      /\ branch' = [q \in gone \cup stays |-> IF q \in gone THEN "deleted" ELSE box[q]]
  BY <1>2 DEF W!Entries
<1>4. present \subseteq W!Found(box)
  BY Listing, Taken
<1>5. CASE p \in gone
  <2>1. p \in baseline /\ (box[p] = "none" \/ p \in failing)
    BY <1>5, Listing DEF W!Deleted, W!Unlisted, W!Readable, CloneInv
  <2>2. branch'[p] = "deleted"
    BY <1>3, <1>5
  <2> QED BY <1>3, <2>1, <2>2
<1>6. CASE p \in stays
  <2>1. p \in W!There(box) /\ ~W!Untouched(p) /\ p \in W!Paths
    BY <1>6, Listing DEF W!Written, W!Rewritten, W!Readable
  <2>2. p \in baseline \/ (p \in W!Found(box) /\ p \notin preexisting)
    BY <1>4, <1>6 DEF W!Written, W!Rewritten, W!Considered, W!Unlisted
  <2>3. p \in theirs \/ repo[p] = "notUtf8"
    BY <2>1, <2>2, Listing DEF CloneInv, W!Untouched
  <2>4. branch'[p] # "deleted"
    <3>1. box[p] \in W!InBox /\ branch'[p] = box[p]
      BY <1>3, <1>6, <2>1 DEF CloneInv
    <3> QED BY <3>1 DEF W!InBox
  <2> QED BY <2>3, <2>4
<1> QED BY <1>3, <1>5, <1>6

(* adapters/coder-workspace.ts finalize(): for any repository and any         *)
(* sandbox, whichever read fails and listings miss, nothing is pushed but what *)
(* the agent wrote or removed, or what could not be read, or was not UTF-8.   *)
THEOREM PushedIsTheirsHolds == Spec => PushedIsTheirs
<1>1. CloneInv /\ [Next]_vars => [W!PushesTheirs]_workspace
  BY PushStep
<1> QED BY <1>1, CloneStart, CloneStep, PTL DEF Spec, PushedIsTheirs

LEMMA ForgetStep == CloneInv /\ [Next]_vars => [W!ForgetsNothing]_workspace
<1> SUFFICES ASSUME CloneInv, [Next]_vars, workspace' # workspace, phase = "working",
                    note' \in {"pushed", "nothing"}, NEW p \in theirs \ unread',
                    p \notin DOMAIN branch', ~W!Untouched(p)
             PROVE  p \notin baseline /\ (\/ p \in preexisting \/ p \notin W!Listed(box)
                                          \/ box[p] = "artifact")
  BY DEF W!ForgetsNothing
<1>1. W!Finalize
  <2>1. note = "none"
    BY DEF CloneInv
  <2> QED BY <2>1 DEF Next, OnMemory, OnWorkspace, OnSession, OnCredentials, OnPricing, OnSignIn,
         vars, workspace, W!Next, W!Clone, W!CloneThrows, W!FinalizeThrows, W!AgentWrites
<1>2. PICK failing \in W!Failing, present \in W!Present :
        /\ unread' = failing \cup W!LeftOut(present)
        /\ \/ branch' = W!Entries(present, failing)
           \/ DOMAIN W!Entries(present, failing) = {}
  BY <1>1 DEF W!Finalize
<1>3. p \notin failing /\ p \notin W!LeftOut(present) /\ p \in W!Paths
  BY <1>2 DEF CloneInv
<1>4. p \notin DOMAIN W!Entries(present, failing)
  BY <1>2
<1>5. /\ present \subseteq W!There(box)
      /\ p \in W!Listed(box) /\ p \notin baseline => p \in present
  BY <1>3, Listing, Taken DEF W!LeftOut
<1>6. /\ p \notin W!Deleted(present, failing)
      /\ p \notin W!Written(present, failing)
      /\ p \notin W!Rewritten(present, failing)
  BY <1>4 DEF W!Entries
<1>7. p \in W!There(box) => p \in W!Readable(failing)
  BY <1>3 DEF W!Readable
<1>8. p \notin baseline
  <2>1. ASSUME p \in baseline, p \in present PROVE FALSE
    BY <1>5, <1>6, <1>7, <2>1 DEF W!Written, W!Considered
  <2>2. ASSUME p \in baseline, p \notin present PROVE FALSE
    BY <1>6, <1>7, <2>2 DEF W!Deleted, W!Rewritten, W!Unlisted
  <2> QED BY <2>1, <2>2
<1>9. ASSUME p \notin preexisting, p \in W!Listed(box) PROVE box[p] = "artifact"
  BY <1>5, <1>6, <1>7, <1>8, <1>9 DEF W!Written, W!Considered
<1> QED BY <1>8, <1>9

(* ... and nothing the agent left different in the repository, or new in      *)
(* sight of the listing and not past its cut, stays behind when finalize()    *)
(* says it was all.                                                           *)
THEOREM NothingForgottenHolds == Spec => NothingForgotten
<1>1. CloneInv /\ [Next]_vars => [W!ForgetsNothing]_workspace
  BY ForgetStep
<1> QED BY <1>1, CloneStart, CloneStep, PTL DEF Spec, NothingForgotten

LEMMA HalfStep == CloneInv /\ [Next]_vars => [W!LeavesHalf]_workspace
<1> SUFFICES ASSUME CloneInv, [Next]_vars, branch' # branch
             PROVE  ~W!TooMany({p \in DOMAIN branch' : branch'[p] = "deleted"})
  BY DEF W!LeavesHalf
<1>1. CASE W!Clone
  <2>1. branch' = branch
    BY <1>1 DEF W!Clone
  <2> QED BY <2>1
<1>2. W!Clone \/ W!Finalize
  BY DEF Next, OnMemory, OnWorkspace, OnSession, OnCredentials, OnPricing, OnSignIn, vars, workspace,
     W!Next, W!CloneThrows, W!FinalizeThrows, W!AgentWrites
<1>3. CASE W!Finalize
  BY <1>3 DEF W!Finalize
<1> QED BY <1>1, <1>2, <1>3

(* finalize(), in one statement: all of the agent's work is pushed, nothing   *)
(* else is, and a baseline of MassMin files is never deleted by half.         *)
THEOREM PushedIsTheWorkHolds == Spec => PushedIsTheWork
<1>1. CloneInv /\ [Next]_vars =>
        [W!PushesTheirs /\ W!ForgetsNothing /\ W!LeavesHalf]_workspace
  BY PushStep, ForgetStep, HalfStep
<1> QED BY <1>1, CloneStart, CloneStep, PTL DEF Spec, PushedIsTheWork

-----------------------------------------------------------------------------
(* The session.  What a job is, with the servers left to connect to; what it *)
(* holds, place by place; and how a completed command came by its status.    *)
Records(left) ==
  [kind : {"none"} \cup S!Kinds,
   at : {"idle", "starting", "authenticating", "fetching", "resolving", "working", "closing",
         "ended"},
   backend : {"none"} \cup S!Backends, box : {"none", "up", "gone"}, left : {left},
   conn : [Servers -> {"none", "open", "closed"}], stuck : SUBSET (Servers \cup {"box"}),
   threw : BOOLEAN, exit : {"none", "zero", "nonzero"}, cut : BOOLEAN,
   status : {"none", "unauthorized", "answered", "completed", "failed", "notFound"}]

Opened(rec) == {s \in Servers : rec.conn[s] = "open"}

Accounted(rec) ==
  /\ rec \in Records(rec.left)
  /\ rec.at \in {"idle", "starting", "authenticating", "fetching"} => Opened(rec) = {}
  /\ rec.at = "authenticating" => ~S!Run(rec.kind)
  /\ rec.at = "starting" => S!Run(rec.kind)
  /\ S!Run(rec.kind) <=> rec.backend \in S!Backends
  /\ ~S!Run(rec.kind) => rec.box # "up"
  /\ rec.at = "ended" /\ ~rec.threw =>
       Opened(rec) \subseteq rec.stuck /\ (rec.box = "up" => "box" \in rec.stuck)
  /\ rec.kind = "sandboxed" /\ rec.status = "completed" => rec.exit = "zero" \/ rec.cut

JobInv ==
  /\ DOMAIN job = Jobs /\ job = [j \in Jobs |-> job[j]]
  /\ \A j \in Jobs : Accounted(job[j])

LEMMA IdleIsAccounted == Accounted(S!Idle)
BY DEF S!Idle, Accounted, Records, Opened, S!Run, S!Backends

LEMMA JobStart == Init => JobInv
BY IdleIsAccounted DEF Init, S!Init, JobInv

LEMMA OnePuts ==
  ASSUME JobInv, NEW j \in Jobs, NEW rec, Accounted(rec), S!Put(j, rec)
  PROVE  JobInv'
BY DEF JobInv, S!Put

(* Whoever throws has not to account for what is left. *)
LEMMA ThrownIsAccounted ==
  ASSUME NEW rec, Accounted(rec)
  PROVE  Accounted([rec EXCEPT !.at = "ended", !.threw = TRUE])
<1> DEFINE new == [rec EXCEPT !.at = "ended", !.threw = TRUE]
<1>1. /\ new \in Records(rec.left) /\ new.left = rec.left /\ new.at = "ended" /\ new.threw = TRUE
      /\ new.kind = rec.kind /\ new.backend = rec.backend /\ new.box = rec.box /\ new.status = rec.status
      /\ new.exit = rec.exit /\ new.cut = rec.cut
  BY DEF Accounted, Records
<1> HIDE DEF new
<1>2. Accounted(new)
  BY <1>1 DEF Accounted
<1> QED BY <1>2 DEF new

LEMMA Putting ==
  ASSUME JobInv, NEW j \in Jobs,
         \/ S!Start(j) \/ S!BoxStarts(j) \/ S!BoxFails(j) \/ S!Authenticated(j)
         \/ S!Fetched(j) \/ S!Skipped(j) \/ S!Connected(j) \/ S!Resolved(j) \/ S!Called(j)
         \/ S!CommandEnds(j) \/ S!Closes(j) \/ S!BoxCloses(j)
  PROVE  JobInv'
<1> DEFINE old == job[j]
<1>0. Accounted(old)
  BY DEF JobInv
<1>1. CASE S!Start(j)
  <2>1. PICK kind \in S!Kinds, host \in S!Backends :
          S!Put(j, [S!Idle EXCEPT !.kind = kind, !.left = S!InOrder,
                           !.backend = IF S!Run(kind) THEN host ELSE "none",
                           !.at = IF S!Run(kind) THEN "starting" ELSE "authenticating"])
    BY <1>1 DEF S!Start
  <2>2. Accounted([S!Idle EXCEPT !.kind = kind, !.left = S!InOrder,
                           !.backend = IF S!Run(kind) THEN host ELSE "none",
                           !.at = IF S!Run(kind) THEN "starting" ELSE "authenticating"])
    BY DEF S!Idle, Accounted, Records, Opened, S!Run, S!Backends
  <2> QED BY <2>1, <2>2, OnePuts
<1>2. CASE S!BoxStarts(j)
  <2>1. PICK gateway \in BOOLEAN :
          S!Put(j, [old EXCEPT !.at = S!ToolsFrom(gateway), !.box = "up"])
    BY <1>2 DEF S!BoxStarts
  <2> DEFINE new == [old EXCEPT !.at = S!ToolsFrom(gateway), !.box = "up"]
  <2>2. old.at = "starting" /\ S!ToolsFrom(gateway) \in {"fetching", "resolving"}
    BY <1>2 DEF S!BoxStarts, S!At, S!ToolsFrom
  <2>3. /\ new \in Records(old.left) /\ new.left = old.left /\ new.kind = old.kind /\ new.backend = old.backend
        /\ new.at \in {"fetching", "resolving"} /\ new.conn = old.conn
        /\ new.status = old.status /\ new.exit = old.exit /\ new.cut = old.cut
    BY <1>0, <2>2 DEF Accounted, Records
  <2>4. Opened(new) = Opened(old)
    BY <2>3 DEF Opened
  <2> HIDE DEF new
  <2>5. Accounted(new)
    BY <1>0, <2>2, <2>3, <2>4 DEF Accounted
  <2> QED BY <2>1, <2>5, OnePuts DEF new
<1>3. CASE S!BoxFails(j)
  <2>1. PICK box1 \in {"none", "up"} :
          S!Put(j, [[old EXCEPT !.box = box1] EXCEPT !.at = "ended", !.threw = TRUE])
    BY <1>3 DEF S!BoxFails, S!Leaves, S!Throws
  <2>2. Accounted([[old EXCEPT !.box = box1] EXCEPT !.at = "ended", !.threw = TRUE])
    BY <1>0, <1>3 DEF S!BoxFails, S!At, Accounted, Records, Opened
  <2> QED BY <2>1, <2>2, OnePuts
<1>4. CASE S!Authenticated(j)
  <2>1. /\ Accounted([old EXCEPT !.at = "resolving"])
        /\ Accounted([old EXCEPT !.at = "ended", !.status = "unauthorized"])
        /\ Accounted([old EXCEPT !.at = "ended", !.threw = TRUE])
    BY <1>0, <1>4 DEF S!Authenticated, S!At, Accounted, Records, Opened
  <2> QED BY <1>4, <2>1, OnePuts DEF S!Authenticated, S!Throws
<1>5. CASE S!Fetched(j)
  <2>1. /\ Accounted([old EXCEPT !.at = "working"])
        /\ Accounted([old EXCEPT !.at = "ended", !.threw = TRUE])
    BY <1>0, <1>5 DEF S!Fetched, S!At, Accounted, Records, Opened
  <2> QED BY <1>5, <2>1, OnePuts DEF S!Fetched, S!Throws
<1>6. CASE S!Skipped(j)
  <2>1. Accounted([old EXCEPT !.left = Tail(old.left)])
    BY <1>0, <1>6 DEF S!Skipped, S!At, Accounted, Records, Opened
  <2> QED BY <1>6, <2>1, OnePuts DEF S!Skipped, S!Rest
<1>7. CASE S!Connected(j)
  <2> DEFINE rest == [old EXCEPT !.left = Tail(old.left)]
             open == [rest EXCEPT !.conn[Head(old.left)] = "open"]
  <2>1. /\ Accounted(rest) /\ rest.at = "resolving"
    BY <1>0, <1>7 DEF S!Connected, S!At, Accounted, Records, Opened
  <2>2. open.conn \in [Servers -> {"none", "open", "closed"}]
    BY <2>1 DEF Accounted, Records
  <2>3. Accounted(open) /\ open.at = "resolving"
    BY <2>1, <2>2 DEF Accounted, Records, Opened
  <2> HIDE DEF rest, open
  <2>4. /\ Accounted([rest EXCEPT !.at = "ended", !.threw = TRUE])
        /\ Accounted([open EXCEPT !.at = "ended", !.threw = TRUE])
    BY <2>1, <2>3, ThrownIsAccounted
  <2>5. S!Put(j, open) \/ S!Throws(j, rest) \/ S!Throws(j, open)
    BY <1>7 DEF S!Connected, S!Rest, rest, open
  <2> QED BY <2>3, <2>4, <2>5, OnePuts DEF S!Throws
<1>8. CASE S!Resolved(j)
  <2>1. CASE old.kind = "list"
    <3>1. S!Put(j, [old EXCEPT !.at = "closing", !.status = "answered"])
      BY <1>8, <2>1 DEF S!Resolved
    <3>2. Accounted([old EXCEPT !.at = "closing", !.status = "answered"])
      BY <1>0 DEF Accounted, Records, Opened
    <3> QED BY <3>1, <3>2, OnePuts
  <2>2. CASE old.kind # "list"
    <3>1. S!Put(j, [old EXCEPT !.at = "working", !.status = old.status])
      BY <1>8, <2>2 DEF S!Resolved
    <3> DEFINE new == [old EXCEPT !.at = "working", !.status = old.status]
    <3>2. /\ new \in Records(old.left) /\ new.left = old.left /\ new.at = "working"
          /\ new.kind = old.kind /\ new.backend = old.backend /\ new.box = old.box /\ new.conn = old.conn
          /\ new.status = old.status /\ new.exit = old.exit /\ new.cut = old.cut
      BY <1>0 DEF Accounted, Records
    <3> HIDE DEF new
    <3>3. Accounted(new)
      BY <1>0, <3>2 DEF Accounted
    <3> QED BY <3>1, <3>3, OnePuts DEF new
  <2> QED BY <2>1, <2>2
<1>9. CASE S!Called(j)
  <2>1. PICK status \in {"completed", "failed", "notFound", "answered"} :
          /\ S!Put(j, [old EXCEPT !.at = "closing", !.status = status])
          /\ old.kind # "sandboxed"
    BY <1>9 DEF S!Called
  <2>2. Accounted([old EXCEPT !.at = "closing", !.status = status])
    BY <1>0, <2>1 DEF Accounted, Records, Opened
  <2> QED BY <2>1, <2>2, OnePuts
<1>10. CASE S!CommandEnds(j)
  <2>1. PICK exit \in {"zero", "nonzero"} : \E delivered \in S!Sayable(old.backend, exit) :
          LET failed == S!ExitCodeOf(old.backend, delivered, exit) # 0
          IN  S!Put(j, [old EXCEPT !.at = S!AfterWork(failed), !.exit = exit,
                     !.cut = delivered = "nothing",
                     !.status = IF failed THEN "failed" ELSE "completed"])
    BY <1>10 DEF S!CommandEnds
  <2>2. PICK delivered \in S!Sayable(old.backend, exit) :
          LET failed == S!ExitCodeOf(old.backend, delivered, exit) # 0
          IN  S!Put(j, [old EXCEPT !.at = "closing", !.exit = exit,
                     !.cut = delivered = "nothing",
                     !.status = IF failed THEN "failed" ELSE "completed"])
    BY <2>1 DEF S!AfterWork
  <2>3. PICK cut \in BOOLEAN, status \in {"failed", "completed"} :
          /\ S!Put(j, [old EXCEPT !.at = "closing", !.exit = exit, !.cut = cut, !.status = status])
          /\ status = "completed" => exit = "zero" \/ cut
    <3> DEFINE failed == S!ExitCodeOf(old.backend, delivered, exit) # 0
    <3>1. ~failed => exit = "zero" \/ delivered = "nothing"
      BY DEF S!Sayable, S!Delivered, S!ExitCodeOf, S!PodExit, S!InterpreterExit, S!OwnCode
    <3>2. S!Put(j, [old EXCEPT !.at = "closing", !.exit = exit, !.cut = delivered = "nothing",
                     !.status = IF failed THEN "failed" ELSE "completed"])
      BY <2>2
    <3> HIDE DEF failed
    <3>3. CASE failed
      BY <3>2, <3>3
    <3>4. CASE ~failed
      BY <3>1, <3>2, <3>4
    <3> QED BY <3>3, <3>4
  <2> DEFINE new == [old EXCEPT !.at = "closing", !.exit = exit, !.cut = cut, !.status = status]
  <2>4. /\ new \in Records(old.left) /\ new.left = old.left /\ new.kind = old.kind /\ new.backend = old.backend
        /\ new.at = "closing" /\ new.box = old.box
        /\ new.status = status /\ new.exit = exit /\ new.cut = cut
    BY <1>0 DEF Accounted, Records
  <2> HIDE DEF new
  <2>5. Accounted(new)
    BY <1>0, <2>3, <2>4 DEF Accounted
  <2> QED BY <2>3, <2>5, OnePuts DEF new
<1>11. CASE S!Closes(j)
  <2>1. PICK s \in Servers :
          \/ S!Put(j, [old EXCEPT !.conn[s] = "closed"])
          \/ S!Put(j, [old EXCEPT !.stuck = old.stuck \cup {s}])
    BY <1>11 DEF S!Closes, S!Open
  <2>2. old.at = "closing"
    BY <1>11 DEF S!Closes, S!At
  <2>3. Accounted([old EXCEPT !.stuck = old.stuck \cup {s}])
    BY <1>0, <2>2 DEF Accounted, Records, Opened
  <2>4. Accounted([old EXCEPT !.conn[s] = "closed"])
    BY <1>0, <2>2 DEF Accounted, Records, Opened
  <2> QED BY <2>1, <2>3, <2>4, OnePuts
<1>12. CASE S!BoxCloses(j)
  <2>1. old.at = "closing" /\ Opened(old) \subseteq old.stuck
    BY <1>12 DEF S!BoxCloses, S!At, S!Open, Opened
  <2>2. \/ S!Put(j, [old EXCEPT !.at = "ended", !.box = IF S!Run(old.kind) THEN "gone" ELSE old.box])
        \/ S!Put(j, [old EXCEPT !.at = "ended", !.stuck = old.stuck \cup {"box"}])
    BY <1>12 DEF S!BoxCloses
  <2>3. Accounted([old EXCEPT !.at = "ended", !.box = IF S!Run(old.kind) THEN "gone" ELSE old.box])
    BY <1>0, <2>1 DEF Accounted, Records, Opened
  <2>4. Accounted([old EXCEPT !.at = "ended", !.stuck = old.stuck \cup {"box"}])
    BY <1>0, <2>1 DEF Accounted, Records, Opened
  <2> QED BY <2>2, <2>3, <2>4, OnePuts
<1> QED BY <1>1, <1>2, <1>3, <1>4, <1>5, <1>6, <1>7, <1>8, <1>9, <1>10, <1>11, <1>12

LEMMA JobStep == JobInv /\ [Next]_vars => JobInv'
<1> SUFFICES ASSUME JobInv, [Next]_vars PROVE JobInv'
  OBVIOUS
<1>1. CASE UNCHANGED job
  BY <1>1 DEF JobInv
<1>2. CASE OnSession
  BY <1>2, Putting DEF OnSession, S!Next
<1> QED BY <1>1, <1>2 DEF Next, OnMemory, OnWorkspace, OnCredentials, OnPricing, OnSignIn, vars

(* process-run.ts, tool-gateway.ts, mcp-tools.ts: for any number of jobs and  *)
(* servers, a job that reached its try block leaves nothing open behind it    *)
(* but what would not be closed.                                              *)
THEOREM ReleasedAtTheEndHolds == Spec => []ReleasedAtTheEnd
<1>1. JobInv => ReleasedAtTheEnd
  BY DEF JobInv, Accounted, Opened, ReleasedAtTheEnd, S!ReleasedAtTheEnd, S!At, S!Open
<1> QED BY <1>1, JobStart, JobStep, PTL DEF Spec

(* ... and a sandboxed run completes by a zero, or by a stream that was cut.  *)
THEOREM CompletedIsEarnedHolds == Spec => []CompletedIsEarned
<1>1. JobInv => CompletedIsEarned
  BY DEF JobInv, Accounted, CompletedIsEarned, S!CompletedIsEarned
<1> QED BY <1>1, JobStart, JobStep, PTL DEF Spec

(* process-run.ts and messages.ts: however its work goes, a job that reached  *)
(* its try block ends with what it opened closed, and with a status it earned. *)
THEOREM JobEndsWellHolds == Spec => []JobEndsWell
<1>1. ReleasedAtTheEnd /\ CompletedIsEarned => JobEndsWell
  BY DEF JobEndsWell, ReleasedAtTheEnd, CompletedIsEarned, S!JobEndsWell
<1> QED BY <1>1, ReleasedAtTheEndHolds, CompletedIsEarnedHolds, PTL

-----------------------------------------------------------------------------
(***************************************************************************)
(* Memory.  A file adapter's promises are lines of the file; a search that *)
(* indexes or ranks has in hand what it owes, and what a managed service   *)
(* made searchable stays so.                                               *)
(***************************************************************************)
LEMMA BagMoves ==
  ASSUME NEW lines, NEW n
  PROVE  /\ DOMAIN M!Bag!BagAdd(lines, n) = DOMAIN lines \cup {n}
         /\ DOMAIN M!Bag!BagRemove(lines, n) \subseteq DOMAIN lines
         /\ DOMAIN lines \subseteq DOMAIN M!Bag!BagRemove(lines, n) \cup {n}
         /\ M!BagToSet(lines) = DOMAIN lines
BY DEF M!Bag!BagAdd, M!Bag!BagRemove, M!BagToSet

LEMMA BagOfSet == (\A X : DOMAIN M!SetToBag(X) = X) /\ DOMAIN M!EmptyBag = {}
BY DEF M!SetToBag, M!EmptyBag

(* A list has what is due, or holds as many lines as it may. *)
Answers(due, list) == due \subseteq list.notes \/ list.room = "none"

LEMMA CutAnswers ==
  ASSUME NEW lines, NEW most \in Nat, NEW list \in M!Cut(lines, most)
  PROVE  \A due \in SUBSET DOMAIN lines : Answers(due, list)
<1>1. PICK piece \in M!BestOf(lines, most) :
        list = M!List(piece, IF M!BagCardinality(piece) < most THEN "left" ELSE "none")
  BY DEF M!Cut
<1>2. CASE piece = lines
  <2>1. list.notes = DOMAIN lines
    BY <1>1, <1>2 DEF M!List, M!BagToSet
  <2> QED BY <2>1 DEF Answers
<1>3. CASE M!BagCardinality(piece) = most
  <2>1. list.room = "none"
    BY <1>1, <1>3 DEF M!List
  <2> QED BY <2>1 DEF Answers
<1> QED BY <1>2, <1>3 DEF M!BestOf

LEMMA AllAnswers == \A lines : \A due \in SUBSET DOMAIN lines : Answers(due, M!All(lines))
BY DEF Answers, M!All, M!List, M!BagToSet

CallShaped(rec) ==
  rec = [at |-> rec.at, note |-> rec.note, idx |-> rec.idx, todo |-> rec.todo,
         due |-> rec.due, reply |-> rec.reply]

Waiting == {"idle", "screening", "embedding", "sending"}

(* Where a call stands: on which backend, what notes its own must be among,   *)
(* and what is found.                                                        *)
Owed(rec, on, lines, found) ==
  /\ CallShaped(rec)
  /\ DOMAIN rec.idx \subseteq Notes /\ DOMAIN rec.todo \subseteq Notes
  /\ rec.at \in Waiting \cup {"recalling", "retrieving", "indexing", "ranking", "done"}
  /\ rec.at \in {"screening", "embedding", "sending"} => rec.note \in Notes
  /\ rec.at = "embedding" => on = "vector" /\ rec.note \in lines
  /\ rec.at \in {"sending", "recalling", "retrieving"} => on \in M!Managed
  /\ rec.at = "indexing" => on = "vector" /\ rec.due \subseteq DOMAIN rec.idx \cup DOMAIN rec.todo
  /\ rec.at = "ranking" => rec.due \subseteq DOMAIN rec.idx
  /\ rec.at \in {"recalling", "retrieving"} => rec.due \subseteq found
  /\ rec.at = "done" /\ rec.reply \notin {NoReply, Refused, Error, Remembered} =>
       Answers(rec.due, rec.reply)

MemoryInv ==
  /\ backend \in M!Backends \cup {"none"}
  /\ DOMAIN file \subseteq Notes /\ DOMAIN index \subseteq Notes
  /\ events \subseteq Notes /\ kept \subseteq Notes
  /\ facts \subseteq events
  /\ human = [edits |-> human.edits, removed |-> human.removed]
  /\ backend \in {"files", "vector"} => kept \subseteq DOMAIN file
  /\ backend \in M!Managed => kept = {}
  /\ backend = "none" => kept = {} /\ \A c \in Calls : call[c].at = "idle"
  /\ DOMAIN call = Calls
  /\ \A c \in Calls : Owed(call[c], backend, DOMAIN file \cup human.removed, facts)

LEMMA IdleIsOwed ==
  \A on, lines, found : Owed(M!Idle, on, lines, found) /\ M!Idle.at = "idle"
<1>1. /\ M!Idle.at = "idle" /\ M!Idle.idx = M!EmptyBag /\ M!Idle.todo = M!EmptyBag
      /\ CallShaped(M!Idle)
  BY DEF M!Idle, CallShaped
<1> QED BY <1>1, BagOfSet DEF Owed, Waiting

LEMMA MemoryStart == Init => MemoryInv
<1> SUFFICES ASSUME Init PROVE MemoryInv
  OBVIOUS
<1>1. \A c \in Calls : call[c] = M!Idle
  BY DEF Init, M!Init
<1>2. DOMAIN call = Calls
  BY DEF Init, M!Init
<1>3. DOMAIN file = {} /\ DOMAIN index = {}
  BY BagOfSet DEF Init, M!Init
<1> QED BY <1>1, <1>2, <1>3, IdleIsOwed DEF Init, M!Init, MemoryInv

(* One call moves; what the others are owed is there still. *)
LEMMA StillOwed ==
  ASSUME NEW rec, NEW on, NEW lines, NEW found, NEW more, NEW later,
         Owed(rec, on, lines, found), lines \subseteq more, found \subseteq later
  PROVE  Owed(rec, on, more, later)
BY DEF Owed

LEMMA OneCallMoves ==
  ASSUME MemoryInv, NEW c \in Calls, NEW new, call' = [call EXCEPT ![c] = new],
         Owed(new, backend, DOMAIN file' \cup human.removed, facts'),
         backend # "none", UNCHANGED <<backend, human>>,
         DOMAIN file \subseteq DOMAIN file', facts \subseteq facts', DOMAIN file' \subseteq Notes,
         DOMAIN index' \subseteq Notes, events' \subseteq Notes, facts' \subseteq events',
         kept' \subseteq Notes, backend \in {"files", "vector"} => kept' \subseteq DOMAIN file',
         backend \in M!Managed => kept' = {}
  PROVE  MemoryInv'
<1>1. ASSUME NEW d \in Calls PROVE Owed(call'[d], backend', DOMAIN file' \cup human'.removed, facts')
  <2>1. backend' = backend /\ human'.removed = human.removed
    OBVIOUS
  <2>2. CASE d = c
    <3>1. call'[d] = new
      BY <2>2 DEF MemoryInv
    <3> QED BY <2>1, <3>1
  <2>3. CASE d # c
    <3>1. call'[d] = call[d] /\ Owed(call[d], backend, DOMAIN file \cup human.removed, facts)
      BY <2>3 DEF MemoryInv
    <3>2. DOMAIN file \cup human.removed \subseteq DOMAIN file' \cup human'.removed
      BY <2>1
    <3> QED BY <2>1, <3>1, <3>2, StillOwed
  <2> QED BY <2>2, <2>3
<1>2. DOMAIN call' = Calls
  BY DEF MemoryInv
<1>3. human' = [edits |-> human'.edits, removed |-> human'.removed]
  BY DEF MemoryInv
<1> QED BY <1>1, <1>2, <1>3 DEF MemoryInv

Record(at, text, idx, todo, due, reply) ==
  [at |-> at, note |-> text, idx |-> idx, todo |-> todo, due |-> due, reply |-> reply]

(* What is made of a call's record, field by field. *)
GoTo(rec, v)     == [rec EXCEPT !.at = v]
WithNote(rec, v) == [rec EXCEPT !.note = v]
WithIdx(rec, v)  == [rec EXCEPT !.idx = v]
WithTodo(rec, v) == [rec EXCEPT !.todo = v]
WithDue(rec, v)  == [rec EXCEPT !.due = v]
Saying(rec, v)   == [rec EXCEPT !.reply = v]

LEMMA CallField ==
  ASSUME NEW at, NEW text, NEW idx, NEW todo, NEW due, NEW reply, NEW v
  PROVE  /\ GoTo(Record(at, text, idx, todo, due, reply), v) = Record(v, text, idx, todo, due, reply)
         /\ WithNote(Record(at, text, idx, todo, due, reply), v) = Record(at, v, idx, todo, due, reply)
         /\ WithIdx(Record(at, text, idx, todo, due, reply), v) = Record(at, text, v, todo, due, reply)
         /\ WithTodo(Record(at, text, idx, todo, due, reply), v) = Record(at, text, idx, v, due, reply)
         /\ WithDue(Record(at, text, idx, todo, due, reply), v) = Record(at, text, idx, todo, v, reply)
         /\ Saying(Record(at, text, idx, todo, due, reply), v) = Record(at, text, idx, todo, due, v)
BY DEF Record, GoTo, WithNote, WithIdx, WithTodo, WithDue, Saying

LEMMA CallWent ==
  ASSUME NEW rec, CallShaped(rec), NEW at
  PROVE  GoTo(rec, at) = Record(at, rec.note, rec.idx, rec.todo, rec.due, rec.reply)
<1>1. rec = Record(rec.at, rec.note, rec.idx, rec.todo, rec.due, rec.reply)
  BY DEF CallShaped, Record
<1> QED BY <1>1, CallField

(* What is owed where a call goes. *)
LEMMA OwedThen ==
  ASSUME NEW at, NEW text, NEW idx, NEW todo, NEW due, NEW reply,
         NEW on, NEW lines, NEW found,
         DOMAIN idx \subseteq Notes, DOMAIN todo \subseteq Notes,
         at \in {"screening", "embedding", "sending", "recalling", "retrieving", "indexing",
                 "ranking", "done"},
         at \in {"screening", "embedding", "sending"} => text \in Notes,
         at = "embedding" => on = "vector" /\ text \in lines,
         at \in {"sending", "recalling", "retrieving"} => on \in M!Managed,
         at = "indexing" => on = "vector" /\ due \subseteq DOMAIN idx \cup DOMAIN todo,
         at = "ranking" => due \subseteq DOMAIN idx,
         at \in {"recalling", "retrieving"} => due \subseteq found,
         at = "done" /\ reply \notin {NoReply, Refused, Error, Remembered} => Answers(due, reply)
  PROVE  Owed(Record(at, text, idx, todo, due, reply), on, lines, found)
<1> DEFINE rec == Record(at, text, idx, todo, due, reply)
<1>1. /\ rec.at = at /\ rec.note = text /\ rec.idx = idx /\ rec.todo = todo
      /\ rec.due = due /\ rec.reply = reply /\ CallShaped(rec)
  BY DEF Record, CallShaped
<1> HIDE DEF rec
<1>2. Owed(rec, on, lines, found)
  BY <1>1 DEF Owed, Waiting
<1> QED BY <1>2 DEF rec

(* An answer that is no list of notes, or one with all that is due. *)
LEMMA Replies ==
  ASSUME MemoryInv, NEW c \in Calls, NEW what, M!Reply(c, what),
         what \in {Refused, Error, Remembered} \/ Answers(call[c].due, what),
         NEW lines, NEW found
  PROVE  \E new : call' = [call EXCEPT ![c] = new] /\ Owed(new, backend, lines, found)
<1> DEFINE rec == call[c]
           new == Record("done", rec.note, rec.idx, rec.todo, rec.due, what)
<1>1. CallShaped(rec) /\ DOMAIN rec.idx \subseteq Notes /\ DOMAIN rec.todo \subseteq Notes
  BY DEF MemoryInv, Owed
<1>2. call' = [call EXCEPT ![c] = Saying(GoTo(rec, "done"), what)]
  BY DEF M!Reply, M!Stay, Saying, GoTo
<1>3. Saying(GoTo(rec, "done"), what) = new
  BY <1>1, CallWent, CallField
<1>4. Answers(rec.due, what) \/ what \in {Refused, Error, Remembered}
  OBVIOUS
<1> HIDE DEF rec
<1>5. Owed(new, backend, lines, found)
  BY <1>1, <1>4, OwedThen
<1> HIDE DEF new
<1>6. call' = [call EXCEPT ![c] = new]
  BY <1>2, <1>3
<1> WITNESS new
<1> QED BY <1>5, <1>6

LEMMA MemoryStep == MemoryInv /\ [Next]_vars => MemoryInv'
<1> SUFFICES ASSUME MemoryInv, [Next]_vars PROVE MemoryInv'
  OBVIOUS
<1>1. CASE UNCHANGED memory
  <2>1. UNCHANGED <<backend, file, index, events, facts, call, human, kept>>
    BY <1>1 DEF memory
  <2> QED BY <2>1 DEF MemoryInv
<1>2. CASE M!Selected
  <2>1. /\ backend = "none" /\ backend' \in M!Backends
        /\ UNCHANGED <<file, index, events, facts, call, human, kept>>
    BY <1>2 DEF M!Selected
  <2>2. kept = {} /\ \A c \in Calls : call[c].at = "idle" /\ Owed(call[c], backend, DOMAIN file \cup human.removed, facts)
    BY <2>1 DEF MemoryInv
  <2>3. \A c \in Calls : Owed(call[c], backend', DOMAIN file \cup human.removed, facts)
    BY <2>2 DEF Owed
  <2> QED BY <2>1, <2>2, <2>3 DEF MemoryInv, M!Backends, M!Managed
<1>3. ASSUME NEW n \in Notes, M!Extract(n) PROVE MemoryInv'
  <2>1. /\ n \in events \ facts /\ facts' = facts \cup {n}
        /\ UNCHANGED <<backend, file, index, events, call, human, kept>>
    BY <1>3 DEF M!Extract
  <2>2. \A c \in Calls : Owed(call[c], backend, DOMAIN file \cup human.removed, facts')
    BY <2>1, StillOwed DEF MemoryInv
  <2> QED BY <2>1, <2>2 DEF MemoryInv
<1>4. ASSUME NEW n \in Notes, M!HumanEdits(n) PROVE MemoryInv'
  <2> DEFINE gone == human.removed \cup (DOMAIN file \ DOMAIN file')
  <2>1. /\ backend \in {"files", "vector"} /\ kept' = kept \cap DOMAIN file'
        /\ file' = M!Bag!BagAdd(file, n) \/ file' = M!Bag!BagRemove(file, n)
        /\ human' = [edits |-> human.edits + 1, removed |-> gone]
        /\ UNCHANGED <<backend, index, events, facts, call>>
    BY <1>4 DEF M!HumanEdits, M!BagToSet
  <2>2. human'.removed = gone /\ human' = [edits |-> human'.edits, removed |-> human'.removed]
    BY <2>1
  <2>3. DOMAIN file \cup human.removed \subseteq DOMAIN file' \cup human'.removed /\ DOMAIN file' \subseteq Notes
    <3>1. /\ DOMAIN M!Bag!BagAdd(file, n) = DOMAIN file \cup {n}
          /\ DOMAIN M!Bag!BagRemove(file, n) \subseteq DOMAIN file
      BY BagMoves
    <3>2. DOMAIN file' = DOMAIN M!Bag!BagAdd(file, n) \/ DOMAIN file' = DOMAIN M!Bag!BagRemove(file, n)
      BY <2>1
    <3>3. DOMAIN file' \subseteq DOMAIN file \cup {n}
      BY <3>1, <3>2
    <3> QED BY <2>2, <3>3 DEF MemoryInv
  <2>4. \A c \in Calls : Owed(call[c], backend, DOMAIN file' \cup human'.removed, facts)
    BY <2>3, StillOwed DEF MemoryInv
  <2>5. backend \notin M!Managed /\ backend # "none" /\ kept' \subseteq DOMAIN file' /\ kept' \subseteq Notes
    BY <2>1 DEF MemoryInv, M!Managed
  <2> QED BY <2>1, <2>2, <2>3, <2>4, <2>5 DEF MemoryInv
<1>5. ASSUME NEW c \in Calls,
             M!EventSent(c) \/ M!MemoryCreated(c) \/ M!Recalled(c) \/ M!AllOfScope(c)
             \/ M!Ranked(c) \/ M!RecordsFound(c) \/ M!Retrieved(c) \/ M!Throws(c)
      PROVE  MemoryInv'
  <2>1. /\ UNCHANGED <<backend, file, index, facts, human, kept>>
        /\ call[c].at \notin {"idle", "done"}
        /\ events' = events \/ (call[c].at = "sending" /\ events' = events \cup {call[c].note})
    BY <1>5 DEF M!EventSent, M!MemoryCreated, M!Recalled, M!AllOfScope, M!Ranked, M!RecordsFound,
       M!Retrieved, M!Throws, M!At
  <2>2. backend # "none" /\ Owed(call[c], backend, DOMAIN file \cup human.removed, facts)
    BY <2>1 DEF MemoryInv
  <2>3. events' \subseteq Notes /\ facts' \subseteq events'
    BY <2>1, <2>2 DEF MemoryInv, Owed
  <2>4. \E what : /\ M!Reply(c, what)
                  /\ what \in {Refused, Error, Remembered} \/ Answers(call[c].due, what)
    <3>1. CASE M!EventSent(c) \/ M!MemoryCreated(c) \/ M!Throws(c)
      BY <3>1 DEF M!EventSent, M!MemoryCreated, M!Throws, M!Told
    <3>2. CASE M!AllOfScope(c)
      <4>1. call[c].due \in SUBSET facts /\ M!Reply(c, M!All(M!SetToBag(facts)))
        BY <2>2, <3>2 DEF M!AllOfScope, M!At, Owed
      <4>2. Answers(call[c].due, M!All(M!SetToBag(facts)))
        BY <4>1, BagOfSet, AllAnswers
      <4> QED BY <4>1, <4>2
    <3>3. CASE M!Recalled(c) \/ M!Ranked(c) \/ M!RecordsFound(c) \/ M!Retrieved(c)
      <4>1. \E lines : \E most \in Nat : \E list \in M!Cut(lines, most) :
              M!Reply(c, list) /\ call[c].due \in SUBSET DOMAIN lines
        <5>1. CASE M!Ranked(c)
          BY <2>2, <5>1, WorkAssumption DEF M!Ranked, M!At, Owed, M!MemoryAssumption
        <5>2. CASE M!Recalled(c) \/ M!RecordsFound(c) \/ M!Retrieved(c)
          <6>1. call[c].due \in SUBSET DOMAIN M!SetToBag(facts)
            BY <2>2, <5>2, BagOfSet DEF M!Recalled, M!RecordsFound, M!Retrieved, M!At, Owed
          <6> QED BY <5>2, <6>1, WorkAssumption
                  DEF M!Recalled, M!RecordsFound, M!Retrieved, M!MemoryAssumption
        <5> QED BY <3>3, <5>1, <5>2
      <4>2. PICK lines : \E most \in Nat : \E list \in M!Cut(lines, most) :
              M!Reply(c, list) /\ call[c].due \in SUBSET DOMAIN lines
        BY <4>1
      <4>3. PICK most \in Nat : \E list \in M!Cut(lines, most) :
              M!Reply(c, list) /\ call[c].due \in SUBSET DOMAIN lines
        BY <4>2
      <4>4. PICK list \in M!Cut(lines, most) :
              M!Reply(c, list) /\ call[c].due \in SUBSET DOMAIN lines
        BY <4>3
      <4>5. Answers(call[c].due, list)
        BY <4>4, CutAnswers
      <4> QED BY <4>4, <4>5
    <3> QED BY <1>5, <3>1, <3>2, <3>3
  <2>5. PICK new : call' = [call EXCEPT ![c] = new] /\ Owed(new, backend, DOMAIN file' \cup human.removed, facts')
    BY <2>4, Replies
  <2> QED BY <2>1, <2>2, <2>3, <2>5, OneCallMoves DEF MemoryInv
<1>6. ASSUME NEW c \in Calls, NEW n \in Notes, M!Remember(c, n) PROVE MemoryInv'
  <2> DEFINE rec == call[c]
             new == Record("screening", n, rec.idx, rec.todo, rec.due, rec.reply)
  <2>1. /\ call' = [call EXCEPT ![c] = WithNote(GoTo(rec, "screening"), n)] /\ backend # "none"
        /\ UNCHANGED <<backend, file, index, events, facts, human, kept>>
    BY <1>6 DEF M!Remember, M!At, M!Stay, WithNote, GoTo
  <2>2. CallShaped(rec) /\ DOMAIN rec.idx \subseteq Notes /\ DOMAIN rec.todo \subseteq Notes
    BY DEF MemoryInv, Owed
  <2>3. WithNote(GoTo(rec, "screening"), n) = new
    BY <2>2, CallWent, CallField
  <2> HIDE DEF rec
  <2>4. Owed(new, backend, DOMAIN file' \cup human.removed, facts')
    BY <2>2, OwedThen
  <2> HIDE DEF new
  <2> QED BY <2>1, <2>3, <2>4, OneCallMoves DEF MemoryInv
<1>7. ASSUME NEW c \in Calls, M!Screened(c) PROVE MemoryInv'
  <2> DEFINE rec == call[c]
  <2>1. PICK verdict \in M!Verdicts : M!Stores(c, verdict)
    BY <1>7 DEF M!Screened
  <2>2. rec.at = "screening" /\ backend # "none" /\ UNCHANGED <<backend, index, events, facts, human>>
    BY <1>7 DEF M!Screened, M!At
  <2>3. CallShaped(rec) /\ DOMAIN rec.idx \subseteq Notes /\ DOMAIN rec.todo \subseteq Notes /\ rec.note \in Notes
    BY <2>2 DEF MemoryInv, Owed
  <2>4. CASE verdict = "blocked"
    <3>1. M!Reply(c, Refused) /\ UNCHANGED <<file, kept>>
      BY <2>1, <2>4 DEF M!Stores
    <3>2. PICK new : call' = [call EXCEPT ![c] = new] /\ Owed(new, backend, DOMAIN file' \cup human.removed, facts')
      BY <3>1, Replies
    <3> QED BY <2>2, <3>1, <3>2, OneCallMoves DEF MemoryInv
  <2>5. CASE verdict # "blocked" /\ backend = "files"
    <3>0. /\ file' = M!Bag!BagAdd(file, rec.note) /\ M!Reply(c, Remembered)
          /\ kept' = kept \cup ({rec.note} \ human.removed)
      BY <2>1, <2>5 DEF M!Stores, M!Append, M!Promise
    <3>1. DOMAIN file' = DOMAIN file \cup {rec.note}
      BY <3>0, BagMoves
    <3>2. PICK new : call' = [call EXCEPT ![c] = new] /\ Owed(new, backend, DOMAIN file' \cup human.removed, facts')
      BY <3>0, Replies
    <3>3. backend \notin M!Managed /\ DOMAIN file' \subseteq Notes /\ kept' \subseteq DOMAIN file' /\ kept' \subseteq Notes
      BY <2>3, <2>5, <3>0, <3>1 DEF M!Managed, MemoryInv
    <3> QED BY <2>2, <3>1, <3>2, <3>3, OneCallMoves DEF MemoryInv
  <2>6. CASE verdict # "blocked" /\ backend = "vector"
    <3> DEFINE new == Record("embedding", rec.note, index, rec.todo, rec.due, rec.reply)
    <3>0. file' = M!Bag!BagAdd(file, rec.note)
      BY <2>1, <2>6 DEF M!Stores, M!Append
    <3>1. /\ DOMAIN file' = DOMAIN file \cup {rec.note} /\ UNCHANGED kept
          /\ call' = [call EXCEPT ![c] = WithIdx(GoTo(rec, "embedding"), index)]
      <4>1. DOMAIN file' = DOMAIN file \cup {rec.note}
        BY <3>0, BagMoves
      <4>2. UNCHANGED kept /\ call' = [call EXCEPT ![c] = WithIdx(GoTo(rec, "embedding"), index)]
        BY <2>1, <2>6 DEF M!Stores, M!Stay, WithIdx, GoTo
      <4> QED BY <4>1, <4>2
    <3>2. WithIdx(GoTo(rec, "embedding"), index) = new
      BY <2>3, CallWent, CallField
    <3>3. backend \notin M!Managed /\ DOMAIN file' \subseteq Notes /\ kept' \subseteq DOMAIN file' /\ kept' \subseteq Notes
      BY <2>3, <2>6, <3>1 DEF M!Managed, MemoryInv
    <3> HIDE DEF rec
    <3>4. Owed(new, backend, DOMAIN file' \cup human.removed, facts')
      BY <2>3, <2>6, <3>1, OwedThen DEF MemoryInv
    <3> HIDE DEF new
    <3> QED BY <2>2, <3>1, <3>2, <3>3, <3>4, OneCallMoves DEF MemoryInv
  <2>7. CASE verdict # "blocked" /\ backend \notin {"files", "vector"}
    <3> DEFINE new == Record("sending", rec.note, rec.idx, rec.todo, rec.due, rec.reply)
    <3>1. UNCHANGED <<file, kept>> /\ call' = [call EXCEPT ![c] = GoTo(rec, "sending")]
      BY <2>1, <2>7 DEF M!Stores, M!Stay, GoTo
    <3>2. GoTo(rec, "sending") = new
      BY <2>3, CallWent
    <3>3. backend \in M!Managed
      BY <2>2, <2>7 DEF MemoryInv, M!Backends
    <3> HIDE DEF rec
    <3>4. Owed(new, backend, DOMAIN file' \cup human.removed, facts')
      BY <2>3, <3>3, OwedThen
    <3> HIDE DEF new
    <3> QED BY <2>2, <3>1, <3>2, <3>4, OneCallMoves DEF MemoryInv
  <2> QED BY <2>4, <2>5, <2>6, <2>7
<1>8. ASSUME NEW c \in Calls, M!Embedded(c) PROVE MemoryInv'
  <2> DEFINE rec == call[c]
  <2>1. /\ rec.at = "embedding" /\ backend # "none" /\ M!Reply(c, Remembered)
        /\ DOMAIN index' = DOMAIN rec.idx \cup {rec.note} /\ kept' = kept \cup ({rec.note} \ human.removed)
        /\ UNCHANGED <<backend, file, events, facts, human>>
    BY <1>8, BagMoves DEF M!Embedded, M!At, M!Promise
  <2>2. /\ DOMAIN rec.idx \subseteq Notes /\ rec.note \in Notes /\ backend = "vector"
        /\ rec.note \in DOMAIN file \cup human.removed
    BY <2>1 DEF MemoryInv, Owed
  <2>3. PICK new : call' = [call EXCEPT ![c] = new] /\ Owed(new, backend, DOMAIN file' \cup human.removed, facts')
    BY <2>1, Replies
  <2>4. /\ backend \notin M!Managed /\ kept' \subseteq DOMAIN file' /\ kept' \subseteq Notes
        /\ DOMAIN index' \subseteq Notes
    BY <2>1, <2>2 DEF M!Managed, MemoryInv
  <2> QED BY <2>1, <2>3, <2>4, OneCallMoves DEF MemoryInv
<1>9. ASSUME NEW c \in Calls, M!Recall(c) \/ M!FailsOpen(c) PROVE MemoryInv'
  <2> DEFINE rec == call[c]
  <2>1. UNCHANGED <<backend, file, index, events, facts, human, kept>> /\ backend # "none"
    BY <1>9 DEF M!Recall, M!FailsOpen, M!At
  <2>2. CallShaped(rec) /\ DOMAIN rec.idx \subseteq Notes /\ DOMAIN rec.todo \subseteq Notes
    BY DEF MemoryInv, Owed
  <2>3. CASE M!Recall(c) /\ backend \in M!Managed
    <3> DEFINE new == Record("recalling", rec.note, rec.idx, rec.todo, facts, rec.reply)
    <3>1. call' = [call EXCEPT ![c] = WithDue(GoTo(rec, "recalling"), facts)]
      BY <2>3 DEF M!Recall, M!Stay, WithDue, GoTo
    <3>2. WithDue(GoTo(rec, "recalling"), facts) = new
      BY <2>2, CallWent, CallField
    <3> HIDE DEF rec
    <3>3. Owed(new, backend, DOMAIN file' \cup human.removed, facts')
      BY <2>1, <2>2, <2>3, OwedThen
    <3> HIDE DEF new
    <3> QED BY <2>1, <3>1, <3>2, <3>3, OneCallMoves DEF MemoryInv
  <2>4. CASE ~(M!Recall(c) /\ backend \in M!Managed)
    <3>1. PICK due, reply : /\ call' = [call EXCEPT ![c] = Saying(WithDue(GoTo(rec, "done"), due), reply)]
                            /\ Answers(due, reply)
      <4>1. CASE M!Recall(c)
        <5>1. backend \in {"files", "vector"} /\ kept \in SUBSET DOMAIN file
          BY <2>1, <2>4, <4>1 DEF MemoryInv, M!Backends
        <5>2. call' = [call EXCEPT ![c] = Saying(WithDue(GoTo(rec, "done"), kept), M!All(file))]
          BY <2>4, <4>1 DEF M!Recall, M!Stay, Saying, WithDue, GoTo
        <5>3. Answers(kept, M!All(file))
          BY <5>1, AllAnswers
        <5> QED BY <5>2, <5>3
      <4>2. CASE M!FailsOpen(c)
        <5>1. call' = [call EXCEPT ![c] = Saying(WithDue(GoTo(rec, "done"), {}), M!All(M!EmptyBag))]
          BY <4>2 DEF M!FailsOpen, M!Stay, Saying, WithDue, GoTo
        <5>2. Answers({}, M!All(M!EmptyBag))
          BY AllAnswers
        <5> QED BY <5>1, <5>2
      <4> QED BY <1>9, <4>1, <4>2
    <3> DEFINE new == Record("done", rec.note, rec.idx, rec.todo, due, reply)
    <3>2. Saying(WithDue(GoTo(rec, "done"), due), reply) = new
      BY <2>2, CallWent, CallField
    <3> HIDE DEF rec
    <3>3. Owed(new, backend, DOMAIN file' \cup human.removed, facts')
      BY <2>2, <3>1, OwedThen
    <3> HIDE DEF new
    <3> QED BY <2>1, <3>1, <3>2, <3>3, OneCallMoves DEF MemoryInv
  <2> QED BY <2>3, <2>4
<1>10. ASSUME NEW c \in Calls, M!Search(c) PROVE MemoryInv'
  <2> DEFINE rec == call[c]
  <2>1. UNCHANGED <<backend, file, index, events, facts, human, kept>> /\ backend # "none"
    BY <1>10 DEF M!Search, M!At
  <2>2. CallShaped(rec) /\ DOMAIN rec.idx \subseteq Notes /\ DOMAIN rec.todo \subseteq Notes
    BY DEF MemoryInv, Owed
  <2>3. CASE backend = "files"
    <3> DEFINE all == M!All(file)
               new == Record("done", rec.note, rec.idx, rec.todo, kept, all)
    <3>1. call' = [call EXCEPT ![c] = Saying(WithDue(GoTo(rec, "done"), kept), all)]
      BY <1>10, <2>3 DEF M!Search, M!Stay, M!Managed, Saying, WithDue, GoTo
    <3>2. Saying(WithDue(GoTo(rec, "done"), kept), all) = new
      BY <2>2, CallWent, CallField
    <3>4. Answers(kept, all)
      BY <2>3, AllAnswers DEF MemoryInv
    <3> HIDE DEF rec, all
    <3>3. Owed(new, backend, DOMAIN file' \cup human.removed, facts')
      BY <2>2, <2>3, <3>4, OwedThen
    <3> HIDE DEF new
    <3> QED BY <2>1, <3>1, <3>2, <3>3, OneCallMoves DEF MemoryInv
  <2>4. CASE backend = "vector"
    <3> DEFINE missing == M!Missing(index)
               stands == IF DOMAIN missing = {} THEN "ranking" ELSE "indexing"
               due == DOMAIN file
               new == Record(stands, rec.note, index, missing, due, rec.reply)
    <3>1. call' = [call EXCEPT ![c] = WithTodo(WithIdx(WithDue(GoTo(rec, stands), due), index), missing)]
      BY <1>10, <2>4 DEF M!Search, M!Stay, M!Managed, M!BagToSet, WithTodo, WithIdx, WithDue, GoTo
    <3>2. WithTodo(WithIdx(WithDue(GoTo(rec, stands), due), index), missing) = new
      BY <2>2, CallWent, CallField
    <3>3. /\ stands = "ranking" => due \subseteq DOMAIN index
          /\ due \subseteq DOMAIN index \cup DOMAIN missing /\ DOMAIN missing \subseteq Notes
          /\ stands \in {"ranking", "indexing"} /\ DOMAIN index \subseteq Notes
      <4>1. DOMAIN missing = DOMAIN file \ DOMAIN index
        BY DEF M!Missing, M!BagToSet
      <4> HIDE DEF missing
      <4> QED BY <4>1 DEF MemoryInv
    <3> HIDE DEF rec, stands, due, missing
    <3>4. Owed(new, backend, DOMAIN file' \cup human.removed, facts')
      BY <2>2, <2>4, <3>3, OwedThen
    <3> HIDE DEF new
    <3> QED BY <2>1, <3>1, <3>2, <3>4, OneCallMoves DEF MemoryInv
  <2>5. CASE backend \in M!Managed
    <3> DEFINE new == Record("retrieving", rec.note, rec.idx, rec.todo, facts, rec.reply)
    <3>1. call' = [call EXCEPT ![c] = WithDue(GoTo(rec, "retrieving"), facts)]
      BY <1>10, <2>5 DEF M!Search, M!Stay, M!Managed, WithDue, GoTo
    <3>2. WithDue(GoTo(rec, "retrieving"), facts) = new
      BY <2>2, CallWent, CallField
    <3> HIDE DEF rec
    <3>3. Owed(new, backend, DOMAIN file' \cup human.removed, facts')
      BY <2>1, <2>2, <2>5, OwedThen
    <3> HIDE DEF new
    <3> QED BY <2>1, <3>1, <3>2, <3>3, OneCallMoves DEF MemoryInv
  <2> QED BY <2>1, <2>3, <2>4, <2>5 DEF MemoryInv, M!Backends
<1>11. ASSUME NEW c \in Calls, M!Indexed(c) PROVE MemoryInv'
  <2> DEFINE rec == call[c]
  <2>1. rec.at = "indexing" /\ backend # "none" /\ UNCHANGED <<backend, file, events, facts, human, kept>>
    BY <1>11 DEF M!Indexed, M!At
  <2>2. PICK n \in DOMAIN rec.todo :
          LET todo == M!Bag!BagRemove(rec.todo, n)
              idx  == M!Bag!BagAdd(rec.idx, n)
              full == DOMAIN todo = {}
          IN  /\ M!Stay(c, [rec EXCEPT !.at = IF full THEN "ranking" ELSE @, !.idx = idx, !.todo = todo])
              /\ index' = IF full THEN idx ELSE index
    BY <1>11 DEF M!Indexed, M!BagToSet
  <2> DEFINE todo == M!Bag!BagRemove(rec.todo, n)
             idx  == M!Bag!BagAdd(rec.idx, n)
             stands == IF DOMAIN todo = {} THEN "ranking" ELSE rec.at
             new == Record(stands, rec.note, idx, todo, rec.due, rec.reply)
  <2>3. call' = [call EXCEPT ![c] = WithTodo(WithIdx(GoTo(rec, stands), idx), todo)]
    BY <2>2 DEF M!Stay, WithTodo, WithIdx, GoTo
  <2>4. /\ CallShaped(rec) /\ DOMAIN rec.idx \subseteq Notes /\ DOMAIN rec.todo \subseteq Notes
        /\ backend = "vector" /\ rec.due \subseteq DOMAIN rec.idx \cup DOMAIN rec.todo
    BY <2>1 DEF MemoryInv, Owed
  <2>5. WithTodo(WithIdx(GoTo(rec, stands), idx), todo) = new
    BY <2>4, CallWent, CallField
  <2>9. /\ DOMAIN idx = DOMAIN rec.idx \cup {n} /\ DOMAIN todo \subseteq DOMAIN rec.todo
        /\ DOMAIN rec.todo \subseteq DOMAIN todo \cup {n}
    BY BagMoves
  <2>10. index' = IF DOMAIN todo = {} THEN idx ELSE index
    BY <2>2
  <2> HIDE DEF idx, todo
  <2>6. /\ stands = "ranking" => rec.due \subseteq DOMAIN idx
        /\ rec.due \subseteq DOMAIN idx \cup DOMAIN todo
        /\ DOMAIN idx \subseteq Notes /\ DOMAIN todo \subseteq Notes
        /\ stands \in {"ranking", "indexing"}
    BY <2>1, <2>4, <2>9
  <2>7. DOMAIN index' \subseteq Notes
    BY <2>4, <2>9, <2>10 DEF MemoryInv
  <2> HIDE DEF rec, stands
  <2>8. Owed(new, backend, DOMAIN file' \cup human.removed, facts')
    BY <2>4, <2>6, OwedThen
  <2> HIDE DEF new
  <2> QED BY <2>1, <2>3, <2>5, <2>7, <2>8, OneCallMoves DEF MemoryInv
<1>12. CASE OnWorkspace \/ OnSession \/ OnCredentials \/ OnPricing \/ OnSignIn
  BY <1>1, <1>12 DEF OnWorkspace, OnSession, OnCredentials, OnPricing, OnSignIn
<1>13. CASE OnMemory
  BY <1>2, <1>3, <1>4, <1>5, <1>6, <1>7, <1>8, <1>9, <1>10, <1>11, <1>13 DEF OnMemory, M!Next
<1> QED BY <1>1, <1>12, <1>13 DEF Next, vars

(* memory.ts, vector-memory.ts and the managed adapters: for any calls and    *)
(* notes, and whatever an answer may hold, however writes of file and index   *)
(* overlap, a search or recall finds what had been promised when it began and *)
(* all that it is owed besides, or returns as many lines as it may.           *)
THEOREM RememberedIsFoundHolds == Spec => []RememberedIsFound
<1>1. MemoryInv => RememberedIsFound
  BY DEF MemoryInv, Owed, Answers, RememberedIsFound, M!RememberedIsFound
<1> QED BY MemoryStart, MemoryStep, <1>1, PTL DEF Spec

-----------------------------------------------------------------------------
(***************************************************************************)
(* Money.  What each model costs; what is held for the calls under way,    *)
(* as the number of its units; and the books: a run was charged what its   *)
(* usage costs, and the row less what is held is the bill that was heard.  *)
(***************************************************************************)
Tariffs ==
  {P!Price(6, 24), P!Price(100, 500), P!Price(300, 1500), P!Price(30, 250), P!Price(50, 150)}

LEMMA PriceList ==
  /\ P!PriceOf(P!Nova) = P!Price(6, 24)       /\ P!PriceOf(P!Alias) = P!Price(100, 500)
  /\ P!PriceOf(P!Haiku) = P!Price(100, 500)   /\ P!PriceOf(P!Sonnet) = P!Price(300, 1500)
  /\ P!PriceOf(P!Gemini) = P!Price(30, 250)   /\ P!PriceOf(P!Llama) = P!Price(50, 150)
<1> DEFINE first(s) == CHOOSE i \in s : \A j \in s : i <= j
           exact(m) == {i \in DOMAIN P!PricePerMtok : P!PricePerMtok[i].key = m}
           within(m) == {i \in DOMAIN P!PricePerMtok : P!Includes(m, P!PricePerMtok[i].key)}
<1>1. \A n \in 1..4 : first({n}) = n
  OBVIOUS
<1>2. DOMAIN P!PricePerMtok = 1..4
  BY DEF P!PricePerMtok
<1>3. /\ P!PricePerMtok[1] = [key |-> P!Nova, price |-> P!Price(6, 24)]
      /\ P!PricePerMtok[2] = [key |-> P!Alias, price |-> P!Price(100, 500)]
      /\ P!PricePerMtok[3] = [key |-> "claude-sonnet", price |-> P!Price(300, 1500)]
      /\ P!PricePerMtok[4] = [key |-> P!Gemini, price |-> P!Price(30, 250)]
  BY DEF P!PricePerMtok, P!Alias
<1>4. \A m \in P!Models :
        P!PriceOf(m) = IF exact(m) # {} THEN P!PricePerMtok[first(exact(m))].price
                       ELSE IF within(m) # {} THEN P!PricePerMtok[first(within(m))].price
                       ELSE P!Default
  BY DEF P!PriceOf, P!Prices
<1>5. /\ exact(P!Nova) = {1} /\ exact(P!Alias) = {2} /\ exact(P!Gemini) = {4}
      /\ exact(P!Haiku) = {} /\ exact(P!Sonnet) = {} /\ exact(P!Llama) = {}
  BY <1>2, <1>3 DEF P!Nova, P!Alias, P!Haiku, P!Sonnet, P!Gemini, P!Llama
<1>6. within(P!Haiku) = {2} /\ within(P!Sonnet) = {3} /\ within(P!Llama) = {}
  BY <1>2, <1>3 DEF P!Includes, P!Nova, P!Alias, P!Haiku, P!Sonnet, P!Gemini, P!Llama
<1>7. /\ P!Nova \in P!Models /\ P!Alias \in P!Models /\ P!Gemini \in P!Models
      /\ P!Haiku \in P!Models /\ P!Sonnet \in P!Models /\ P!Llama \in P!Models
  BY DEF P!Models
<1> HIDE DEF first, exact, within
<1>8. /\ first({1}) = 1 /\ first({2}) = 2 /\ first({3}) = 3 /\ first({4}) = 4
      /\ P!PricePerMtok[1].price = P!Price(6, 24) /\ P!PricePerMtok[2].price = P!Price(100, 500)
      /\ P!PricePerMtok[3].price = P!Price(300, 1500) /\ P!PricePerMtok[4].price = P!Price(30, 250)
  BY <1>1, <1>3
<1>9. P!PriceOf(P!Nova) = P!Price(6, 24) /\ P!PriceOf(P!Gemini) = P!Price(30, 250)
  <2>1. /\ P!PriceOf(P!Nova) = P!PricePerMtok[first(exact(P!Nova))].price
        /\ P!PriceOf(P!Gemini) = P!PricePerMtok[first(exact(P!Gemini))].price
    BY ONLY <1>4, <1>5, <1>7
  <2> QED BY ONLY <1>5, <1>8, <2>1
<1>10. P!PriceOf(P!Alias) = P!Price(100, 500) /\ P!PriceOf(P!Haiku) = P!Price(100, 500)
  <2>1. /\ P!PriceOf(P!Alias) = P!PricePerMtok[first(exact(P!Alias))].price
        /\ P!PriceOf(P!Haiku) = P!PricePerMtok[first(within(P!Haiku))].price
    BY ONLY <1>4, <1>5, <1>6, <1>7
  <2> QED BY ONLY <1>5, <1>6, <1>8, <2>1
<1>11. P!PriceOf(P!Sonnet) = P!Price(300, 1500) /\ P!PriceOf(P!Llama) = P!Price(50, 150)
  <2>1. /\ P!PriceOf(P!Sonnet) = P!PricePerMtok[first(within(P!Sonnet))].price
        /\ P!PriceOf(P!Llama) = P!Default
    BY ONLY <1>4, <1>5, <1>6, <1>7
  <2> QED BY ONLY <1>6, <1>8, <2>1 DEF P!Default
<1> QED BY <1>9, <1>10, <1>11

(* Each run is charged at one of these, whatever the wire; and where the     *)
(* hook's table is not asked, at that of the model that answers.             *)
LEMMA Rates ==
  ASSUME NEW s \in P!Setups, NEW w \in P!Wanted(s)
  PROVE  /\ P!Ledger(s, w) \in Tariffs
         /\ P!PriceOf(P!Served(s, w)) \in Tariffs
         /\ P!PriceOf(P!PlatformModel(s.provider)) \in Tariffs
         /\ s.wire # "openai" => P!Ledger(s, w) = P!PriceOf(P!Served(s, w))
         /\ P!Inner(s, w) = P!PlatformModel(s.provider) =>
              P!Ledger(s, w) = P!PriceOf(P!PlatformModel(s.provider))
<1> DEFINE plat == P!PlatformModel(s.provider)
           base == P!Or(P!Named(s, w), plat)
<1>1. /\ s.wire \in {"direct", "bespoke", "openai"} /\ s.provider \in P!Providers
      /\ s.wire # "direct" => s.provider = "bedrock"
      /\ s.claim \in {None, P!Alias, P!Sonnet}
  BY DEF P!Setups, P!Providers
<1>2. plat \in {P!Nova, P!Gemini, P!Llama} /\ (s.provider = "bedrock" => plat = P!Nova)
  BY <1>1 DEF P!PlatformModel, P!Providers
<1>3. w \in {None, P!Alias, P!Sonnet}
  BY <1>1 DEF P!Wanted
<1>4. P!Named(s, w) \in {None, P!Alias, P!Sonnet, P!Haiku, P!Nova}
  BY <1>1, <1>2, <1>3 DEF P!Named, P!Or, P!Resolved
<1>5. base \in {P!Alias, P!Sonnet, P!Haiku, P!Nova, P!Gemini, P!Llama}
  BY <1>2, <1>4 DEF P!Or
<1>6. P!Inner(s, w) = IF s.provider = "bedrock" THEN base ELSE plat
  BY DEF P!Inner
<1>7. P!Served(s, w) = IF s.provider = "bedrock" THEN P!Resolved(base) ELSE plat
  BY DEF P!Served
<1> HIDE DEF plat, base
<1>8. P!Resolved(base) \in {P!Sonnet, P!Haiku, P!Nova, P!Gemini, P!Llama}
  BY <1>5 DEF P!Resolved
<1>9. P!PriceOf(P!Resolved(base)) = P!PriceOf(base)
  BY PriceList DEF P!Resolved
<1>10. \A m \in {P!Alias, P!Sonnet, P!Haiku, P!Nova, P!Gemini, P!Llama} :
         P!PriceOf(m) \in Tariffs /\ P!HookPriceOf(m) \in Tariffs
  BY PriceList DEF Tariffs, P!HookPriceOf, P!Default
<1>11. P!HookPriceOf(P!Nova) = P!PriceOf(P!Nova)
  BY DEF P!HookPriceOf
<1>12. P!Ledger(s, w) = IF s.wire = "openai" THEN P!HookPriceOf(P!Inner(s, w))
                        ELSE P!PriceOf(P!Inner(s, w))
  BY DEF P!Ledger
<1>13. /\ P!Inner(s, w) \in {P!Alias, P!Sonnet, P!Haiku, P!Nova, P!Gemini, P!Llama}
       /\ P!Served(s, w) \in {P!Alias, P!Sonnet, P!Haiku, P!Nova, P!Gemini, P!Llama}
       /\ P!PriceOf(P!Inner(s, w)) = P!PriceOf(P!Served(s, w))
  BY <1>2, <1>5, <1>6, <1>7, <1>8, <1>9
<1>14. P!Ledger(s, w) \in Tariffs /\ P!PriceOf(P!Served(s, w)) \in Tariffs
  BY <1>10, <1>12, <1>13
<1>15. P!PriceOf(plat) \in Tariffs
  BY <1>2, <1>10
<1>16. s.wire # "openai" => P!Ledger(s, w) = P!PriceOf(P!Served(s, w))
  BY <1>12, <1>13
<1>17. P!Inner(s, w) = plat => P!Ledger(s, w) = P!PriceOf(plat)
  BY <1>1, <1>2, <1>11, <1>12
<1> QED BY <1>14, <1>15, <1>16, <1>17 DEF plat

(* What usage costs: an amount, more for more, and added up like it. *)
LEMMA Costing ==
  ASSUME NEW t \in Tariffs, NEW u \in Nat \X Nat, NEW v \in Nat \X Nat
  PROVE  /\ P!Cost(t, u) \in Nat
         /\ P!Summed(u, v) \in Nat \X Nat
         /\ P!Cost(t, P!Summed(u, v)) = P!Cost(t, u) + P!Cost(t, v)
         /\ u[1] <= v[1] /\ u[2] <= v[2] => P!Cost(t, u) <= P!Cost(t, v)
         /\ v[1] >= 1 => P!Cost(t, v) >= 1
<1>1. /\ u = <<u[1], u[2]>> /\ u[1] \in Nat /\ u[2] \in Nat
      /\ v = <<v[1], v[2]>> /\ v[1] \in Nat /\ v[2] \in Nat
  OBVIOUS
<1>2. P!Summed(u, v) = <<u[1] + v[1], u[2] + v[2]>>
  BY DEF P!Summed
<1>3. \/ t.in = 6 /\ t.out = 24
      \/ t.in = 100 /\ t.out = 500
      \/ t.in = 300 /\ t.out = 1500
      \/ t.in = 30 /\ t.out = 250
      \/ t.in = 50 /\ t.out = 150
  BY DEF Tariffs, P!Price
<1>4. /\ P!Cost(t, u) = u[1] * t.in + u[2] * t.out
      /\ P!Cost(t, v) = v[1] * t.in + v[2] * t.out
      /\ P!Cost(t, P!Summed(u, v)) = (u[1] + v[1]) * t.in + (u[2] + v[2]) * t.out
  BY <1>2 DEF P!Cost
<1> QED
  <2>1. CASE t.in = 6 /\ t.out = 24
    BY <1>1, <1>2, <1>4, <2>1
  <2>2. CASE t.in = 100 /\ t.out = 500
    BY <1>1, <1>2, <1>4, <2>2
  <2>3. CASE t.in = 300 /\ t.out = 1500
    BY <1>1, <1>2, <1>4, <2>3
  <2>4. CASE t.in = 30 /\ t.out = 250
    BY <1>1, <1>2, <1>4, <2>4
  <2>5. CASE t.in = 50 /\ t.out = 150
    BY <1>1, <1>2, <1>4, <2>5
  <2> QED BY <1>3, <2>1, <2>2, <2>3, <2>4, <2>5

(* No adapter reports more than was used; and what was reserved covers what  *)
(* is used, but for the tokens of the prompt beyond its estimate.            *)
Expected == <<P!Estimate(Chars), MaxOut>>
Excess(used) == <<P!Beyond(used[1], P!Estimate(Chars)), 0>>

LEMMA ExpectedSome ==
  P!Estimate(Chars) \in Nat /\ Expected \in Nat \X Nat /\ Expected[1] >= 1
<1> USE WorkAssumption DEF P!PricingAssumption
<1>1. P!Estimate(Chars) \in Nat /\ P!Estimate(Chars) >= 1
  BY DEF P!Estimate
<1> QED BY <1>1 DEF Expected

LEMMA Usage ==
  ASSUME NEW s \in P!Setups, NEW used \in P!Used, NEW said \in P!Reported(s, used)
  PROVE  /\ used \in Nat \X Nat /\ said \in Nat \X Nat
         /\ said[1] <= used[1] /\ said[2] <= used[2]
         /\ Expected \in Nat \X Nat /\ Expected[1] >= 1 /\ Excess(used) \in Nat \X Nat
         /\ \A t \in Tariffs : P!Cost(t, said) <= P!Cost(t, Expected) + P!Cost(t, Excess(used))
<1> USE WorkAssumption DEF P!PricingAssumption
<1>1. used \in Nat \X Nat /\ used[2] <= MaxOut
  BY DEF P!Used
<1>2. said \in Nat \X Nat /\ said[1] <= used[1] /\ said[2] <= used[2]
  <2>1. \/ said = used \/ said = <<0, used[2]>> \/ said = <<0, 0>>
        \/ \E out \in 0 .. used[2] : said = <<used[1], out>>
    BY DEF P!Reported, P!FromOpenAi, P!FromBedrock, P!FromGemini, P!FromOllama
  <2> QED BY <1>1, <2>1
<1>3. P!Estimate(Chars) \in Nat
  BY ExpectedSome
<1>4. Expected \in Nat \X Nat /\ Expected[1] >= 1
  BY ExpectedSome
<1>5. Excess(used) \in Nat \X Nat
  BY <1>1, <1>3 DEF Excess, P!Beyond
<1>6. /\ said[1] <= P!Summed(Expected, Excess(used))[1]
      /\ said[2] <= P!Summed(Expected, Excess(used))[2]
  BY <1>1, <1>2, <1>3 DEF Expected, Excess, P!Beyond, P!Summed
<1>7. ASSUME NEW t \in Tariffs
      PROVE  P!Cost(t, said) <= P!Cost(t, Expected) + P!Cost(t, Excess(used))
  <2>1. /\ P!Summed(Expected, Excess(used)) \in Nat \X Nat
        /\ P!Cost(t, P!Summed(Expected, Excess(used))) = P!Cost(t, Expected) + P!Cost(t, Excess(used))
    BY <1>4, <1>5, Costing
  <2>2. P!Cost(t, said) <= P!Cost(t, P!Summed(Expected, Excess(used)))
    BY ONLY <1>2, <1>6, <2>1, Costing
  <2> QED BY <2>1, <2>2
<1> QED BY <1>1, <1>2, <1>4, <1>5, <1>7

(* What is held, as a number of units; and how it moves with one run. *)
UnitsHeld(f) == {u \in Runs \X (1 .. Cap) : u[2] <= f[u[1]]}
Held(f)      == Cardinality(UnitsHeld(f))

LEMMA HeldIsFinite ==
  ASSUME NEW f
  PROVE  IsFiniteSet(UnitsHeld(f)) /\ Held(f) \in Nat
<1>1. IsFiniteSet(Runs) /\ IsFiniteSet(1 .. Cap)
  BY WorkAssumption, FS_Interval DEF P!PricingAssumption
<1>2. IsFiniteSet(Runs \X (1 .. Cap))
  BY <1>1, FS_Product
<1>3. UnitsHeld(f) \in SUBSET (Runs \X (1 .. Cap))
  BY DEF UnitsHeld
<1> QED BY <1>2, <1>3, FS_Subset, FS_CardinalityType DEF Held

LEMMA HeldFromNone ==
  ASSUME NEW f \in [Runs -> 0 .. Cap], NEW r \in Runs
  PROVE  Held(f) = Held([f EXCEPT ![r] = 0]) + f[r]
<1> DEFINE g == [f EXCEPT ![r] = 0]
           One == {r} \X (1 .. f[r])
<1>1. f[r] \in 0 .. Cap /\ Cap \in Nat
  BY WorkAssumption DEF P!PricingAssumption
<1>2. \A q \in Runs : g[q] = IF q = r THEN 0 ELSE f[q]
  OBVIOUS
<1> HIDE DEF g
<1>3. UnitsHeld(f) = UnitsHeld(g) \cup One
  <2>1. ASSUME NEW u \in Runs \X (1 .. Cap)
        PROVE  u \in UnitsHeld(f) <=> u \in UnitsHeld(g) \cup One
    BY <1>1, <1>2 DEF UnitsHeld
  <2>2. One \subseteq Runs \X (1 .. Cap)
    BY <1>1
  <2> QED BY <2>1, <2>2 DEF UnitsHeld
<1>4. UnitsHeld(g) \cap One = {}
  BY <1>1, <1>2 DEF UnitsHeld
<1>5. IsFiniteSet({r}) /\ Cardinality({r}) = 1
  BY FS_Singleton
<1>6. IsFiniteSet(1 .. f[r]) /\ Cardinality(1 .. f[r]) = f[r]
  BY <1>1, FS_Interval
<1>7. IsFiniteSet(One) /\ Cardinality(One) = Cardinality({r}) * Cardinality(1 .. f[r])
  BY <1>5, <1>6, FS_Product
<1>8. Cardinality(One) = f[r]
  BY <1>1, <1>5, <1>6, <1>7
<1> HIDE DEF One
<1>9. IsFiniteSet(UnitsHeld(g)) /\ Held(g) \in Nat
  BY HeldIsFinite
<1>10. Cardinality(UnitsHeld(g) \cup One) = Cardinality(UnitsHeld(g)) + Cardinality(One) - Cardinality({})
  BY <1>4, <1>7, <1>9, FS_Union
<1>11. Cardinality({}) = 0
  BY FS_EmptySet
<1>12. Held(f) = Held(g) + f[r]
  BY <1>1, <1>3, <1>8, <1>9, <1>10, <1>11 DEF Held
<1> QED BY <1>12 DEF g

LEMMA HeldMoves ==
  ASSUME NEW f \in [Runs -> 0 .. Cap], NEW r \in Runs, NEW v \in 0 .. Cap
  PROVE  /\ [f EXCEPT ![r] = v] \in [Runs -> 0 .. Cap]
         /\ Held([f EXCEPT ![r] = v]) = Held(f) + v - f[r]
<1> DEFINE g == [f EXCEPT ![r] = v]
<1>1. g \in [Runs -> 0 .. Cap] /\ g[r] = v /\ [g EXCEPT ![r] = 0] = [f EXCEPT ![r] = 0]
  OBVIOUS
<1> HIDE DEF g
<1>2. Held(g) = Held([g EXCEPT ![r] = 0]) + v
  BY <1>1, HeldFromNone
<1>3. Held(f) = Held([f EXCEPT ![r] = 0]) + f[r]
  BY HeldFromNone
<1>4. Held([f EXCEPT ![r] = 0]) \in Nat /\ f[r] \in Int /\ v \in Int
  BY HeldIsFinite, WorkAssumption DEF P!PricingAssumption
<1>5. Held(g) = Held(f) + v - f[r]
  BY <1>1, <1>2, <1>3, <1>4
<1> QED BY <1>1, <1>5 DEF g

LEMMA HeldNothing == Held([r \in Runs |-> 0]) = 0
<1>1. UnitsHeld([r \in Runs |-> 0]) = {}
  BY DEF UnitsHeld
<1> QED BY <1>1, FS_EmptySet DEF Held

-----------------------------------------------------------------------------
(* Where a run stands in deployment s, and where the books do. *)
PricedRuns ==
  [at : {"idle", "thinking", "calling", "completed", "failed"},
   wanted : {None, P!Alias, P!Sonnet}, worst : 0 .. Cap, turns : 0 .. MaxTurns,
   usage : Nat \X Nat, charged : Nat, cost : Nat \cup {None}]

Told(s, rec) ==
  /\ rec \in PricedRuns
  /\ rec.at = "calling" => /\ rec.worst = P!Cost(P!Ledger(s, rec.wanted), Expected)
                           /\ rec.worst > 0 /\ rec.turns < MaxTurns
  /\ rec.at # "calling" => rec.worst = 0
  /\ rec.at = "idle" => rec.usage = <<0, 0>> /\ rec.charged = 0
  /\ rec.at # "idle" => /\ s \in P!Setups /\ rec.wanted \in P!Wanted(s)
                        /\ rec.charged = P!Cost(P!Ledger(s, rec.wanted), rec.usage)
  /\ rec.at = "completed" =>
       rec.cost = P!Cost(P!PriceOf(P!PlatformModel(s.provider)), rec.usage)

WorstOf(f) == [r \in Runs |-> f[r].worst]

MoneyInv ==
  /\ setup \in P!Setups \cup {None}
  /\ row \in Nat /\ bill \in Nat /\ unheard \in Nat /\ short \in Nat /\ unsettled \in Nat
  /\ DOMAIN run = Runs /\ \A r \in Runs : Told(setup, run[r])
  /\ setup = None => \A r \in Runs : run[r].at = "idle"
  /\ Held(WorstOf(run)) <= row
  /\ ~P!Mispriced(setup) => bill + Held(WorstOf(run)) <= row + unheard + unsettled
  /\ row <= Cap + short

LEMMA MoneyStart == Init => MoneyInv
<1> SUFFICES ASSUME Init PROVE MoneyInv
  OBVIOUS
<1> USE WorkAssumption DEF P!PricingAssumption
<1>1. /\ setup = None /\ row = 0 /\ bill = 0 /\ unheard = 0 /\ short = 0 /\ unsettled = 0
      /\ run = [r \in Runs |-> P!Idle]
  BY DEF Init, P!Init
<1>2. Told(None, P!Idle) /\ P!Idle.at = "idle" /\ P!Idle.worst = 0
  BY DEF Told, P!Idle, PricedRuns
<1>3. WorstOf(run) = [r \in Runs |-> 0]
  BY <1>1, <1>2 DEF WorstOf
<1>4. Held(WorstOf(run)) = 0
  BY <1>3, HeldNothing
<1> QED BY <1>1, <1>2, <1>4 DEF MoneyInv

(* One run moves to rec, and what is held with it. *)
LEMMA RunMoves ==
  ASSUME MoneyInv, NEW r \in Runs, NEW rec, NEW s, Told(s, rec), run' = [run EXCEPT ![r] = rec]
  PROVE  /\ DOMAIN run' = Runs /\ run'[r] = rec
         /\ \A q \in Runs : q # r => run'[q] = run[q]
         /\ Held(WorstOf(run')) = Held(WorstOf(run)) + rec.worst - run[r].worst
         /\ Held(WorstOf(run)) \in Nat /\ Held(WorstOf(run')) \in Nat
         /\ rec.worst \in Nat /\ run[r].worst \in Nat
<1>1. /\ DOMAIN run' = Runs /\ run'[r] = rec
      /\ \A q \in Runs : q # r => run'[q] = run[q]
  BY DEF MoneyInv
<1>2. \A q \in Runs : run[q].worst \in 0 .. Cap
  BY DEF MoneyInv, Told, PricedRuns
<1>3. rec.worst \in 0 .. Cap
  BY DEF Told, PricedRuns
<1>4. WorstOf(run) \in [Runs -> 0 .. Cap] /\ WorstOf(run)[r] = run[r].worst
  BY <1>2 DEF WorstOf
<1>5. WorstOf(run') = [WorstOf(run) EXCEPT ![r] = rec.worst]
  BY <1>1 DEF WorstOf
<1>6. Held([WorstOf(run) EXCEPT ![r] = rec.worst]) = Held(WorstOf(run)) + rec.worst - run[r].worst
  <2> DEFINE f == WorstOf(run)
             v == rec.worst
  <2>1. f \in [Runs -> 0 .. Cap] /\ v \in 0 .. Cap /\ f[r] = run[r].worst
    BY <1>3, <1>4
  <2> HIDE DEF f, v
  <2>2. Held([f EXCEPT ![r] = v]) = Held(f) + v - f[r]
    BY ONLY <2>1, r \in Runs, HeldMoves
  <2> QED BY <2>1, <2>2 DEF f, v
<1>7. /\ Held(WorstOf(run)) \in Nat /\ Held(WorstOf(run')) \in Nat
      /\ rec.worst \in Nat /\ run[r].worst \in Nat
  BY <1>2, <1>3, HeldIsFinite, WorkAssumption DEF P!PricingAssumption
<1> QED BY <1>1, <1>5, <1>6, <1>7

LEMMA HeldAtLeast ==
  ASSUME MoneyInv, NEW r \in Runs
  PROVE  run[r].worst \in Nat /\ Held(WorstOf(run)) \in Nat /\ run[r].worst <= Held(WorstOf(run))
<1>1. WorstOf(run) \in [Runs -> 0 .. Cap] /\ WorstOf(run)[r] = run[r].worst
  BY DEF MoneyInv, Told, PricedRuns, WorstOf
<1>2. Held(WorstOf(run)) = Held([WorstOf(run) EXCEPT ![r] = 0]) + run[r].worst
  BY <1>1, HeldFromNone
<1>3. run[r].worst \in Nat
  BY <1>1, WorkAssumption DEF P!PricingAssumption
<1> QED BY <1>2, <1>3, HeldIsFinite

(* A step of one run keeps the books if the row moves by no less than what   *)
(* is held, and by what the bill grows besides, unless that goes unheard or   *)
(* unsettled.                                                                *)
Booked(r, rec) ==
  /\ run' = [run EXCEPT ![r] = rec] /\ setup' = setup /\ setup # None
  /\ row' \in Nat /\ bill' \in Nat /\ unheard' \in Nat /\ short' \in Nat /\ unsettled' \in Nat
  /\ row' - row >= rec.worst - run[r].worst
  /\ ~P!Mispriced(setup) =>
       bill' - bill + (rec.worst - run[r].worst)
         <= (row' - row) + (unheard' - unheard) + (unsettled' - unsettled)
  /\ row' <= Cap + short'

LEMMA BooksMove ==
  ASSUME MoneyInv, NEW r \in Runs, NEW rec, Told(setup, rec), Booked(r, rec)
  PROVE  MoneyInv'
<1> USE DEF Booked
<1>1. /\ DOMAIN run' = Runs /\ run'[r] = rec
      /\ \A q \in Runs : q # r => run'[q] = run[q]
      /\ Held(WorstOf(run')) = Held(WorstOf(run)) + rec.worst - run[r].worst
      /\ Held(WorstOf(run)) \in Nat /\ Held(WorstOf(run')) \in Nat
      /\ rec.worst \in Nat /\ run[r].worst \in Nat
  BY RunMoves
<1>2. \A q \in Runs : Told(setup', run'[q])
  BY <1>1 DEF MoneyInv
<1>3. /\ row \in Nat /\ bill \in Nat /\ unheard \in Nat /\ unsettled \in Nat
      /\ Held(WorstOf(run)) <= row
      /\ ~P!Mispriced(setup) => bill + Held(WorstOf(run)) <= row + unheard + unsettled
  BY DEF MoneyInv
<1>4. Held(WorstOf(run')) <= row'
  BY <1>1, <1>3
<1>5. ~P!Mispriced(setup') => bill' + Held(WorstOf(run')) <= row' + unheard' + unsettled'
  <2> SUFFICES ASSUME ~P!Mispriced(setup)
               PROVE  bill' + Held(WorstOf(run')) <= row' + unheard' + unsettled'
    OBVIOUS
  <2>1. /\ bill + Held(WorstOf(run)) <= row + unheard + unsettled
        /\ bill' - bill + (rec.worst - run[r].worst)
             <= (row' - row) + (unheard' - unheard) + (unsettled' - unsettled)
    BY <1>3
  <2> QED BY <1>1, <1>3, <2>1
<1>6. setup' \in P!Setups \cup {None} /\ setup' # None
  BY DEF MoneyInv
<1> QED BY <1>1, <1>2, <1>4, <1>5, <1>6 DEF MoneyInv

(* What a call that is under way may turn out to cost. *)
LEMMA CallCosts ==
  ASSUME MoneyInv, NEW r \in Runs, setup # None, run[r].at = "calling",
         NEW used \in P!Used, NEW said \in P!Reported(setup, used)
  PROVE  /\ said \in Nat \X Nat
         /\ P!Charge(r, said) \in Nat /\ P!Billed(r, used) \in Nat /\ P!Billed(r, said) \in Nat
         /\ P!Billed(r, said) <= P!Billed(r, used)
         /\ P!Charge(r, Excess(used)) \in Nat
         /\ P!Charge(r, said) <= run[r].worst + P!Charge(r, Excess(used))
         /\ ~P!Mispriced(setup) => P!Charge(r, said) = P!Billed(r, said)
         /\ run[r].worst \in Nat /\ run[r].worst <= row
<1> DEFINE w == run[r].wanted
<1>1. /\ setup \in P!Setups /\ w \in P!Wanted(setup) /\ Told(setup, run[r])
      /\ run[r].worst = P!Cost(P!Ledger(setup, w), Expected)
  BY DEF MoneyInv, Told
<1>2. /\ used \in Nat \X Nat /\ said \in Nat \X Nat /\ said[1] <= used[1] /\ said[2] <= used[2]
      /\ Expected \in Nat \X Nat /\ Excess(used) \in Nat \X Nat
      /\ \A t \in Tariffs : P!Cost(t, said) <= P!Cost(t, Expected) + P!Cost(t, Excess(used))
  BY <1>1, Usage
<1>3. /\ P!Ledger(setup, w) \in Tariffs /\ P!PriceOf(P!Served(setup, w)) \in Tariffs
      /\ setup.wire # "openai" => P!Ledger(setup, w) = P!PriceOf(P!Served(setup, w))
  BY <1>1, Rates
<1>4. \A u : /\ P!Charge(r, u) = P!Cost(P!Ledger(setup, w), u)
             /\ P!Billed(r, u) = P!Cost(P!PriceOf(P!Served(setup, w)), u)
  BY DEF P!Charge, P!Billed
<1>5. ~P!Mispriced(setup) => P!Ledger(setup, w) = P!PriceOf(P!Served(setup, w))
  BY <1>1, <1>3 DEF P!Mispriced
<1> HIDE DEF w
<1>6. /\ P!Charge(r, said) \in Nat /\ P!Charge(r, Excess(used)) \in Nat
      /\ P!Charge(r, said) <= run[r].worst + P!Charge(r, Excess(used))
  BY ONLY <1>1, <1>2, <1>3, <1>4, Costing
<1>7. /\ P!Billed(r, used) \in Nat /\ P!Billed(r, said) \in Nat
      /\ P!Billed(r, said) <= P!Billed(r, used)
  <2> DEFINE t == P!PriceOf(P!Served(setup, w))
  <2>1. P!Billed(r, used) = P!Cost(t, used) /\ P!Billed(r, said) = P!Cost(t, said) /\ t \in Tariffs
    BY <1>3, <1>4
  <2> HIDE DEF t
  <2>2. P!Cost(t, used) \in Nat /\ P!Cost(t, said) \in Nat /\ P!Cost(t, said) <= P!Cost(t, used)
    BY ONLY <1>2, <2>1, Costing
  <2> QED BY ONLY <2>1, <2>2
<1>8. run[r].worst \in Nat /\ run[r].worst <= row
  <2>1. run[r].worst \in Nat /\ Held(WorstOf(run)) \in Nat /\ run[r].worst <= Held(WorstOf(run))
    BY HeldAtLeast
  <2>2. Held(WorstOf(run)) <= row /\ row \in Nat
    BY DEF MoneyInv
  <2> QED BY <2>1, <2>2
<1> QED BY <1>2, <1>4, <1>5, <1>6, <1>7, <1>8

LEMMA CostOfNothing == \A t \in Tariffs : P!Cost(t, <<0, 0>>) = 0
BY DEF Tariffs, P!Price, P!Cost

(* However a call is settled, or is not, the books are kept.                 *)
LEMMA SettlingKeeps ==
  ASSUME MoneyInv, NEW r \in Runs, setup # None, run[r].at = "calling", setup' = setup,
         NEW used \in P!Used, NEW said \in P!Reported(setup, used),
         P!Settled(r, used, said) \/ P!Unsettled(r, used, said),
         NEW rec, run' = [run EXCEPT ![r] = rec], rec.worst = 0
  PROVE  Booked(r, rec)
<1> DEFINE charge == P!Charge(r, said)
           billed == P!Billed(r, used)
           heard  == P!Billed(r, said)
           excess == P!Charge(r, Excess(used))
           over   == P!Beyond(charge, run[r].worst)
<1>1. /\ charge \in Nat /\ billed \in Nat /\ heard \in Nat /\ heard <= billed
      /\ excess \in Nat /\ charge <= run[r].worst + excess
      /\ ~P!Mispriced(setup) => charge = heard
      /\ run[r].worst \in Nat /\ run[r].worst <= row
  BY CallCosts
<1>2. /\ bill' = bill + billed /\ unheard' = unheard + billed - heard /\ short' = short + excess
      /\ \/ row' = row + charge - run[r].worst /\ unsettled' = unsettled
         \/ row' = row /\ unsettled' = unsettled + over
  BY DEF P!Settled, P!Unsettled, P!Spent, Excess
<1>3. over \in Nat /\ charge <= run[r].worst + over
  BY <1>1 DEF P!Beyond
<1>4. /\ row \in Nat /\ bill \in Nat /\ unheard \in Nat /\ short \in Nat /\ unsettled \in Nat
      /\ row <= Cap + short /\ Cap \in Nat
  BY WorkAssumption DEF MoneyInv, P!PricingAssumption
<1> HIDE DEF charge, billed, heard, excess, over
<1>5. CASE row' = row + charge - run[r].worst /\ unsettled' = unsettled
  BY <1>1, <1>2, <1>4, <1>5 DEF Booked
<1>6. CASE row' = row /\ unsettled' = unsettled + over
  BY <1>1, <1>2, <1>3, <1>4, <1>6 DEF Booked
<1> QED BY <1>2, <1>5, <1>6

LEMMA StartKeeps == ASSUME MoneyInv, NEW r \in Runs, P!Start(r) PROVE MoneyInv'
<1>1. PICK wanted \in P!Wanted(setup) :
        run' = [run EXCEPT ![r] = [run[r] EXCEPT !.at = "thinking", !.wanted = wanted]]
  BY DEF P!Start, P!Put
<1>2. /\ run[r].at = "idle" /\ setup # None /\ UNCHANGED <<setup, row, bill, unheard, short, unsettled>>
  BY DEF P!Start, P!At
<1> DEFINE rec == [run[r] EXCEPT !.at = "thinking", !.wanted = wanted]
<1>3. setup \in P!Setups /\ Told(setup, run[r])
  BY <1>2 DEF MoneyInv
<1>4. wanted \in {None, P!Alias, P!Sonnet}
  BY <1>3 DEF P!Wanted, P!Setups
<1>5. /\ rec \in PricedRuns /\ rec.at = "thinking" /\ rec.wanted = wanted /\ rec.worst = 0
      /\ rec.usage = <<0, 0>> /\ rec.charged = 0
  BY <1>2, <1>3, <1>4 DEF Told, PricedRuns
<1>6. P!Cost(P!Ledger(setup, wanted), <<0, 0>>) = 0
  BY <1>3, Rates, CostOfNothing
<1> HIDE DEF rec
<1>7. Told(setup, rec)
  BY <1>3, <1>5, <1>6 DEF Told
<1>8. run' = [run EXCEPT ![r] = rec] /\ run[r].worst = 0 /\ rec.worst = 0
  BY <1>1, <1>2, <1>3, <1>5 DEF rec, Told
<1>9. /\ row \in Nat /\ bill \in Nat /\ unheard \in Nat /\ short \in Nat /\ unsettled \in Nat
      /\ row <= Cap + short
  BY DEF MoneyInv
<1>10. Booked(r, rec)
  BY <1>2, <1>8, <1>9 DEF Booked
<1> QED BY <1>7, <1>10, BooksMove

LEMMA ReserveKeeps == ASSUME MoneyInv, NEW r \in Runs, P!Reserve(r) PROVE MoneyInv'
<1> DEFINE worst == P!Worst(r)
           rec == [run[r] EXCEPT !.at = "calling", !.worst = worst]
<1>1. /\ run[r].at = "thinking" /\ run[r].turns < MaxTurns
      /\ setup # None /\ row + worst <= Cap /\ row' = row + worst
      /\ run' = [run EXCEPT ![r] = rec] /\ UNCHANGED <<setup, bill, unheard, short, unsettled>>
  BY DEF P!Reserve, P!At, P!Put
<1>2. setup \in P!Setups /\ Told(setup, run[r]) /\ run[r].wanted \in P!Wanted(setup)
  BY <1>1 DEF MoneyInv, Told
<1>3. worst = P!Cost(P!Ledger(setup, run[r].wanted), Expected)
  BY DEF P!Worst, P!Charge, Expected
<1>4. Expected \in Nat \X Nat /\ Expected[1] >= 1
  BY ExpectedSome
<1>5. P!Ledger(setup, run[r].wanted) \in Tariffs
  BY <1>2, Rates
<1> HIDE DEF worst
<1>6. worst \in Nat /\ worst >= 1
  BY ONLY <1>3, <1>4, <1>5, Costing
<1>7. /\ row \in Nat /\ bill \in Nat /\ unheard \in Nat /\ short \in Nat /\ unsettled \in Nat
      /\ row <= Cap + short
      /\ Cap \in Nat
  BY WorkAssumption DEF MoneyInv, P!PricingAssumption
<1>8. worst \in 0 .. Cap
  BY <1>1, <1>6, <1>7
<1>9. /\ rec \in PricedRuns /\ rec.at = "calling" /\ rec.wanted = run[r].wanted
      /\ rec.worst = worst /\ rec.usage = run[r].usage /\ rec.charged = run[r].charged
      /\ rec.turns = run[r].turns
  BY <1>2, <1>8 DEF Told, PricedRuns
<1> HIDE DEF rec
<1>10. Told(setup, rec)
  BY <1>1, <1>2, <1>3, <1>6, <1>9 DEF Told
<1>11. run[r].worst = 0
  BY <1>1, <1>2 DEF Told
<1>12. Booked(r, rec)
  BY <1>1, <1>6, <1>7, <1>9, <1>11 DEF Booked
<1> QED BY <1>10, <1>12, BooksMove

LEMMA TurnedDownKeeps == ASSUME MoneyInv, NEW r \in Runs, P!TurnedDown(r) PROVE MoneyInv'
<1> DEFINE rec == [run[r] EXCEPT !.at = "failed"]
<1>1. /\ run[r].at = "thinking" /\ setup # None
      /\ run' = [run EXCEPT ![r] = rec] /\ UNCHANGED <<setup, row, bill, unheard, short, unsettled>>
  BY DEF P!TurnedDown, P!At, P!Put
<1>2. Told(setup, run[r])
  BY DEF MoneyInv
<1>3. /\ rec \in PricedRuns /\ rec.at = "failed" /\ rec.wanted = run[r].wanted
      /\ rec.worst = run[r].worst /\ rec.usage = run[r].usage /\ rec.charged = run[r].charged
  BY <1>2 DEF Told, PricedRuns
<1> HIDE DEF rec
<1>4. Told(setup, rec) /\ run[r].worst = 0
  BY <1>1, <1>2, <1>3 DEF Told
<1>5. /\ row \in Nat /\ bill \in Nat /\ unheard \in Nat /\ short \in Nat /\ unsettled \in Nat
      /\ row <= Cap + short
  BY DEF MoneyInv
<1>6. Booked(r, rec)
  BY <1>1, <1>3, <1>4, <1>5 DEF Booked
<1> QED BY <1>4, <1>6, BooksMove

LEMMA AnswerKeeps == ASSUME MoneyInv, NEW r \in Runs, P!Answer(r) PROVE MoneyInv'
<1>1. PICK used \in P!Used : \E said \in P!Reported(setup, used) :
        /\ P!Settled(r, used, said) \/ P!Unsettled(r, used, said)
        /\ P!Put(r, [run[r] EXCEPT !.at = "thinking", !.turns = @ + 1, !.worst = 0,
                     !.usage = P!Summed(@, said), !.charged = @ + P!Charge(r, said)])
  BY DEF P!Answer
<1>2. PICK said \in P!Reported(setup, used) :
        /\ P!Settled(r, used, said) \/ P!Unsettled(r, used, said)
        /\ P!Put(r, [run[r] EXCEPT !.at = "thinking", !.turns = @ + 1, !.worst = 0,
                     !.usage = P!Summed(@, said), !.charged = @ + P!Charge(r, said)])
  BY <1>1
<1> DEFINE rec == [run[r] EXCEPT !.at = "thinking", !.turns = @ + 1, !.worst = 0,
                     !.usage = P!Summed(@, said), !.charged = @ + P!Charge(r, said)]
<1>3. /\ run[r].at = "calling" /\ setup # None /\ setup' = setup /\ run' = [run EXCEPT ![r] = rec]
  BY <1>2 DEF P!Answer, P!At, P!Put
<1>4. /\ Told(setup, run[r]) /\ setup \in P!Setups /\ run[r].wanted \in P!Wanted(setup)
      /\ run[r] \in PricedRuns /\ run[r].turns < MaxTurns
      /\ run[r].charged = P!Cost(P!Ledger(setup, run[r].wanted), run[r].usage)
  BY <1>3 DEF MoneyInv, Told
<1>5. /\ said \in Nat \X Nat
      /\ P!Charge(r, said) \in Nat /\ P!Billed(r, used) \in Nat /\ P!Billed(r, said) \in Nat
      /\ P!Billed(r, said) <= P!Billed(r, used)
      /\ P!Charge(r, Excess(used)) \in Nat
      /\ P!Charge(r, said) <= run[r].worst + P!Charge(r, Excess(used))
      /\ ~P!Mispriced(setup) => P!Charge(r, said) = P!Billed(r, said)
      /\ run[r].worst \in Nat /\ run[r].worst <= row
  BY <1>3, CallCosts
<1>6. /\ run[r].usage \in Nat \X Nat /\ P!Ledger(setup, run[r].wanted) \in Tariffs
  BY <1>4, Rates DEF PricedRuns
<1>7. /\ P!Summed(run[r].usage, said) \in Nat \X Nat
      /\ P!Cost(P!Ledger(setup, run[r].wanted), P!Summed(run[r].usage, said))
           = run[r].charged + P!Charge(r, said)
  <2>1. P!Charge(r, said) = P!Cost(P!Ledger(setup, run[r].wanted), said)
    BY DEF P!Charge
  <2> DEFINE t == P!Ledger(setup, run[r].wanted)
             u == run[r].usage
  <2>2. u \in Nat \X Nat /\ t \in Tariffs /\ run[r].charged = P!Cost(t, u)
    BY <1>4, <1>6
  <2> HIDE DEF t, u
  <2>3. /\ P!Summed(u, said) \in Nat \X Nat
        /\ P!Cost(t, P!Summed(u, said)) = P!Cost(t, u) + P!Cost(t, said)
    BY ONLY <1>5, <2>2, Costing
  <2> QED BY <2>1, <2>2, <2>3 DEF t, u
<1>8. run[r].charged + P!Charge(r, said) \in Nat /\ run[r].turns + 1 \in 0 .. MaxTurns
  BY <1>4, <1>5, WorkAssumption DEF PricedRuns, P!PricingAssumption
<1>9. /\ rec \in PricedRuns /\ rec.at = "thinking" /\ rec.wanted = run[r].wanted /\ rec.worst = 0
      /\ rec.usage = P!Summed(run[r].usage, said)
      /\ rec.charged = run[r].charged + P!Charge(r, said)
  <2> DEFINE sum == P!Summed(run[r].usage, said)
             sofar == run[r].charged + P!Charge(r, said)
             new == [run[r] EXCEPT !.at = "thinking", !.turns = @ + 1, !.worst = 0,
                                   !.usage = sum, !.charged = sofar]
  <2>1. rec = new /\ sum \in Nat \X Nat /\ sofar \in Nat
    BY <1>7, <1>8
  <2>2. 0 \in 0 .. Cap
    BY WorkAssumption DEF P!PricingAssumption
  <2> HIDE DEF rec, sum, sofar
  <2>3. /\ new \in PricedRuns /\ new.at = "thinking" /\ new.wanted = run[r].wanted /\ new.worst = 0
        /\ new.usage = sum /\ new.charged = sofar
    BY ONLY <1>4, <1>8, <2>1, <2>2 DEF PricedRuns
  <2> QED BY ONLY <2>1, <2>3 DEF sum, sofar
<1> HIDE DEF rec
<1>10. Told(setup, rec)
  BY <1>4, <1>7, <1>9 DEF Told
<1>11. Booked(r, rec)
  BY <1>2, <1>3, <1>9, SettlingKeeps
<1> QED BY <1>10, <1>11, BooksMove

LEMMA CallFailsKeeps == ASSUME MoneyInv, NEW r \in Runs, P!CallFails(r) PROVE MoneyInv'
<1> DEFINE rec == [run[r] EXCEPT !.at = "failed", !.worst = 0]
<1>1. /\ run[r].at = "calling" /\ setup # None /\ setup' = setup /\ short' = short /\ unsettled' = unsettled
      /\ run' = [run EXCEPT ![r] = rec] /\ row' \in {row, row - run[r].worst}
  BY DEF P!CallFails, P!At, P!Put
<1>2. PICK lost \in {0} \cup {P!Billed(r, used) : used \in P!Used} :
        bill' = bill + lost /\ unheard' = unheard + lost
  BY DEF P!CallFails
<1>3. /\ Told(setup, run[r]) /\ setup \in P!Setups /\ run[r].wanted \in P!Wanted(setup)
      /\ run[r] \in PricedRuns
  BY <1>1 DEF MoneyInv, Told
<1>4. lost \in Nat
  <2>1. ASSUME NEW used \in P!Used PROVE P!Billed(r, used) \in Nat
    <3>1. used \in Nat \X Nat
      BY WorkAssumption DEF P!PricingAssumption, P!Used
    <3>2. P!PriceOf(P!Served(setup, run[r].wanted)) \in Tariffs
      BY <1>3, Rates
    <3>3. P!Cost(P!PriceOf(P!Served(setup, run[r].wanted)), used) \in Nat
      BY ONLY <3>1, <3>2, Costing
    <3> QED BY <3>3 DEF P!Billed
  <2> QED BY <1>2, <2>1
<1>5. 0 \in 0 .. Cap
  BY WorkAssumption DEF P!PricingAssumption
<1>6. /\ rec \in PricedRuns /\ rec.at = "failed" /\ rec.wanted = run[r].wanted /\ rec.worst = 0
      /\ rec.usage = run[r].usage /\ rec.charged = run[r].charged
  BY <1>3, <1>5 DEF PricedRuns
<1> HIDE DEF rec
<1>7. Told(setup, rec)
  BY <1>1, <1>3, <1>6 DEF Told
<1>8. /\ row \in Nat /\ bill \in Nat /\ unheard \in Nat /\ short \in Nat /\ unsettled \in Nat
      /\ row <= Cap + short
      /\ Cap \in Nat /\ Held(WorstOf(run)) <= row
  BY WorkAssumption DEF MoneyInv, P!PricingAssumption
<1>9. run[r].worst \in Nat /\ run[r].worst <= row
  BY <1>8, HeldAtLeast
<1>10. /\ row' \in Nat /\ row' - row >= rec.worst - run[r].worst /\ row' <= Cap + short'
       /\ bill' \in Nat /\ unheard' \in Nat /\ short' \in Nat /\ unsettled' \in Nat
  BY <1>1, <1>2, <1>4, <1>6, <1>8, <1>9
<1>11. bill' - bill + (rec.worst - run[r].worst)
         <= (row' - row) + (unheard' - unheard) + (unsettled' - unsettled)
  BY <1>1, <1>2, <1>4, <1>6, <1>8, <1>9
<1>12. Booked(r, rec)
  BY <1>1, <1>10, <1>11 DEF Booked
<1> QED BY <1>7, <1>12, BooksMove

LEMMA AnswerLostKeeps == ASSUME MoneyInv, NEW r \in Runs, P!AnswerLost(r) PROVE MoneyInv'
<1> DEFINE rec == [run[r] EXCEPT !.at = "failed", !.worst = 0]
<1>1. /\ run[r].at = "calling" /\ setup # None /\ setup' = setup /\ run' = [run EXCEPT ![r] = rec]
  BY DEF P!AnswerLost, P!At, P!Put
<1>2. PICK used \in P!Used : \E said \in P!Reported(setup, used) :
        P!Settled(r, used, said) \/ P!Unsettled(r, used, said)
  BY DEF P!AnswerLost
<1>3. PICK said \in P!Reported(setup, used) : P!Settled(r, used, said) \/ P!Unsettled(r, used, said)
  BY <1>2
<1>4. /\ Told(setup, run[r]) /\ setup \in P!Setups /\ run[r].wanted \in P!Wanted(setup)
      /\ run[r] \in PricedRuns
  BY <1>1 DEF MoneyInv, Told
<1>5. 0 \in 0 .. Cap
  BY WorkAssumption DEF P!PricingAssumption
<1>6. /\ rec \in PricedRuns /\ rec.at = "failed" /\ rec.wanted = run[r].wanted /\ rec.worst = 0
      /\ rec.usage = run[r].usage /\ rec.charged = run[r].charged
  BY <1>4, <1>5 DEF PricedRuns
<1> HIDE DEF rec
<1>7. Told(setup, rec)
  BY <1>1, <1>4, <1>6 DEF Told
<1>8. Booked(r, rec)
  BY <1>1, <1>3, <1>6, SettlingKeeps
<1> QED BY <1>7, <1>8, BooksMove

LEMMA FinishKeeps == ASSUME MoneyInv, NEW r \in Runs, P!Finish(r) PROVE MoneyInv'
<1> DEFINE price == P!PriceOf(P!PlatformModel(setup.provider))
           cost == P!Cost(price, run[r].usage)
           rec == [run[r] EXCEPT !.at = "completed", !.cost = cost]
<1>1. /\ run[r].at = "thinking" /\ setup # None /\ run' = [run EXCEPT ![r] = rec]
      /\ UNCHANGED <<setup, row, bill, unheard, short, unsettled>>
  BY DEF P!Finish, P!At, P!Put
<1>2. /\ Told(setup, run[r]) /\ setup \in P!Setups /\ run[r].wanted \in P!Wanted(setup)
      /\ run[r] \in PricedRuns /\ run[r].usage \in Nat \X Nat
  BY <1>1 DEF MoneyInv, Told, PricedRuns
<1>3. price \in Tariffs
  BY <1>2, Rates
<1>4. cost \in Nat
  <2> HIDE DEF price
  <2> QED BY ONLY <1>2, <1>3, Costing DEF cost
<1> HIDE DEF cost
<1>5. /\ rec \in PricedRuns /\ rec.at = "completed" /\ rec.wanted = run[r].wanted
      /\ rec.worst = run[r].worst /\ rec.usage = run[r].usage /\ rec.charged = run[r].charged
      /\ rec.cost = cost
  BY <1>2, <1>4 DEF PricedRuns
<1> HIDE DEF rec
<1>6. Told(setup, rec) /\ run[r].worst = 0
  BY <1>1, <1>2, <1>5 DEF Told, cost
<1>7. /\ row \in Nat /\ bill \in Nat /\ unheard \in Nat /\ short \in Nat /\ unsettled \in Nat
      /\ row <= Cap + short
  BY DEF MoneyInv
<1>8. Booked(r, rec)
  BY <1>1, <1>5, <1>6, <1>7 DEF Booked
<1> QED BY <1>6, <1>8, BooksMove

LEMMA MoneyStep == MoneyInv /\ [Next]_vars => MoneyInv'
<1> SUFFICES ASSUME MoneyInv, [Next]_vars PROVE MoneyInv'
  OBVIOUS
<1>1. CASE UNCHANGED pricing
  <2>1. /\ setup' = setup /\ row' = row /\ run' = run /\ bill' = bill /\ unheard' = unheard
        /\ short' = short /\ unsettled' = unsettled
    BY <1>1 DEF pricing
  <2> QED BY <2>1 DEF MoneyInv
<1>2. CASE OnPricing
  <2>1. CASE P!Deployed
    <3>1. /\ setup = None /\ setup' \in P!Setups
          /\ row' = row /\ run' = run /\ bill' = bill /\ unheard' = unheard /\ short' = short
          /\ unsettled' = unsettled
      BY <2>1 DEF P!Deployed
    <3>2. \A r \in Runs : run[r].at = "idle" /\ Told(setup, run[r])
      BY <3>1 DEF MoneyInv
    <3>3. \A r \in Runs : Told(setup', run[r])
      BY <3>2 DEF Told
    <3>4. ~P!Mispriced(setup)
      BY <3>1 DEF P!Mispriced
    <3>5. bill + Held(WorstOf(run)) <= row + unheard + unsettled
      BY <3>4 DEF MoneyInv
    <3> QED BY <3>1, <3>2, <3>3, <3>5 DEF MoneyInv
  <2>2. CASE \E r \in Runs : \/ P!Start(r) \/ P!Reserve(r) \/ P!TurnedDown(r) \/ P!Answer(r)
                             \/ P!AnswerLost(r) \/ P!CallFails(r) \/ P!Finish(r)
    BY <2>2, StartKeeps, ReserveKeeps, TurnedDownKeeps, AnswerKeeps, CallFailsKeeps,
       AnswerLostKeeps, FinishKeeps
  <2> QED BY <1>2, <2>1, <2>2 DEF OnPricing, P!Next
<1>3. OnMemory \/ OnWorkspace \/ OnSession \/ OnCredentials \/ OnSignIn => UNCHANGED pricing
  BY DEF OnMemory, OnWorkspace, OnSession, OnCredentials, OnSignIn
<1>4. UNCHANGED vars => UNCHANGED pricing
  BY DEF vars
<1> QED BY <1>1, <1>2, <1>3, <1>4 DEF Next

(* What the row, the bill, the cap and the records have to do with each      *)
(* other.                                                                    *)
LEMMA MoneyTold == MoneyInv => P!TypeOK /\ P!MoneyIsTold
<1> SUFFICES ASSUME MoneyInv PROVE P!TypeOK /\ P!MoneyIsTold
  OBVIOUS
<1>1. P!TypeOK
  <2>1. setup \in P!Setups \cup {None} /\ {row, bill, unheard, short, unsettled} \subseteq Nat
    BY DEF MoneyInv
  <2>2. ASSUME NEW r \in Runs
        PROVE  /\ run[r].turns \in 0 .. MaxTurns /\ run[r].worst \in 0 .. row
               /\ run[r].at = "calling" <=> run[r].worst > 0
    <3>1. run[r].worst \in Nat /\ Held(WorstOf(run)) \in Nat /\ run[r].worst <= Held(WorstOf(run))
      BY HeldAtLeast
    <3>2. Held(WorstOf(run)) <= row /\ row \in Nat /\ Told(setup, run[r])
      BY DEF MoneyInv
    <3> QED BY <3>1, <3>2 DEF Told, PricedRuns
  <2> QED BY <2>1, <2>2 DEF P!TypeOK
<1>2. P!RowCoversBill
  <2>1. Held(WorstOf(run)) \in Nat
    BY HeldIsFinite
  <2> QED BY <2>1 DEF MoneyInv, P!RowCoversBill
<1>3. P!CapGivesWay
  BY DEF MoneyInv, P!CapGivesWay
<1>4. P!CostIsCharged
  <2> SUFFICES ASSUME NEW r \in Runs, run[r].at = "completed",
                      P!Inner(setup, run[r].wanted) = P!PlatformModel(setup.provider)
               PROVE  run[r].cost = run[r].charged
    BY DEF P!CostIsCharged
  <2>1. /\ setup \in P!Setups /\ run[r].wanted \in P!Wanted(setup)
        /\ run[r].charged = P!Cost(P!Ledger(setup, run[r].wanted), run[r].usage)
        /\ run[r].cost = P!Cost(P!PriceOf(P!PlatformModel(setup.provider)), run[r].usage)
    BY DEF MoneyInv, Told
  <2>2. P!Ledger(setup, run[r].wanted) = P!PriceOf(P!PlatformModel(setup.provider))
    BY <2>1, Rates
  <2> QED BY <2>1, <2>2
<1> QED BY <1>1, <1>2, <1>3, <1>4 DEF P!MoneyIsTold

-----------------------------------------------------------------------------
(***************************************************************************)
(* Types.  Each part keeps its own; those of memory and of the money books *)
(* follow from what was shown of them above.                               *)
(***************************************************************************)
LEMMA WorkStart == Init => W!TypeOK
BY DEF Init, W!Init, W!TypeOK, W!Nothing, W!InRepo, W!InBox

LEMMA WorkStep == W!TypeOK /\ [Next]_vars => W!TypeOK'
<1> SUFFICES ASSUME W!TypeOK, [Next]_vars PROVE W!TypeOK'
  OBVIOUS
<1> USE WorkAssumption DEF W!CoderAssumption
<1>1. CASE UNCHANGED workspace
  BY <1>1 DEF workspace, W!TypeOK
<1>2. CASE W!Clone
  <2>1. PICK local \in BOOLEAN, files \in [W!Paths -> W!InRepo], own \in SUBSET Native :
          /\ globbed' = local /\ repo' = files
          /\ preexisting' = own \ Vendored
          /\ baseline' = {p \in W!Paths : files[p] \in {"text", "notUtf8"}}
          /\ box' = [p \in W!Paths |-> CASE files[p] = "text"    -> "text"
                                         [] files[p] = "notUtf8" -> "mangled"
                                         [] OTHER -> IF p \in own THEN "native" ELSE "none"]
    BY <1>2 DEF W!Clone
  <2>2. phase' = "working" /\ UNCHANGED <<branch, theirs, unread>>
    BY <1>2 DEF W!Clone
  <2>3. \A p \in W!Paths : box'[p] \in W!InBox
    BY <2>1 DEF W!InBox
  <2>4. box' \in [W!Paths -> W!InBox]
    BY <2>1, <2>3
  <2>5. preexisting' \subseteq W!Paths /\ baseline' \subseteq W!Paths
    BY <2>1
  <2> QED BY <2>1, <2>2, <2>4, <2>5 DEF W!TypeOK
<1>3. CASE W!CloneThrows \/ W!FinalizeThrows
  BY <1>3 DEF W!CloneThrows, W!FinalizeThrows, W!TypeOK
<1>4. ASSUME NEW p \in W!Paths, W!AgentWrites(p) PROVE W!TypeOK'
  <2>1. PICK content \in W!InBox : box' = [box EXCEPT ![p] = content]
    BY <1>4 DEF W!AgentWrites, W!InBox
  <2>2. /\ theirs' = theirs \cup {p}
        /\ UNCHANGED <<phase, globbed, repo, preexisting, baseline, branch, unread>>
    BY <1>4 DEF W!AgentWrites
  <2> QED BY <2>1, <2>2 DEF W!TypeOK
<1>5. CASE W!Finalize
  <2>1. PICK failing \in W!Failing, present \in W!Present :
          /\ unread' = failing \cup W!LeftOut(present)
          /\ UNCHANGED branch \/ branch' = W!Entries(present, failing)
    BY <1>5 DEF W!Finalize
  <2>2. /\ W!Found(box) \subseteq W!Paths /\ W!Listed(box) \subseteq W!Found(box)
        /\ W!There(box) \subseteq W!Paths
    BY DEF W!Found, W!Listed, W!There, W!TypeOK
  <2>3. present \subseteq W!Paths
    BY <2>2, Taken
  <2>4. DOMAIN branch' \subseteq W!Paths
    <3>1. DOMAIN W!Entries(present, failing) \subseteq W!Paths
      BY <2>3 DEF W!Entries, W!Deleted, W!Unlisted, W!Written, W!Rewritten, W!Considered, W!TypeOK
    <3> QED BY <2>1, <3>1 DEF W!TypeOK
  <2>5. unread' \subseteq W!Paths
    BY <2>1, <2>2 DEF W!Failing, W!LeftOut
  <2>6. phase' = "ended" /\ UNCHANGED <<globbed, repo, box, preexisting, baseline, theirs>>
    BY <1>5 DEF W!Finalize
  <2> QED BY <2>4, <2>5, <2>6 DEF W!TypeOK
<1>6. CASE OnWorkspace
  BY <1>2, <1>3, <1>4, <1>5, <1>6 DEF OnWorkspace, W!Next
<1> QED BY <1>1, <1>6 DEF Next, OnMemory, OnSession, OnCredentials, OnPricing, OnSignIn, vars

LEMMA MemoryTyped == MemoryInv => M!TypeOK
BY DEF MemoryInv, Owed, M!TypeOK, M!BagToSet

LEMMA JobTyped == JobInv => S!TypeOK
BY DEF JobInv, Accounted, Records, S!TypeOK, S!Kinds

(* Callers that share have one purchase under way while one is pending, and  *)
(* none else.                                                                *)
OnePurchase ==
  C!Shares(policy) => IF pending = None THEN purchases = {} ELSE \E p : purchases = {p}

PurchaseInv ==
  /\ policy \in C!Policies \cup {"none"} /\ clock \in 0 .. Horizon
  /\ pending \in Callers \cup {None} /\ failures \in 0 .. Failures
  /\ OnePurchase

LEMMA PurchaseStart == Init => PurchaseInv
BY WorkAssumption DEF C!CacheAssumption, Init, C!Empty, C!Policies, PurchaseInv, OnePurchase

LEMMA PurchaseStep == PurchaseInv /\ [Next]_vars => PurchaseInv'
<1> SUFFICES ASSUME PurchaseInv, [Next]_vars PROVE PurchaseInv'
  OBVIOUS
<1> USE WorkAssumption DEF C!CacheAssumption
<1>1. CASE UNCHANGED credentials
  BY <1>1 DEF credentials, PurchaseInv, OnePurchase
<1>2. CASE C!Tick
  <2>1. /\ clock' = clock + 1 /\ clock < Horizon
        /\ UNCHANGED <<policy, pending, purchases, failures>>
    BY <1>2 DEF C!Tick
  <2>2. clock' \in 0 .. Horizon
    BY <2>1 DEF PurchaseInv
  <2> QED BY <2>1, <2>2 DEF PurchaseInv, OnePurchase, C!Shares
<1>3. ASSUME NEW c \in Callers, C!Hit(c) \/ C!Joins(c) \/ C!Used(c) PROVE PurchaseInv'
  BY <1>3 DEF C!Hit, C!Joins, C!Used, PurchaseInv, OnePurchase
<1>4. ASSUME NEW c \in Callers, C!Buys(c) PROVE PurchaseInv'
  <2>1. /\ C!Shares(policy) => pending = None
        /\ pending' = IF C!Shares(policy) THEN c ELSE None
        /\ purchases' = purchases \cup {[by |-> c, at |-> clock]}
        /\ UNCHANGED <<policy, clock, failures>>
    BY <1>4 DEF C!Buys
  <2>2. ASSUME C!Shares(policy) PROVE pending' # None /\ \E p : purchases' = {p}
    BY <2>1, <2>2 DEF PurchaseInv, OnePurchase
  <2> QED BY <2>1, <2>2 DEF PurchaseInv, OnePurchase, C!Shares
<1>5. ASSUME NEW p \in purchases, C!Answered(p) \/ C!Failed(p) PROVE PurchaseInv'
  <2>1. /\ pending' = None /\ purchases' = purchases \ {p}
        /\ UNCHANGED failures \/ (failures < Failures /\ failures' = failures + 1)
        /\ UNCHANGED <<policy, clock>>
    BY <1>5, Zenon DEF C!Answered, C!Failed, C!Settled
  <2>2. C!Shares(policy) => purchases' = {}
    BY <2>1 DEF PurchaseInv, OnePurchase
  <2> QED BY <2>1, <2>2 DEF PurchaseInv, OnePurchase, C!Shares
<1>6. CASE OnCredentials
  BY <1>2, <1>3, <1>4, <1>5, <1>6 DEF OnCredentials, C!Next
<1> QED BY <1>1, <1>6 DEF Next, OnMemory, OnWorkspace, OnSession, OnPricing, OnSignIn, vars

LEMMA PurchaseTyped == CacheInv /\ PurchaseInv => C!TypeOK
<1> SUFFICES ASSUME CacheInv, PurchaseInv PROVE C!TypeOK
  OBVIOUS
<1>1. \A X : C!Cardinality(X) = Cardinality(X)
  BY DEF C!Cardinality, Cardinality
<1>2. ASSUME C!Shares(policy) PROVE Cardinality(purchases) <= 1
  <2>1. CASE purchases = {}
    BY <2>1, FS_EmptySet
  <2>2. CASE \E p : purchases = {p}
    BY <2>2, FS_Singleton
  <2> QED BY <1>2, <2>1, <2>2 DEF PurchaseInv, OnePurchase
<1>3. \A c \in Callers : caller[c].at \in {"idle", "waits", "has"}
  BY DEF CacheInv
<1> QED BY <1>1, <1>2, <1>3 DEF PurchaseInv, C!TypeOK

(* What is on its way to the token endpoint carries a code that was issued.  *)
SignInv ==
  /\ I!TypeOK /\ page \in 0 .. attempts
  /\ codes \subseteq [of : Nat, nr : Nat]
  /\ exchange # None => exchange.code \in codes

LEMMA SignStart == Init => SignInv
BY WorkAssumption DEF I!SignAssumption, Init, I!Empty, I!TypeOK, SignInv

LEMMA IssuedTyped ==
  ASSUME CodeInv, NEW n \in Nat PROVE I!Issued(n) \in [of : Nat, nr : Nat]
<1>1. CodesOf(n, codes) \subseteq codes
  BY DEF CodesOf
<1>2. Cardinality(CodesOf(n, codes)) \in Nat
  BY <1>1, FS_Subset, FS_CardinalityType DEF CodeInv, Numbered
<1>3. I!Issued(n) = [of |-> n, nr |-> Cardinality(CodesOf(n, codes))]
  BY SameCount, Zenon DEF I!Issued, CodesOf
<1> QED BY <1>2, <1>3

(* Something is under way once a code is sent. *)
LEMMA SendsTyped ==
  ASSUME NEW code \in [of : Nat, nr : Nat], NEW verifier \in Nat, I!Sends(code, verifier)
  PROVE  exchange' # None /\ exchange'.code = code
<1>1. exchange' = [code |-> code, verifier |-> verifier]
  BY DEF I!Sends
<1>2. exchange' \in I!Exchanges
  BY <1>1 DEF I!Exchanges
<1> QED BY <1>1, <1>2, WorkAssumption DEF I!SignAssumption

LEMMA SignStep == CodeInv /\ SignInv /\ [Next]_vars => SignInv'
<1> SUFFICES ASSUME CodeInv, SignInv, [Next]_vars PROVE SignInv'
  OBVIOUS
<1> USE WorkAssumption DEF I!SignAssumption
<1>1. CASE UNCHANGED signin
  BY <1>1 DEF signin, SignInv, I!TypeOK
<1>2. CASE I!Click \/ I!Begins
  <2>1. attempts < MaxLogins /\ attempts' = attempts + 1
    BY <1>2 DEF I!Click, I!Begins
  <2>2. /\ keys' \in {keys, attempts'} /\ serving' \in {serving, attempts'}
        /\ clicks' \in {clicks, clicks \cup {attempts'}}
        /\ UNCHANGED <<client, page, url, codes, spent, exchange>>
        /\ place # "exchange" /\ place' \in {place, "waiting", "error"}
    BY <1>2 DEF I!Click, I!Begins, I!issuer, I!wire, I!script
  <2>3. attempts \in Nat
    BY DEF SignInv, I!TypeOK
  <2>4. 0 .. attempts \subseteq 0 .. attempts' /\ attempts' \in 1 .. attempts' /\ attempts' \in 0 .. MaxLogins
    BY <2>1, <2>3
  <2>5. 1 .. attempts \subseteq 1 .. attempts'
    BY <2>1, <2>3
  <2>6. keys' \in 0 .. attempts' /\ serving' \in 0 .. attempts' /\ page' \in 0 .. attempts'
    BY <2>2, <2>3, <2>4 DEF SignInv, I!TypeOK
  <2>7. clicks' \subseteq 1 .. attempts'
    BY <2>2, <2>4, <2>5 DEF SignInv, I!TypeOK
  <2> QED BY <2>2, <2>4, <2>6, <2>7 DEF SignInv, I!TypeOK
<1>3. CASE I!Navigates \/ I!Declines \/ I!Wanders \/ I!LoadFails \/ I!Unauthorized \/ I!Logout
  <2>1. /\ page' \in 0 .. attempts /\ clicks' \in {clicks, {}} /\ url' \in {url, None}
        /\ UNCHANGED <<client, attempts, keys, serving, codes, spent, exchange>>
        /\ place # "exchange" /\ place' \in {"away", "load", "error", "signin"}
    BY <1>3 DEF I!Navigates, I!Declines, I!Wanders, I!LoadFails, I!Unauthorized, I!Logout,
       I!issuer, I!wire, I!script, SignInv, I!TypeOK
  <2> QED BY <2>1 DEF SignInv, I!TypeOK
<1>4. CASE I!Consents
  <2>1. /\ codes' = codes \cup {I!Issued(page)} /\ url' = I!Issued(page) /\ page' = 0
        /\ place = "away" /\ place' = "load"
        /\ UNCHANGED <<client, attempts, keys, clicks, serving, spent, exchange>>
    BY <1>4 DEF I!Consents, I!wire, I!script
  <2>2. I!Issued(page) \in [of : Nat, nr : Nat]
    BY IssuedTyped DEF SignInv, I!TypeOK
  <2> QED BY <2>1, <2>2 DEF SignInv, I!TypeOK
<1>5. CASE I!Load
  <2>1. /\ place = "load" /\ url' = None /\ keys' \in {keys, 0}
        /\ UNCHANGED <<client, attempts, clicks, page, serving, codes, spent>>
    BY <1>5 DEF I!Load, I!Callback, I!issuer, I!script
  <2>2. CASE UNCHANGED exchange /\ place' \in {"in", "signin", "error"}
    BY <2>1, <2>2 DEF SignInv, I!TypeOK
  <2>3. CASE url # None /\ place' = "exchange" /\ I!Sends(url, keys)
    <3>1. url \in codes /\ keys \in Nat
      BY <2>3 DEF SignInv, I!TypeOK
    <3>2. exchange' # None /\ exchange'.code = url
      BY <2>3, <3>1, SendsTyped DEF SignInv
    <3> QED BY <2>1, <2>3, <3>1, <3>2 DEF SignInv, I!TypeOK
  <2> QED BY <1>5, <2>2, <2>3 DEF I!Load, I!Callback, I!Shown, I!wire
<1>6. CASE I!Reload
  <2>1. /\ place' = "load" /\ clicks' = {} /\ exchange' = None
        /\ UNCHANGED <<client, attempts, keys, page, url, codes, serving>>
    BY <1>6 DEF I!Reload, I!script
  <2>2. spent' = spent \/ (exchange # None /\ spent' = spent \cup {exchange.code})
    BY <1>6 DEF I!Reload
  <2> QED BY <2>1, <2>2 DEF SignInv, I!TypeOK
<1>7. ASSUME NEW n \in 1 .. attempts, I!Brings(n) PROVE SignInv'
  <2>1. /\ codes' = codes \cup {I!Issued(n)}
        /\ UNCHANGED <<client, attempts, keys, clicks, page, url, spent, serving>>
    BY <1>7 DEF I!Brings
  <2>2. I!Issued(n) \in [of : Nat, nr : Nat] /\ keys \in Nat
    BY IssuedTyped DEF SignInv, I!TypeOK
  <2>3. CASE place' = "exchange" /\ I!Sends(I!Issued(n), keys)
    <3>1. exchange' # None /\ exchange'.code = I!Issued(n)
      BY <2>2, <2>3, SendsTyped
    <3> QED BY <2>1, <2>2, <2>3, <3>1 DEF SignInv, I!TypeOK
  <2>4. CASE place = "waiting" /\ place' = "error" /\ UNCHANGED exchange
    BY <2>1, <2>2, <2>4 DEF SignInv, I!TypeOK
  <2>5. CASE UNCHANGED <<place, exchange>>
    BY <2>1, <2>2, <2>5 DEF SignInv, I!TypeOK
  <2> QED BY <1>7, <2>3, <2>4, <2>5 DEF I!Brings, I!wire
<1>8. CASE I!TimerFires
  BY <1>8 DEF I!TimerFires, I!issuer, I!wire, SignInv, I!TypeOK
<1>9. CASE I!Answered \/ I!Unanswered
  <2>1. /\ exchange # None /\ exchange' = None /\ place' \in {"in", "error"}
        /\ spent' \in {spent, spent \cup {exchange.code}}
        /\ UNCHANGED <<client, attempts, keys, clicks, page, url, codes, serving>>
    BY <1>9 DEF I!Answered, I!Unanswered, I!script
  <2> QED BY <2>1 DEF SignInv, I!TypeOK
<1>10. CASE I!Lapses
  BY <1>10 DEF I!Lapses, I!issuer, I!wire, I!script, SignInv, I!TypeOK
<1>11. CASE OnSignIn
  BY <1>2, <1>3, <1>4, <1>5, <1>6, <1>7, <1>8, <1>9, <1>10, <1>11 DEF OnSignIn, I!Next
<1> QED BY <1>1, <1>11 DEF Next, OnMemory, OnWorkspace, OnSession, OnCredentials, OnPricing, vars

LEMMA PartStays == part \in Parts /\ [Next]_vars => part' \in Parts
BY DEF Next, OnMemory, OnWorkspace, OnSession, OnCredentials, OnPricing, OnSignIn, vars

(* loop.ts, messages.ts, spend-store.ts: for any tariffs' caps, any runs,     *)
(* turns and prompts, the row covers what the calls cost as far as anybody    *)
(* said, the cap is passed by no more than the prompts were underestimated    *)
(* by, and a run records what the gate charged; and every part around the     *)
(* run keeps its types.                                                       *)
THEOREM MoneyIsToldHolds == Spec => []MoneyIsTold
<1> DEFINE Inv == /\ part \in Parts
                  /\ MemoryInv
                  /\ W!TypeOK
                  /\ JobInv
                  /\ CacheInv
                  /\ PurchaseInv
                  /\ MoneyInv
                  /\ CodeInv
                  /\ SignInv
<1>1. Init => Inv
  BY MemoryStart, WorkStart, JobStart, CacheStart, PurchaseStart, MoneyStart, CodeStart, SignStart
     DEF Init
<1>2. Inv /\ [Next]_vars => Inv'
  BY PartStays, MemoryStep, WorkStep, JobStep, CacheStep, PurchaseStep, MoneyStep, CodeStep, SignStep
<1>3. Inv => MoneyIsTold
  <2>1. Inv => TypeOK
    BY MemoryTyped, JobTyped, PurchaseTyped, MoneyTold DEF TypeOK, SignInv
  <2> QED BY <2>1, MoneyTold DEF MoneyIsTold
<1> HIDE DEF Inv
<1> QED BY <1>1, <1>2, <1>3, PTL DEF Spec
===============================================================================
