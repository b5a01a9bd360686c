--------------------------------- MODULE SignIn ---------------------------------
(***************************************************************************)
(* How a person signs in: authorization code with PKCE, at the console (a  *)
(* page that leaves for the hosted UI and is loaded anew with the code in  *)
(* its address) or from a script (which listens on a local port for it).   *)
(* A login is a number, which stands for its state and its verifier; what  *)
(* the client keeps of it is all that survives until the code is back.     *)
(***************************************************************************)
EXTENDS Naturals, FiniteSets

CONSTANTS
  None,
  MaxLogins,  \* bound on the logins begun
  Mishaps     \* bound on what goes wrong, or is done for no reason

VARIABLES
  client,
  place,     \* of the page, or of the script's call
  attempts,  \* logins begun
  keys,      \* sessionStorage's verifier and state, or the call's; 0: none
  clicks,    \* logins on their way from the click to the navigation
  page,      \* the login whose hosted page is open
  url,       \* the code in the address bar, None if there is none
  exchange,  \* [code, verifier]: on its way to the token endpoint
  codes,     \* issued: [of, nr]
  spent,     \* those the token endpoint has redeemed
  sent,      \* history: the codes that were sent for exchange, with their verifiers
  token,     \* the login whose token is kept, and if it lives; None
  serving,   \* the login whose server holds the script's port; 0: nobody
  stopping,  \* that server is about to stop
  unopened,  \* history: logins for which no browser could be started
  resent,    \* history: a code was sent twice
  mishaps

(* What is sent is not what stands for nothing. *)
Exchanges == [code : [of : Nat, nr : Nat], verifier : Nat]
SignAssumption == MaxLogins \in Nat /\ None \notin Exchanges

vars == <<client, place, attempts, keys, clicks, page, url, exchange, codes, spent,
          sent, token, serving, stopping, unopened, resent, mishaps>>

issuer == <<codes, spent>>
wire   == <<exchange, sent, resent>>
script == <<serving, stopping, unopened>>

(* Nobody has signed in yet. *)
Empty ==
  /\ place = (IF client = "script" THEN "idle" ELSE "load") /\ attempts = 0 /\ keys = 0 /\ clicks = {} /\ page = 0
  /\ url = None /\ exchange = None /\ codes = {} /\ spent = {} /\ sent = {} /\ token = None
  /\ serving = 0 /\ stopping = FALSE /\ unopened = {} /\ resent = FALSE /\ mishaps = 0

Init == client \in {"console", "script"} /\ Empty

Mishap == mishaps < Mishaps /\ mishaps' = mishaps + 1

-----------------------------------------------------------------------------
(* The console.  login() stores its keys, hashes, and only then navigates: a *)
(* second click comes in between, and the two may navigate in either order.  *)
Click ==
  /\ client = "console" /\ place = "signin" /\ attempts < MaxLogins
  /\ attempts' = attempts + 1 /\ keys' = attempts' /\ clicks' = clicks \cup {attempts'}
  /\ UNCHANGED <<client, place, page, url, issuer, wire, token, script, mishaps>>

Navigates ==
  /\ client = "console" /\ place = "signin"
  /\ \E n \in clicks : page' = n
  /\ place' = "away" /\ clicks' = {}
  /\ UNCHANGED <<client, attempts, keys, url, issuer, wire, token, script, mishaps>>

(* The hosted UI sends the browser back with a code for the page's login, or *)
(* without one; the browser's history holds the pages of earlier logins.     *)
Issued(n) == [of |-> n, nr |-> Cardinality({c \in codes : c.of = n})]

Consents ==
  /\ client = "console" /\ place = "away"
  /\ codes' = codes \cup {Issued(page)} /\ url' = Issued(page)
  /\ place' = "load" /\ page' = 0
  /\ UNCHANGED <<client, attempts, keys, clicks, spent, wire, token, script, mishaps>>

Declines ==
  /\ client = "console" /\ place = "away" /\ Mishap
  /\ url' = None /\ place' = "load" /\ page' = 0
  /\ UNCHANGED <<client, attempts, keys, clicks, issuer, wire, token, script>>

Wanders ==
  /\ client = "console" /\ place \in {"signin", "error", "in"} /\ Mishap
  /\ \E n \in 1 .. attempts : page' = n
  /\ place' = "away" /\ clicks' = {} /\ url' = None
  /\ UNCHANGED <<client, attempts, keys, issuer, wire, token, script>>

(* currentIdentity(): the token kept, unless it has lapsed. *)
Current(kept) == kept # None /\ kept.lives

Shown(kept) == IF Current(kept) THEN "in" ELSE "signin"

Sends(code, verifier) ==
  /\ exchange' = [code |-> code, verifier |-> verifier]
  /\ resent' = (resent \/ \E s \in sent : s.code = code)
  /\ sent' = sent \cup {exchange'}

(* The page loads: without config.json it goes no further. *)
LoadFails ==
  /\ client = "console" /\ place = "load" /\ Mishap /\ place' = "error"
  /\ UNCHANGED <<client, attempts, keys, clicks, page, url, issuer, wire, token, script>>

(* Variant: the state that came back is not compared.                        *)
CallbackUnchecked ==
  /\ keys' = 0 /\ url' = None
  /\ IF keys = 0 THEN place' = "error" /\ UNCHANGED wire
     ELSE place' = "exchange" /\ Sends(url, keys)

(* completeLoginIfCallback(): the keys and the code are used up before either *)
(* is looked at.                                                             *)
Callback ==
  /\ keys' = 0 /\ url' = None
  /\ IF keys = 0 \/ url.of # keys THEN place' = "error" /\ UNCHANGED wire
     ELSE place' = "exchange" /\ Sends(url, keys)

Load ==
  /\ client = "console" /\ place = "load"
  /\ \/ url = None /\ place' = Shown(token) /\ UNCHANGED <<keys, url, wire>>
     \/ url # None /\ Callback
  /\ UNCHANGED <<client, attempts, clicks, page, issuer, token, script, mishaps>>

(* A reload forgets what the page was doing: an error's is the way out of it. *)
Reload ==
  /\ client = "console"
  /\ \/ place = "error" /\ UNCHANGED mishaps
     \/ place \in {"signin", "in", "exchange"} /\ Mishap
  /\ place' = "load" /\ clicks' = {} /\ exchange' = None
  /\ spent' \in {spent} \cup {spent \cup {exchange.code} : x \in {exchange} \ {None}}
  /\ UNCHANGED <<client, attempts, keys, page, url, codes, sent, resent, token, script>>

(* A 401, the token having lapsed or not: the token stays where it is. *)
Unauthorized ==
  /\ client = "console" /\ place = "in"
  /\ Mishap \/ (~Current(token) /\ UNCHANGED mishaps)
  /\ place' = "signin"
  /\ UNCHANGED <<client, attempts, keys, clicks, page, url, issuer, wire, token, script>>

Logout ==
  /\ client = "console" /\ place = "in" /\ Mishap
  /\ token' = None /\ place' = "load" /\ url' = None
  /\ UNCHANGED <<client, attempts, keys, clicks, page, issuer, wire, script>>

-----------------------------------------------------------------------------
(* The script.  browserLogin() takes the port, or throws; starts a browser,  *)
(* or throws, with the port taken and its address told to nobody; and waits. *)
Begins ==
  /\ client = "script" /\ place \in {"idle", "error", "in"} /\ attempts < MaxLogins
  /\ attempts' = attempts + 1
  /\ \/ serving # 0 /\ place' = "error" /\ UNCHANGED <<serving, keys, unopened>>
     \/ /\ serving = 0 /\ serving' = attempts' /\ keys' = attempts'
        /\ \/ place' = "waiting" /\ UNCHANGED unopened
           \/ place' = "error" /\ unopened' = unopened \cup {attempts'}
  /\ UNCHANGED <<client, clicks, page, url, issuer, wire, token, stopping, mishaps>>

StopScheduled(n) == stopping \/ n = serving

(* A browser tab, this login's or an earlier one's, brings a code to whoever *)
(* listens.  A promise settles once; only a match stops the server.          *)
Brings(n) ==
  /\ client = "script" /\ serving # 0 /\ n \notin unopened /\ codes' = codes \cup {Issued(n)}
  /\ Cardinality(codes) < MaxLogins
  /\ CASE n = serving /\ place = "waiting" /\ n = keys -> place' = "exchange" /\ Sends(Issued(n), keys)
       [] n # serving /\ place = "waiting" -> place' = "error" /\ UNCHANGED wire
       [] OTHER -> UNCHANGED <<place, wire>>
  /\ stopping' = StopScheduled(n)
  /\ UNCHANGED <<client, attempts, keys, clicks, page, url, spent, token, serving, unopened, mishaps>>

TimerFires ==
  /\ client = "script" /\ stopping
  /\ serving' = 0 /\ stopping' = FALSE
  /\ UNCHANGED <<client, place, attempts, keys, clicks, page, url, issuer, wire, token, unopened, mishaps>>

-----------------------------------------------------------------------------
(* The token endpoint redeems a code once, for the verifier it was issued    *)
(* for.  The answer may be lost, or the code have lapsed.                    *)
Redeemable == exchange.code \notin spent /\ exchange.verifier = exchange.code.of

Answered ==
  /\ place = "exchange" /\ exchange # None /\ exchange' = None
  /\ IF Redeemable
       THEN /\ spent' = spent \cup {exchange.code} /\ place' = "in"
            /\ token' = [of |-> exchange.code.of, lives |-> TRUE]
       ELSE place' = "error" /\ UNCHANGED <<spent, token>>
  /\ UNCHANGED <<client, attempts, keys, clicks, page, url, codes, sent, resent, script, mishaps>>

Unanswered ==
  /\ place = "exchange" /\ exchange # None /\ Mishap
  /\ spent' \in {spent, spent \cup {exchange.code}}
  /\ exchange' = None /\ place' = "error"
  /\ UNCHANGED <<client, attempts, keys, clicks, page, url, codes, sent, resent, token, script>>

Lapses ==
  /\ Current(token) /\ token' = [token EXCEPT !.lives = FALSE]
  /\ UNCHANGED <<client, place, attempts, keys, clicks, page, url, issuer, wire, script, mishaps>>

Next ==
  \/ Click \/ Navigates \/ Consents \/ Declines \/ Wanders
  \/ LoadFails \/ Load \/ Reload \/ Unauthorized \/ Logout
  \/ Begins \/ (\E n \in 1 .. attempts : Brings(n)) \/ TimerFires
  \/ Answered \/ Unanswered \/ Lapses

Spec == Init /\ [][Next]_vars

-----------------------------------------------------------------------------
(* Types; and whoever is at the exchange has one under way. *)
TypeOK ==
  /\ client \in {"none", "console", "script"} /\ attempts \in 0 .. MaxLogins
  /\ place \in {"load", "signin", "away", "exchange", "in", "error", "idle", "waiting"}
  /\ keys \in 0 .. attempts /\ serving \in 0 .. attempts /\ clicks \subseteq 1 .. attempts
  /\ place = "exchange" <=> exchange # None
  /\ spent \subseteq codes /\ (url # None => url \in codes)

(* A code is only ever sent with the verifier of the login it was issued for: *)
(* what comes back for another login is turned down before it is spent.       *)
SentForItself == \A s \in sent : s.verifier = s.code.of

(* However often a page is reloaded, or a tab brings it, a code is sent once. *)
SentOnce == ~resent

(* The port is held for the login that waits, and while its server stops; or  *)
(* the login was turned down for a code that was another's, and then it is    *)
(* held until somebody brings the right one; or no browser was there to be   *)
(* started, and nobody lets go of it while the process lives.                *)
PortReleased ==
  serving # 0 => \/ place = "waiting" /\ serving = keys
                 \/ stopping
                 \/ \E c \in codes : c.of # serving
                 \/ serving \in unopened

(* A login gets what it asked for, once, and lets go of what it held.         *)
LoginIsItsOwn == SentForItself /\ SentOnce /\ PortReleased
===============================================================================
