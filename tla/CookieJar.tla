----------------------------- MODULE CookieJar -----------------------------
(***************************************************************************)
(* The cookie sessions of sflang/src/http_session.rs, as getWeb, postWeb   *)
(* and postForm of builtins_http.rs use them: the request's cookies are    *)
(* taken from the jar when it starts, the response's are stored when it    *)
(* ends, and other requests of the session come and go meanwhile.          *)
(*                                                                         *)
(* Redirects are followed inside the HTTP library (external); whichever    *)
(* host answers in the end, its cookies count as those of the host that    *)
(* was asked.  A host is in its own domain and in those Parents names; a   *)
(* path is "/", a prefix of all, or itself.                                *)
(***************************************************************************)
EXTENDS Naturals, FiniteSets

CONSTANTS
  Clients,   \* threads that share the session
  Hosts, Paths,
  Parents,   \* pairs <<host, domain>> of a host and a domain above it
  Values,    \* values of the one cookie name
  Visits,    \* the requests that are made
  Offers,    \* the Set-Cookies that come with responses
  MaxTime,   \* bound: the clock
  None

VARIABLES
  now,       \* the clock
  jar,       \* the stored cookies
  pc,        \* client -> "idle", "purged", "sent" or "store"
  request,   \* client -> [host, path, https]
  sent,      \* client -> the cookies that went with the request
  began,     \* client -> when its cookies were purged
  latest     \* history: <<domain, path>> -> the cookie last set, None when it was deleted

vars == <<now, jar, pc, request, sent, began, latest>>

Cookies == [domain : Hosts, host_only : BOOLEAN, path : Paths, value : Values,
            expires : 0 .. MaxTime + 1, secure : BOOLEAN, by : Hosts]
Never == MaxTime + 1  \* expires of a session cookie

CookieKeys == Hosts \X Paths
Key(k) == <<k.domain, k.path>>

Requests == [host : Hosts, path : Paths, https : BOOLEAN]

Init ==
  /\ now = 0
  /\ jar = {}
  /\ pc = [c \in Clients |-> "idle"]
  /\ request = [c \in Clients |-> None]
  /\ sent = [c \in Clients |-> {}]
  /\ began = [c \in Clients |-> 0]
  /\ latest = [key \in CookieKeys |-> None]

Tick ==
  /\ now < MaxTime
  /\ now' = now + 1
  /\ UNCHANGED <<jar, pc, request, sent, began, latest>>

-----------------------------------------------------------------------------
Within(host, domain) == host = domain \/ <<host, domain>> \in Parents

Unexpired(cookies) == {k \in cookies : k.expires = Never \/ k.expires > now}
SameKey(k, l) == Key(k) = Key(l)

\* (As if every cookie went to the whole domain.)
BugDomainMatches(host, k) == Within(host, k.domain)
DomainMatches(host, k) ==
  IF k.host_only THEN host = k.domain ELSE Within(host, k.domain)
PathMatches(path, k) == k.path = "/" \/ path = k.path

\* The cookies a request carries: their expiry was looked at before.
Matching(r) ==
  {k \in jar : (k.secure => r.https) /\ DomainMatches(r.host, k) /\ PathMatches(r.path, k)}

\* purge_expired locks the jar for itself.
Start(c, r) ==
  /\ pc[c] = "idle"
  /\ request' = [request EXCEPT ![c] = r]
  /\ jar' = Unexpired(jar)
  /\ began' = [began EXCEPT ![c] = now]
  /\ sent' = [sent EXCEPT ![c] = {}]
  /\ pc' = [pc EXCEPT ![c] = "purged"]
  /\ UNCHANGED <<now, latest>>

Attach(c) ==
  /\ pc[c] = "purged"
  /\ sent' = [sent EXCEPT ![c] = Matching(request[c])]
  /\ pc' = [pc EXCEPT ![c] = "sent"]
  /\ UNCHANGED <<now, jar, request, began, latest>>

\* The request function returns and forgets the request.
Return(c) ==
  /\ pc' = [pc EXCEPT ![c] = "idle"]
  /\ request' = [request EXCEPT ![c] = None]
  /\ sent' = [sent EXCEPT ![c] = {}]
  /\ began' = [began EXCEPT ![c] = 0]

\* The response: its cookies are stored, after a purge of the jar.  There may be no
\* response or no cookie in it, or the progress callback threw: nothing is stored.
Answer(c) ==
  /\ pc[c] = "sent"
  /\ jar' = Unexpired(jar)
  /\ sent' = [sent EXCEPT ![c] = {}]
  /\ pc' = [pc EXCEPT ![c] = "store"]
  /\ UNCHANGED <<now, request, began, latest>>

Dismiss(c) ==
  /\ pc[c] = "sent"
  /\ Return(c)
  /\ UNCHANGED <<now, jar, latest>>

\* What a Set-Cookie asks for: a Domain attribute or none, a path, Secure, an expiry
\* in the future or none; the past deletes.
SetCookies ==
  [domain : Hosts \cup {None}, path : Paths, value : Values, secure : BOOLEAN,
   expires : 0 .. MaxTime + 1]

\* A Domain attribute is accepted from the hosts in it.
\* (As if the Domain attribute were taken at its word.)
BugAccepted(c, s) == TRUE
Accepted(c, s)    == s.domain = None \/ Within(request[c].host, s.domain)

Entry(c, s) ==
  [domain |-> IF s.domain = None THEN request[c].host ELSE s.domain,
   host_only |-> s.domain = None, path |-> s.path, value |-> s.value,
   expires |-> s.expires, secure |-> s.secure, by |-> request[c].host]

Others(k) == {l \in jar : ~SameKey(k, l)}

Store(c, s) ==
  /\ pc[c] = "store"
  /\ LET k == Entry(c, s)
     IN /\ jar' = IF ~Accepted(c, s) THEN jar
                  ELSE IF s.expires <= now THEN Others(k) ELSE Others(k) \cup {k}
        /\ latest' = IF ~Accepted(c, s) THEN latest
                     ELSE [latest EXCEPT ![Key(k)] = IF s.expires <= now THEN None ELSE k]
  /\ Return(c)
  /\ UNCHANGED now

Clear ==
  /\ jar # {}
  /\ jar' = {}
  /\ latest' = [key \in CookieKeys |-> None]
  /\ UNCHANGED <<now, pc, request, sent, began>>

Client(c) ==
  \/ \E r \in Visits : Start(c, r)
  \/ Attach(c) \/ Dismiss(c) \/ Answer(c)
  \/ \E s \in Offers : Store(c, s)

Next == Tick \/ Clear \/ \E c \in Clients : Client(c)

Spec == Init /\ [][Next]_vars

-----------------------------------------------------------------------------
\* Every variable keeps to its type.
TypeOK ==
  /\ now \in 0 .. MaxTime
  /\ jar \subseteq Cookies
  /\ pc \in [Clients -> {"idle", "purged", "sent", "store"}]
  /\ request \in [Clients -> Requests \cup {None}]
  /\ sent \in [Clients -> SUBSET Cookies]
  /\ began \in [Clients -> 0 .. MaxTime]
  /\ latest \in [CookieKeys -> Cookies \cup {None}]

\* A cookie goes only where it belongs: to a host that its Domain attribute or its own
\* host covers, under its path, over https if it must, and not after it had expired
\* when the request began; and only a host in a domain has set a cookie for it.
CookiesStayHome ==
  \A c \in Clients : \A k \in sent[c] :
    /\ Within(k.by, k.domain) /\ Within(request[c].host, k.domain)
    /\ k.host_only => k.by = request[c].host
    /\ k.path \in {"/", request[c].path} /\ (k.secure => request[c].https)
    /\ k.expires > began[c]

\* The jar holds one cookie of a name for a domain and path: the last that was set, by
\* whichever request, unless it has expired.
OneCookiePerKey ==
  /\ \A k \in jar : latest[Key(k)] = k
  /\ \A key \in CookieKeys : latest[key] # None => latest[key] \in jar \/ latest[key].expires <= now
=============================================================================
