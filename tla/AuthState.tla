----------------------------- MODULE AuthState -----------------------------
(***************************************************************************)
(* The state that authentication keeps between requests: the cache of      *)
(* certificate revocation lists (gnmi_server/clientCertAuth.go), which     *)
(* concurrent verifications share without a lock, and the JWT tokens that  *)
(* Authenticate and Refresh issue (gnoi.go, jwtAuth.go), which live until  *)
(* they expire or the process, and with it the signing key, is replaced.   *)
(* Time is a clock of ticks.                                               *)
(***************************************************************************)
EXTENDS Naturals, Sequences, FiniteSets

CONSTANTS AsRpcs,        \* verifications
          Points,        \* CRL distribution points
          Certs,         \* the certificates each may verify: their points, in order
          ExpireAfter,   \* CrlDxpireDuration
          JwtValidInt, JwtRefreshInt,
          MaxClock, MaxRestarts

VARIABLES clock,
          revoked,   \* the tick in which the certificate was revoked, or 0
          cache,     \* CrlCache: url -> [at, lists], or NoCrl
          vf,        \* the verifications: pc, next url, crlAvaliable, verdict
          key,       \* hmacSampleSecret
          token,     \* the token the client holds
          lapsed     \* the token has been refused since the last Authenticate

asVars == <<clock, revoked, cache, vf, key, token, lapsed>>

NoCrl == [at |-> 0, lists |-> FALSE, there |-> FALSE]
Idle == [pc |-> "idle", urls |-> <<>>, i |-> 0, avail |-> FALSE, ages |-> {}, out |-> "none", was |-> FALSE]
NoToken == [key |-> 0, exp |-> 0]

AsInit ==
  /\ clock = 1 /\ revoked = 0
  /\ cache = [u \in Points |-> NoCrl]
  /\ vf = [r \in AsRpcs |-> Idle]
  /\ key = 1 /\ token = NoToken /\ lapsed = FALSE

Tick ==
  /\ clock < MaxClock /\ clock' = clock + 1
  /\ lapsed' = (lapsed \/ token.exp < clock')
  /\ UNCHANGED <<revoked, cache, vf, key, token>>

Revoke ==
  /\ revoked = 0 /\ revoked' = clock
  /\ UNCHANGED <<clock, cache, vf, key, token, lapsed>>

CrlExpired(c) == clock > c.at + ExpireAfter

\* AppendCrlToCache sets nextUpdate to the time of the download, so a list is
\* up to date for the tick it was fetched in only.
CrlNeedUpdate(c) == clock > c.at

MutSearchCrlCache(u) == cache[u].there /\ ~CrlExpired(cache[u])

SearchCrlCache(u) ==
  cache[u].there /\ ~CrlExpired(cache[u]) /\ ~CrlNeedUpdate(cache[u])

AppendCrlToCache(u) ==
  cache' = [cache EXCEPT ![u] = [at |-> clock, lists |-> revoked > 0, there |-> TRUE]]

\* VerifyCertCrl: a certificate without distribution points passes.
VerifyCertCrl(r) ==
  /\ vf[r].pc = "idle"
  /\ \E urls \in Certs[r] : vf' = [vf EXCEPT ![r] =
       IF urls = <<>> THEN [Idle EXCEPT !.pc = "done", !.out = "passed"]
       ELSE [Idle EXCEPT !.pc = "search", !.urls = urls, !.i = 1, !.was = revoked \in 1..clock - 1]]
  /\ UNCHANGED <<clock, revoked, cache, key, token, lapsed>>

\* The end of one turn of DownloadNotCachedCrl's loop.
AfterUrl(c, ok) ==
  LET avail == c.avail \/ ok IN
  IF c.i < Len(c.urls) THEN [c EXCEPT !.i = @ + 1, !.pc = "search", !.avail = avail]
  ELSE IF avail THEN [c EXCEPT !.pc = "provider", !.avail = TRUE]
  ELSE [c EXCEPT !.pc = "done", !.out = "blocked"]

DownloadNotCachedCrl(r) ==
  /\ vf[r].pc = "search"
  /\ LET u == vf[r].urls[vf[r].i] IN
     IF SearchCrlCache(u)
     THEN vf' = [vf EXCEPT ![r] = AfterUrl(@, TRUE)] /\ cache' = cache
     ELSE vf' = [vf EXCEPT ![r].pc = "download"] /\ cache' = [cache EXCEPT ![u] = NoCrl]
  /\ UNCHANGED <<clock, revoked, key, token, lapsed>>

TryDownload(r) ==
  /\ vf[r].pc = "download"
  /\ \/ AppendCrlToCache(vf[r].urls[vf[r].i]) /\ vf' = [vf EXCEPT ![r] = AfterUrl(@, TRUE)]
     \/ cache' = cache /\ vf' = [vf EXCEPT ![r] = AfterUrl(@, FALSE)]
  /\ UNCHANGED <<clock, revoked, key, token, lapsed>>

Usable == {u \in Points : cache[u].there /\ ~CrlExpired(cache[u])}

\* CreateStaticCRLProvider and CheckChainRevocation (external): a list the
\* provider lacks leaves the status undetermined, which is not refused.
CreateStaticCRLProvider(r) ==
  /\ vf[r].pc = "provider"
  /\ cache' = [u \in Points |-> IF u \in Usable THEN cache[u] ELSE NoCrl]
  /\ vf' = [vf EXCEPT ![r].pc = "done", ![r].ages = {clock - cache[u].at : u \in Usable},
              ![r].out = IF \E u \in Usable : cache[u].lists THEN "revoked" ELSE "passed"]
  /\ UNCHANGED <<clock, revoked, key, token, lapsed>>

\* jwt.ParseWithClaims (external): signed with the present key, not expired.
Parses(t) == t.key = key /\ clock <= t.exp

tokenResp == [key |-> key, exp |-> clock + JwtValidInt]

\* Authenticate with the right password.
Authenticate ==
  /\ token' = tokenResp /\ lapsed' = FALSE
  /\ UNCHANGED <<clock, revoked, cache, vf, key>>

InWindow(t) == t.exp <= clock + JwtRefreshInt

Refresh ==
  /\ Parses(token) /\ InWindow(token)
  /\ token' = tokenResp
  /\ UNCHANGED <<clock, revoked, cache, vf, key, lapsed>>

\* A restart: GenerateJwtSecretKey draws another key, the cache is empty and
\* the RPCs in progress are gone.
Restart ==
  /\ key <= MaxRestarts
  /\ key' = key + 1 /\ cache' = [u \in Points |-> NoCrl]
  /\ vf' = [r \in AsRpcs |-> Idle]
  /\ lapsed' = TRUE
  /\ UNCHANGED <<clock, revoked, token>>

AsStep(r) == DownloadNotCachedCrl(r) \/ TryDownload(r) \/ CreateStaticCRLProvider(r)

AsNext ==
  \/ Tick \/ Revoke \/ Authenticate \/ Refresh \/ Restart
  \/ \E r \in AsRpcs : VerifyCertCrl(r) \/ AsStep(r)

AsSpec == AsInit /\ [][AsNext]_asVars /\ \A r \in AsRpcs : WF_asVars(AsStep(r))

\* The cache, the verifications under way and the token keep their types.
AsTypeOK ==
  /\ clock \in 1..MaxClock /\ revoked \in 0..clock /\ key \in 1..MaxRestarts + 1
  /\ cache \in [Points -> [at : 0..MaxClock, lists : BOOLEAN, there : BOOLEAN]]
  /\ \A r \in AsRpcs :
       /\ vf[r].pc \in {"idle", "search", "download", "provider", "done"}
       /\ vf[r].i \in 0..Len(vf[r].urls)
       /\ vf[r].out \in {"none", "passed", "revoked", "blocked"}
  /\ token.exp \in 0..MaxClock + JwtValidInt /\ token.key \in 0..key /\ lapsed \in BOOLEAN

\* A verification that finds a list refuses a certificate that was revoked in
\* an earlier tick: whoever else uses the cache meanwhile, no list from before
\* the revocation stands in for the present one (SearchCrlCache).
RevokedRefused ==
  \A r \in AsRpcs : vf[r].was /\ vf[r].ages # {} => vf[r].out = "revoked"

\* However long the downloads take, no verification consults a list older
\* than CrlDxpireDuration (CreateStaticCRLProvider).
UsesFresh ==
  \A r \in AsRpcs : \A a \in vf[r].ages : a <= ExpireAfter

\* "If all CRLs are not available, the certificate validation should be
\* blocked": what passes had a list in the cache or downloaded one.
PassedHadList ==
  \A r \in AsRpcs : vf[r].out = "passed" /\ vf[r].urls # <<>> => vf[r].avail

\* Once a token has been refused, because it expired or because the process
\* restarted, only the password gives the client another one: Refresh never
\* revives it.
SessionUnbroken == lapsed => ~Parses(token)

\* Every verification ends, whatever fails to download.
Verified(r) == vf[r].pc \in {"done", "idle"}
VerifyEnds == \A r \in AsRpcs : []<>Verified(r)
====
