--------------------------- MODULE DeviceSessions ---------------------------
(* What a signed-in browser may do: device tokens and their epochs, each    *)
(* dashboard worker's cache of the epoch, and the elevation marker.  One    *)
(* operator, one browser, several requests at once on several workers.      *)
EXTENDS Integers

CONSTANTS Requests, Workers,
          CacheAge,           \* how long authenticate trusts a cached epoch
          Window, Cap,        \* ELEVATION_SECONDS, ELEVATION_CAP_SECONDS
          MaxTime, MaxRevokes, MaxSignIns   \* bounds

VARIABLES now,
          epoch,     \* auth_device_epochs
          revoked,   \* ghost: when each past epoch was revoked
          cache,     \* worker -> [epoch, at], `epochs' of casa_scruffy
          token,     \* pe_auth: [epoch, id]
          marker,    \* pe_elevated: [token, epoch, first, until]
          req,       \* request -> what it has got so far
          proved, alive   \* ghosts: passphrase last entered; last that, or an elevated deed
sessionVars == <<now, epoch, revoked, cache, token, marker, req, proved, alive>>

NoMarker == [token |-> 0, epoch |-> -1, first |-> 0, until |-> 0]
Nothing == [epoch |-> -1, at |-> 0]
NoToken == [epoch |-> -1, id |-> 0]
Idle == [at |-> "idle", worker |-> CHOOSE w \in Workers : TRUE, since |-> 0, got |-> Nothing,
         token |-> NoToken, marker |-> NoMarker]
Init == /\ now = 0 /\ epoch = 0 /\ proved = 0 /\ alive = 0
        /\ revoked = [e \in 0..MaxRevokes |-> MaxTime + 1]
        /\ cache = [w \in Workers |-> Nothing]
        /\ token = NoToken /\ marker = NoMarker
        /\ req = [r \in Requests |-> Idle]

To(r, at) == req' = [req EXCEPT ![r].at = at, ![r].got = Nothing]
Over(r) == req' = [req EXCEPT ![r] = Idle]

(* login, after passphrase and code: the token carries the epoch of this moment *)
SignIn == /\ token.id < MaxSignIns
          /\ token' = [epoch |-> epoch, id |-> token.id + 1]
          /\ UNCHANGED <<now, epoch, revoked, cache, marker, req, proved, alive>>
Revoke == /\ epoch < MaxRevokes
          /\ epoch' = epoch + 1 /\ revoked' = [revoked EXCEPT ![epoch] = now]
          /\ UNCHANGED <<now, cache, token, marker, req, proved, alive>>

Usable(w) == cache[w].epoch >= 0 /\ now - cache[w].at < CacheAge
(* authenticate: a request arrives with the browser's cookies *)
Arrive(r, w) ==
  LET Came(at, got) == [at |-> at, worker |-> w, since |-> now, got |-> got, token |-> token,
                        marker |-> marker] IN
  /\ req[r].at = "idle" /\ token.id > 0
  /\ \/ /\ Usable(w) /\ cache[w].epoch = token.epoch
        /\ req' = [req EXCEPT ![r] = Came("in", Nothing)]
     \/ /\ ~Usable(w)
        /\ req' = [req EXCEPT ![r] = Came("asking", [epoch |-> epoch, at |-> now])]
  /\ UNCHANGED <<now, epoch, revoked, cache, token, marker, proved, alive>>
(* Mutant: the cached epoch is dated by the answer instead of the question. *)
DatedLate(got) == [got EXCEPT !.at = now]
Dated(got) == got
(* epoch(): the clock is read before the call to core, the cache written after it *)
Keep(r, then) ==
  /\ cache' = [cache EXCEPT ![req[r].worker] = Dated(req[r].got)]
  /\ IF req[r].got.epoch = req[r].token.epoch THEN To(r, then) ELSE Over(r)
LetIn(r) == /\ req[r].at = "asking" /\ Keep(r, "in")
            /\ UNCHANGED <<now, epoch, revoked, token, marker, proved, alive>>
Page(r) == /\ req[r].at = "in" /\ Over(r)
           /\ UNCHANGED <<now, epoch, revoked, cache, token, marker, proved, alive>>

(* read_elevation *)
Valid(m, t) == /\ m.token = t.id /\ m.epoch >= 0
               /\ now <= m.until /\ now <= m.first + Cap
(* elevate, and elevated_operator once the marker is good at this moment, ask core for the *)
(* epoch, whatever the cache says.                                                          *)
AskFresh(r, why) ==
  /\ req[r].at = "in" /\ (why = "checking" => Valid(req[r].marker, req[r].token))
  /\ req' = [req EXCEPT ![r].at = why, ![r].got = [epoch |-> epoch, at |-> now]]
  /\ UNCHANGED <<now, epoch, revoked, cache, token, marker, proved, alive>>
(* elevate: the passphrase is right, or the failure is counted (OperatorAuth) *)
Elevate(r) ==
  /\ req[r].at = "elevating"
  /\ cache' = [cache EXCEPT ![req[r].worker] = Dated(req[r].got)]
  /\ Over(r)
  /\ \/ UNCHANGED <<marker, proved, alive>>
     \/ /\ req[r].got.epoch = req[r].token.epoch
        /\ marker' = [token |-> req[r].token.id, epoch |-> req[r].got.epoch,
                      first |-> now, until |-> now + Window]
        /\ proved' = now /\ alive' = now
  /\ UNCHANGED <<now, epoch, revoked, token>>
Elevated(r) ==
  /\ req[r].at = "checking"
  /\ IF req[r].marker.epoch = req[r].got.epoch
     THEN Keep(r, "elevated")
     ELSE Over(r) /\ cache' = [cache EXCEPT ![req[r].worker] = Dated(req[r].got)]
  /\ UNCHANGED <<now, epoch, revoked, token, marker, proved, alive>>
Refreshed(m) == [m EXCEPT !.until = now + Window]
(* The deed happens in core and slides the window, or is rejected and does not *)
Act(r) ==
  /\ req[r].at = "elevated" /\ Over(r)
  /\ \/ marker' = Refreshed(req[r].marker) /\ alive' = now
     \/ UNCHANGED <<marker, alive>>
  /\ UNCHANGED <<now, epoch, revoked, cache, token, proved>>
Tick == /\ now < MaxTime /\ now' = now + 1
        /\ UNCHANGED <<epoch, revoked, cache, token, marker, req, proved, alive>>

Next == \/ SignIn \/ Revoke \/ Tick
        \/ \E r \in Requests : \/ LetIn(r) \/ Page(r) \/ Elevate(r) \/ Elevated(r) \/ Act(r)
                               \/ AskFresh(r, "elevating") \/ AskFresh(r, "checking")
                               \/ \E w \in Workers : Arrive(r, w)
Spec == Init /\ [][Next]_sessionVars

-----------------------------------------------------------------------------
(* A revoked token is let in for less than CacheAge after the revocation, on every    *)
(* worker, in whatever order slow answers reach its cache; and a request that gets    *)
(* elevated never arrived with a token revoked before it came.                         *)
RevocationBites == \A r \in Requests :
  /\ req[r].at = "in" => req[r].since - revoked[req[r].token.epoch] < CacheAge
  /\ req[r].at = "elevated" => req[r].since <= revoked[req[r].token.epoch]

(* A marker is accepted at most Cap after the passphrase was last entered, and at most *)
(* Window after that or the last elevated deed, however refreshes of several requests   *)
(* overtake one another.                                                                *)
ElevationIsRecent == \A r \in Requests :
  req'[r].at = "checking" /\ req[r].at # "checking" => now - proved <= Cap /\ now - alive <= Window
=============================================================================
