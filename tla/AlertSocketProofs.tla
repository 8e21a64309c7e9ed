-------------------------- MODULE AlertSocketProofs --------------------------
(***************************************************************************)
(* The sockets of the dashboard neither multiply nor vanish, for every     *)
(* number of logins and failures.  OneSocketPerLogin is inductive: a       *)
(* socket that ends leaves its place to the one timeout, and a timeout     *)
(* that fires leaves it to the socket it creates.                          *)
(***************************************************************************)
EXTENDS AlertSocket, FiniteSetTheorems, TLAPS

LEMMA SocketConstants ==
    NoSocket \notin Sockets /\ MaxLogins \in Nat /\ MaxFailures \in Nat
  BY SocketAssumption DEF SocketAssumption

SocketTypeOK ==
    /\ link \in [Sockets -> {"connecting", "open", "closing", "failing", "closed"}]
    /\ ws \in Sockets \cup {NoSocket}
    /\ reconnectTimer \in {0, 1}

SocketInv == TypeOK /\ IsFiniteSet(Live) /\ OneSocketPerLogin

LEMMA LiveNumber ==
    ASSUME IsFiniteSet(Live)
    PROVE  /\ Cardinality(Live) \in Nat
           /\ Cardinality(Live) = 0 <=> Live = {}
  BY FS_CardinalityType, FS_EmptySet

-----------------------------------------------------------------------------
(* What a socket that is created or ends does to those there are           *)

LEMMA ConnectLive ==
    ASSUME SocketTypeOK, IsFiniteSet(Live), connect
    PROVE  /\ link' \in [Sockets -> {"connecting", "open", "closing", "failing", "closed"}]
           /\ ws' \in Sockets
           /\ Live' = Live \cup {ws'} /\ IsFiniteSet(Live')
           /\ Cardinality(Live') = Cardinality(Live) + 1
<1>1. PICK s \in Sockets \ Live : link' = [link EXCEPT ![s] = "connecting"] /\ ws' = s
  BY DEF connect
<1>2. link' \in [Sockets -> {"connecting", "open", "closing", "failing", "closed"}]
  BY <1>1 DEF SocketTypeOK
<1>3. Live' = Live \cup {s}
  BY <1>1 DEF Live, SocketTypeOK
<1>4. IsFiniteSet(Live \cup {s}) /\ Cardinality(Live \cup {s}) = Cardinality(Live) + 1
  BY <1>1, FS_AddElement
<1>. QED BY <1>1, <1>2, <1>3, <1>4

LEMMA EndLive ==
    ASSUME SocketTypeOK, IsFiniteSet(Live), NEW s \in Live, NEW error \in BOOLEAN,
           SocketEnds(s, error)
    PROVE  /\ SocketTypeOK'
           /\ reconnectTimer' = 1 /\ ws' = ws
           /\ Live' = Live \ {s} /\ IsFiniteSet(Live')
           /\ Cardinality(Live') = Cardinality(Live) - 1
<1>. DEFINE l == [link EXCEPT ![s] = "closed"]
<1>1. /\ link' = Closed(l, IF error THEN ws ELSE NoSocket)
      /\ reconnectTimer' = 1 /\ ws' = ws
  BY DEF SocketEnds
<1>2. l \in [Sockets -> {"connecting", "open", "closing", "failing", "closed"}]
  BY DEF SocketTypeOK
<1>3. \A r \in Sockets : l[r] = "closed" <=> r = s \/ link[r] = "closed"
  BY DEF SocketTypeOK, Live
<1>. HIDE DEF l
<1>4. /\ link' \in [Sockets -> {"connecting", "open", "closing", "failing", "closed"}]
      /\ \A r \in Sockets : link'[r] = "closed" <=> l[r] = "closed"
  <2>1. CASE ~error \/ ws = NoSocket
    <3>1. link' = l
      BY <1>1, <2>1 DEF Closed
    <3>. QED BY <1>2, <3>1
  <2>2. CASE error /\ ws # NoSocket
    <3>1. ws \in Sockets
      BY <2>2 DEF SocketTypeOK
    <3>2. link' = [l EXCEPT ![ws] = CASE @ = "connecting" -> "failing"
                                      [] @ = "open" -> "closing"
                                      [] OTHER -> @]
      BY <1>1, <2>2 DEF Closed
    <3>3. CASE l[ws] = "connecting"
      <4>1. link' = [l EXCEPT ![ws] = "failing"]
        BY <3>2, <3>3
      <4>. QED BY <1>2, <3>1, <3>3, <4>1
    <3>4. CASE l[ws] = "open"
      <4>1. link' = [l EXCEPT ![ws] = "closing"]
        BY <3>2, <3>4
      <4>. QED BY <1>2, <3>1, <3>4, <4>1
    <3>5. CASE l[ws] # "connecting" /\ l[ws] # "open"
      <4>1. link' = [l EXCEPT ![ws] = l[ws]]
        BY <3>2, <3>5
      <4>. QED BY <1>2, <3>1, <4>1
    <3>. QED BY <3>3, <3>4, <3>5
  <2>. QED BY <2>1, <2>2
<1>5. Live' = Live \ {s}
  BY <1>3, <1>4 DEF Live
<1>6. IsFiniteSet(Live \ {s}) /\ Cardinality(Live \ {s}) = Cardinality(Live) - 1
  BY FS_RemoveElement
<1>. QED BY <1>1, <1>4, <1>5, <1>6 DEF SocketTypeOK

-----------------------------------------------------------------------------
(* The invariant                                                           *)

LEMMA SocketInit == Init => SocketInv
<1>. SUFFICES ASSUME Init
              PROVE  SocketInv
  OBVIOUS
<1>1. Live = {}
  BY DEF Init, Live
<1>2. IsFiniteSet(Live) /\ Cardinality(Live) = 0
  BY <1>1, FS_EmptySet
<1>3. TypeOK
  BY SocketConstants DEF Init, TypeOK
<1>. QED BY <1>2, <1>3 DEF Init, SocketInv, OneSocketPerLogin

(* A socket ends: SocketEnds with nothing else that counts. *)
LEMMA EndKeeps ==
    ASSUME SocketInv, NEW s \in Live, NEW error \in BOOLEAN, SocketEnds(s, error),
           UNCHANGED <<pageVars, logins>>, failures' \in 0..MaxFailures
    PROVE  SocketInv'
<1>1. SocketTypeOK
  BY DEF SocketInv, TypeOK, SocketTypeOK
<1>2. IsFiniteSet(Live) /\ Cardinality(Live) \in Nat
  BY LiveNumber DEF SocketInv
<1>3. /\ SocketTypeOK' /\ reconnectTimer' = 1 /\ ws' = ws
      /\ Live' = Live \ {s} /\ IsFiniteSet(Live') /\ Cardinality(Live') = Cardinality(Live) - 1
  BY <1>1, <1>2, EndLive
<1>4. TypeOK'
  BY <1>3 DEF SocketInv, TypeOK, SocketTypeOK, pageVars
<1>5. Cardinality(Live') + reconnectTimer' <= logins'
  <2>1. Cardinality(Live) + reconnectTimer <= logins /\ reconnectTimer \in {0, 1} /\ logins \in Nat
    BY SocketConstants DEF SocketInv, OneSocketPerLogin, TypeOK
  <2>2. logins' = logins
    OBVIOUS
  <2>. QED BY <1>2, <1>3, <2>1, <2>2
<1>6. logins' = 1 => Live' \subseteq {ws'}
  BY <1>3 DEF SocketInv, OneSocketPerLogin
<1>. QED BY <1>3, <1>4, <1>5, <1>6 DEF SocketInv, OneSocketPerLogin

LEMMA SocketNext == SocketInv /\ [Next]_vars => SocketInv'
<1>. SUFFICES ASSUME SocketInv, [Next]_vars
              PROVE  SocketInv'
  OBVIOUS
<1>0. /\ SocketTypeOK /\ TypeOK /\ OneSocketPerLogin /\ IsFiniteSet(Live)
      /\ Cardinality(Live) \in Nat /\ (Cardinality(Live) = 0 <=> Live = {})
      /\ logins \in Nat /\ submitted \in Nat /\ failures \in Nat
  BY LiveNumber, SocketConstants DEF SocketInv, TypeOK, SocketTypeOK
<1>1. CASE Reconnect
  <2>1. reconnectTimer = 1 /\ reconnectTimer' = 0
    BY <1>0, <1>1 DEF Reconnect, SocketTypeOK
  <2>2. /\ link' \in [Sockets -> {"connecting", "open", "closing", "failing", "closed"}]
        /\ ws' \in Sockets
        /\ Live' = Live \cup {ws'} /\ IsFiniteSet(Live')
        /\ Cardinality(Live') = Cardinality(Live) + 1
    BY <1>0, <1>1, ConnectLive DEF Reconnect
  <2>3. UNCHANGED <<page, submitted, logins, failures>>
    BY <1>1 DEF Reconnect, pageVars
  <2>4. TypeOK'
    BY <1>0, <2>1, <2>2, <2>3 DEF TypeOK
  <2>5. Cardinality(Live') + reconnectTimer' <= logins'
    BY <1>0, <2>1, <2>2, <2>3 DEF OneSocketPerLogin
  <2>6. logins' = 1 => Live' \subseteq {ws'}
    <3>1. logins = 1 => Live = {}
      BY <1>0, <2>1 DEF OneSocketPerLogin
    <3>. QED BY <2>2, <2>3, <3>1
  <2>. QED BY <2>2, <2>4, <2>5, <2>6 DEF SocketInv, OneSocketPerLogin
<1>2. ASSUME NEW s \in Sockets, Opens(s)
      PROVE  SocketInv'
  <2>1. link[s] = "connecting" /\ link' = [link EXCEPT ![s] = "open"]
        /\ UNCHANGED <<page, submitted, ws, reconnectTimer, logins, failures>>
    BY <1>2 DEF Opens, pageVars
  <2>2. Live' = Live
    BY <1>0, <2>1 DEF Live, SocketTypeOK
  <2>3. TypeOK'
    BY <1>0, <2>1 DEF TypeOK
  <2>. QED BY <1>0, <2>1, <2>2, <2>3 DEF SocketInv, OneSocketPerLogin
<1>3. ASSUME NEW s \in Sockets, CloseEnds(s)
      PROVE  SocketInv'
  <2>1. s \in Live
    BY <1>3 DEF CloseEnds, Live
  <2>2. PICK error \in BOOLEAN : SocketEnds(s, error)
    <3>1. (link[s] = "failing") \in BOOLEAN /\ SocketEnds(s, link[s] = "failing")
      BY <1>3 DEF CloseEnds
    <3>. QED BY <3>1
  <2>3. UNCHANGED <<pageVars, logins>> /\ failures' \in 0..MaxFailures
    BY <1>0, <1>3 DEF CloseEnds, TypeOK
  <2>. QED BY <2>1, <2>2, <2>3, EndKeeps
<1>4. ASSUME NEW s \in Sockets, ConnectFails(s) \/ Drops(s)
      PROVE  SocketInv'
  <2>1. s \in Live
    BY <1>4 DEF ConnectFails, Drops, Live
  <2>2. PICK error \in BOOLEAN : SocketEnds(s, error)
    BY <1>4 DEF ConnectFails, Drops
  <2>3. failures < MaxFailures /\ failures' = failures + 1 /\ UNCHANGED <<pageVars, logins>>
    BY <1>4 DEF ConnectFails, Drops
  <2>4. failures' \in 0..MaxFailures
    BY <1>0, <2>3, SocketConstants
  <2>. QED BY <2>1, <2>2, <2>3, <2>4, EndKeeps
<1>5. CASE Submit \/ LoginFails \/ Logout
  <2>1. UNCHANGED <<link, ws, reconnectTimer, logins, failures>>
    BY <1>5 DEF Submit, LoginFails, Logout, socketVars
  <2>2. Live' = Live
    BY <2>1 DEF Live
  <2>3. TypeOK'
    <3>1. page' \in {"login", "app"}
      BY <1>0, <1>5 DEF Submit, LoginFails, Logout, TypeOK
    <3>2. submitted' \in {submitted, submitted + 1, submitted - 1} \cap Nat
      BY <1>0, <1>5 DEF Submit, LoginFails, Logout
    <3>3. logins + submitted' <= MaxLogins
      BY <1>0, <1>5, SocketConstants DEF Submit, LoginFails, Logout, TypeOK
    <3>4. submitted' \in 0..MaxLogins
      <4>1. logins \in Nat /\ MaxLogins \in Nat
        BY <1>0, SocketConstants
      <4>2. PICK n \in Nat : n = submitted'
        BY <3>2
      <4>3. logins + n <= MaxLogins
        BY <3>3, <4>2
      <4>4. n <= MaxLogins
        BY <4>1, <4>3
      <4>. QED BY <4>1, <4>2, <4>4
    <3>. QED BY <1>0, <2>1, <3>1, <3>3, <3>4 DEF TypeOK
  <2>. QED BY <1>0, <2>1, <2>2, <2>3 DEF SocketInv, OneSocketPerLogin
<1>6. CASE LoginSucceeds
  <2>1. /\ page' = "app" /\ submitted > 0 /\ submitted' = submitted - 1
        /\ logins' = logins + 1 /\ UNCHANGED <<reconnectTimer, failures>>
    BY <1>6 DEF LoginSucceeds, RenderApp
  <2>2. /\ link' \in [Sockets -> {"connecting", "open", "closing", "failing", "closed"}]
        /\ ws' \in Sockets
        /\ Live' = Live \cup {ws'} /\ IsFiniteSet(Live')
        /\ Cardinality(Live') = Cardinality(Live) + 1
    BY <1>0, <1>6, ConnectLive DEF LoginSucceeds, RenderApp
  <2>3. submitted' \in 0..MaxLogins /\ logins' \in 0..MaxLogins /\ logins' + submitted' <= MaxLogins
    BY <1>0, <2>1, SocketConstants DEF TypeOK
  <2>4. TypeOK'
    BY <1>0, <2>1, <2>2, <2>3 DEF TypeOK
  <2>5. Cardinality(Live') + reconnectTimer' <= logins'
    <3>1. reconnectTimer \in {0, 1} /\ Cardinality(Live) + reconnectTimer <= logins
      BY <1>0 DEF OneSocketPerLogin, SocketTypeOK
    <3>. QED BY <1>0, <2>1, <2>2, <3>1
  <2>6. logins' = 1 => Live' \subseteq {ws'}
    <3>1. reconnectTimer \in {0, 1} /\ Cardinality(Live) + reconnectTimer <= logins
      BY <1>0 DEF OneSocketPerLogin, SocketTypeOK
    <3>2. logins = 0 => Live = {}
      BY <1>0, <3>1
    <3>. QED BY <1>0, <2>1, <2>2, <3>2
  <2>. QED BY <2>2, <2>4, <2>5, <2>6 DEF SocketInv, OneSocketPerLogin
<1>7. CASE UNCHANGED vars
  BY <1>7 DEF vars, pageVars, socketVars, SocketInv, TypeOK, OneSocketPerLogin, Live
<1>. QED
  BY <1>1, <1>2, <1>3, <1>4, <1>5, <1>6, <1>7 DEF Next, BrowserStep, Quiet

LEMMA SocketAlways == Spec => []SocketInv
  BY SocketInit, SocketNext, PTL DEF Spec

(* The page, the sockets and the timer are well typed: in particular at    *)
(* most one timeout is pending (alerts.js:34-42).                          *)
THEOREM SocketTypeCorrect == Spec => []TypeOK
<1>1. SocketInv => TypeOK
  BY DEF SocketInv
<1>. QED BY <1>1, SocketAlways, PTL

(* Whatever fails, and whichever socket closes which, there are no more    *)
(* sockets than renderings and always one under way (alerts.js:34-42).     *)
THEOREM SocketsBounded == Spec => []OneSocketPerLogin
<1>1. SocketInv => OneSocketPerLogin
  BY DEF SocketInv
<1>. QED BY <1>1, SocketAlways, PTL
=============================================================================
