-------------------------- MODULE SerialPortProofs --------------------------
(***************************************************************************)
(* Theorems about SerialPort, for every number of starts and of chunks.    *)
(***************************************************************************)
EXTENDS SerialPort, SequenceTheorems, TLAPS

-----------------------------------------------------------------------------
(***************************************************************************)
(* The inductive invariant.                                                *)
(***************************************************************************)

\* A user that awaits has one call under way at most: an import, a port that is held, or a
\* stop() that is pending. A port with a listener that is neither held nor being stopped is
\* closed, unless its stop() was rejected; and after a stop() none of this is under way.
OneCallAtATime ==
  user = "awaits" =>
    /\ importing \subseteq {starts} /\ (importing # {} => port = NoPort)
    /\ \A p \in Ports : stopping[p] = "pending" =>
         importing = {} /\ port = NoPort /\ \A q \in Ports : stopping[q] = "pending" => q = p
    /\ \A p \in Ports : ports[p] \in {"opening", "open", "closing"} /\ listeners[p] > 0 =>
         port = p \/ stopping[p] \in {"pending", "rejected"}
    /\ stopped => importing = {} /\ port = NoPort /\ \A p \in Ports : stopping[p] # "pending"

\* A given port is port 1 and no other is made; it has a listener for each start() at most,
\* and while it is open one for a user that awaits.
GivenPort ==
  given =>
    /\ listeners[1] <= starts
    /\ importing = {} /\ port \in {NoPort, 1}
    /\ ports[1] # "opening"
    /\ \A p \in Ports : p # 1 => ports[p] = "none" /\ stopping[p] = "none"
    /\ user = "awaits" =>
         /\ ports[1] = "open" => listeners[1] = IF port = NoPort THEN 0 ELSE 1
         /\ ports[1] = "closing" => listeners[1] = 1 /\ stopping[1] = "pending"

\* A port opened by path is listened to once, from when it is made.
PathPorts ==
  ~given =>
    /\ \A p \in importing : p <= starts
    /\ \A p \in Ports :
         /\ listeners[p] \in 0..1
         /\ p \in importing \/ starts < p => listeners[p] = 0

Live(p) == ports[p] \in {"open", "closing"}

\* There is one device.
OneLive == \A p, q \in Ports : Live(p) /\ Live(q) => p = q

\* q is what FramesWhole says of fed, with repeated chunks only if r.
InOrder(q, r) ==
  /\ q # <<>> => q[1][2] \in 1..2
  /\ \A n \in 1..(Len(q) - 1) : Follows(q[n], q[n + 1]) \/ (r /\ q[n] = q[n + 1])

\* The chunk that comes next may come behind the one fed last.
MayCome(q, c, k) == IF q = <<>> THEN k \in 1..2 ELSE Follows(q[Len(q)], <<c, k>>)

FedInv ==
  InOrder(fed, MayRepeat) /\ \A p \in Ports : Live(p) => MayCome(fed, conn[p], chunk[p])

SerialInv == TypeOK /\ OneCallAtATime /\ GivenPort /\ PathPorts /\ OneLive /\ FedInv

Fed(n) == (0..n) \X (Nat \ {0})

LEMMA PortOne == 1 \in Ports /\ NoPort \notin Ports /\ \A p \in Ports : p \in Nat
BY SerialAssumption DEF Ports, NoPort

LEMMA SerialInvInit == Init => SerialInv
<1> SUFFICES ASSUME Init PROVE SerialInv
  OBVIOUS
<1>1. 0 \in 0..MaxStarts /\ conns \in Nat /\ fed \in Seq((0..conns) \X (Nat \ {0}))
  BY SerialAssumption DEF Init
<1>2. TypeOK
  <2>1. ports \in [Ports -> {"none", "opening", "open", "closing", "closed"}]
    BY DEF Init
  <2>2. /\ listeners \in [Ports -> Nat] /\ conn \in [Ports -> 0..conns]
        /\ stopping \in [Ports -> {"none", "pending", "resolved", "rejected"}]
        /\ stopAt \in [Ports -> 0..MaxStarts]
    BY <1>1 DEF Init
  <2>3. chunk \in [Ports -> Nat \ {0}]
    BY DEF Init
  <2>4. QED
    BY <1>1, <2>1, <2>2, <2>3 DEF Init, TypeOK
<1>3. OneCallAtATime
  BY PortOne DEF Init, OneCallAtATime
<1>4. GivenPort /\ PathPorts /\ OneLive
  BY PortOne DEF Init, GivenPort, PathPorts, OneLive, Live
<1>5. FedInv
  BY PortOne DEF Init, FedInv, InOrder, MayCome
<1>6. QED
  BY <1>2, <1>3, <1>4, <1>5 DEF SerialInv

\* A chunk that may come is fed, n times: the order stays, and the next of its connection may
\* come.
LEMMA ChunkAppended ==
  ASSUME NEW N \in Nat, NEW q \in Seq(Fed(N)), NEW c \in 0..N, NEW k \in Nat \ {0},
         NEW r \in BOOLEAN, NEW n \in Nat \ {0}, n > 1 => r,
         InOrder(q, r), MayCome(q, c, k)
  PROVE  LET t == q \o [i \in 1..n |-> <<c, k>>]
         IN  InOrder(t, r) /\ MayCome(t, c, k + 1)
<1> DEFINE t == q \o [i \in 1..n |-> <<c, k>>]
<1>1. /\ Len(q) \in Nat /\ Len(t) = Len(q) + n /\ t # <<>>
      /\ \A m \in 1..Len(q) : t[m] = q[m]
      /\ \A m \in (Len(q) + 1)..(Len(q) + n) : t[m] = <<c, k>>
      /\ q = <<>> <=> Len(q) = 0
  <2> DEFINE again == [i \in 1..n |-> <<c, k>>]
  <2>1. /\ again \in Seq(Fed(N)) /\ Len(again) = n
        /\ \A i \in 1..n : again[i] = <<c, k>>
    BY DEF Fed
  <2> HIDE DEF again
  <2>2. /\ Len(q \o again) = Len(q) + n /\ q \o again \in Seq(Fed(N))
        /\ \A m \in 1..(Len(q) + n) :
             (q \o again)[m] = IF m <= Len(q) THEN q[m] ELSE again[m - Len(q)]
    BY <2>1, ConcatProperties
  <2>3. Len(q) \in Nat /\ (q = <<>> <=> Len(q) = 0)
    OBVIOUS
  <2>4. q \o again # <<>>
    BY <2>2, <2>3
  <2>5. /\ \A m \in 1..Len(q) : (q \o again)[m] = q[m]
        /\ \A m \in (Len(q) + 1)..(Len(q) + n) : (q \o again)[m] = <<c, k>>
    <3>1. \A m \in (Len(q) + 1)..(Len(q) + n) :
            m \in 1..(Len(q) + n) /\ ~(m <= Len(q)) /\ m - Len(q) \in 1..n
      BY <2>3
    <3>2. \A m \in 1..Len(q) : m \in 1..(Len(q) + n) /\ m <= Len(q)
      BY <2>3
    <3>3. QED
      BY <2>1, <2>2, <3>1, <3>2
  <2>6. QED
    BY <2>2, <2>3, <2>4, <2>5 DEF again
<1> HIDE DEF t
<1>2. MayCome(t, c, k + 1)
  <2>1. t[Len(t)] = <<c, k>>
    BY <1>1
  <2>2. QED
    BY <1>1, <2>1 DEF MayCome, Follows
<1>3. t[1][2] \in 1..2
  <2>1. CASE q = <<>>
    BY <1>1, <2>1 DEF MayCome
  <2>2. CASE q # <<>>
    <3>1. 1 \in 1..Len(q)
      BY <1>1, <2>2
    <3>2. QED
      BY <1>1, <2>2, <3>1 DEF InOrder
  <2>3. QED
    BY <2>1, <2>2
<1>4. ASSUME NEW m \in 1..(Len(t) - 1) PROVE Follows(t[m], t[m + 1]) \/ (r /\ t[m] = t[m + 1])
  <2>1. CASE m < Len(q)
    <3>1. m \in 1..(Len(q) - 1) /\ m \in 1..Len(q) /\ m + 1 \in 1..Len(q)
      BY <1>1, <2>1
    <3>2. QED
      BY <1>1, <3>1 DEF InOrder
  <2>2. CASE m = Len(q)
    <3>1. t[m] = q[m] /\ t[m + 1] = <<c, k>> /\ q # <<>>
      BY <1>1, <2>2
    <3>2. QED
      BY <2>2, <3>1 DEF MayCome
  <2>3. CASE m > Len(q)
    <3>1. t[m] = <<c, k>> /\ t[m + 1] = <<c, k>> /\ n > 1
      BY <1>1, <2>3
    <3>2. QED
      BY <3>1
  <2>4. QED
    BY <1>1, <2>1, <2>2, <2>3
<1>5. QED
  BY <1>2, <1>3, <1>4 DEF InOrder, t

\* Only where FramesWhole allows it a port has two listeners.
LEMMA OneListener ==
  ASSUME SerialInv, NEW p \in Ports, Live(p), listeners[p] > 1
  PROVE  MayRepeat
<1>1. listeners[p] \in Nat /\ starts \in Nat
  BY DEF SerialInv, TypeOK
<1>2. CASE ~given
  BY <1>1, <1>2 DEF SerialInv, PathPorts
<1>3. CASE given
  <2>1. p = 1
    BY <1>3 DEF SerialInv, GivenPort, Live
  <2>2. starts > 1
    BY <1>1, <1>3, <2>1 DEF SerialInv, GivenPort
  <2>3. CASE user = "awaits"
    BY <1>1, <1>3, <2>1, <2>3 DEF SerialInv, GivenPort, Live
  <2>4. QED
    BY <1>3, <2>2, <2>3 DEF MayRepeat
<1>4. QED
  BY <1>2, <1>3

LEMMA DataStep ==
  ASSUME SerialInv, NEW p \in Ports, Data(p) \/ DataThrows(p)
  PROVE  SerialInv'
<1>1. /\ listeners[p] \in Nat /\ conn[p] \in 0..conns /\ chunk[p] \in Nat \ {0}
      /\ fed \in Seq(Fed(conns)) /\ conns \in Nat
      /\ conn \in [Ports -> 0..conns] /\ chunk \in [Ports -> Nat \ {0}]
  BY DEF SerialInv, TypeOK, Fed
<1>2. listeners[p] > 0 /\ up' \in BOOLEAN
  BY DEF Data, DataThrows, Feeds, SerialInv, TypeOK
<1>3. PICK n \in 1..listeners[p] : Feeds(p, n)
  BY <1>1, <1>2 DEF Data, DataThrows
<1>4. /\ Live(p)
      /\ fed' = fed \o [k \in 1..n |-> <<conn[p], chunk[p]>>]
      /\ chunk' = [chunk EXCEPT ![p] = @ + 1]
      /\ UNCHANGED <<given, user, port, starts, importing, ports, listeners, stopping, stopAt,
                     stopped, conns, conn, reported>>
  BY <1>3 DEF Feeds, options, Live
<1> DEFINE chunks == [k \in 1..n |-> <<conn[p], chunk[p]>>]
<1>5. fed' \in Seq(Fed(conns))
  <2>1. chunks \in Seq(Fed(conns))
    BY <1>1 DEF Fed
  <2> HIDE DEF chunks
  <2>2. fed \o chunks \in Seq(Fed(conns))
    BY <1>1, <2>1, ConcatProperties
  <2>3. QED
    BY <1>4, <2>2 DEF chunks
<1>6. chunk' \in [Ports -> Nat \ {0}] /\ chunk'[p] = chunk[p] + 1
  BY <1>1, <1>4
<1>7. TypeOK'
  BY <1>2, <1>4, <1>5, <1>6 DEF SerialInv, TypeOK, Fed
<1>8. OneCallAtATime' /\ GivenPort' /\ PathPorts' /\ OneLive'
  BY <1>4 DEF SerialInv, OneCallAtATime, GivenPort, PathPorts, OneLive, Live
<1>9. FedInv'
  <2>1. n > 1 => MayRepeat
    BY <1>1, <1>4, OneListener
  <2>2. InOrder(fed, MayRepeat) /\ MayCome(fed, conn[p], chunk[p]) /\ MayRepeat \in BOOLEAN
    BY <1>4 DEF SerialInv, FedInv, MayRepeat
  <2>3. InOrder(fed', MayRepeat) /\ MayCome(fed', conn[p], chunk[p] + 1)
    <3>1. n \in Nat \ {0}
      BY <1>1
    <3>2. InOrder(fed \o chunks, MayRepeat) /\ MayCome(fed \o chunks, conn[p], chunk[p] + 1)
      BY <1>1, <2>1, <2>2, <3>1, ChunkAppended
    <3>3. QED
      BY <1>4, <3>2
  <2>4. \A q \in Ports : Live(q)' => q = p
    BY <1>4 DEF SerialInv, OneLive, Live
  <2>5. MayRepeat' = MayRepeat
    BY <1>4 DEF MayRepeat
  <2> HIDE DEF chunks
  <2>6. QED
    BY <1>4, <1>6, <2>3, <2>4, <2>5 DEF FedInv
<1>10. QED
  BY <1>7, <1>8, <1>9 DEF SerialInv

\* The steps that make no connection and feed nothing keep the order.
LEMMA FedStays ==
  ASSUME SerialInv, UNCHANGED <<given, user, conns, conn, chunk, fed>>,
         MayRepeat => MayRepeat',
         \A p \in Ports : Live(p)' => Live(p)
  PROVE  FedInv' /\ OneLive'
<1>1. FedInv'
  BY DEF SerialInv, FedInv, InOrder, MayCome
<1>2. OneLive'
  BY DEF SerialInv, OneLive
<1>3. QED
  BY <1>1, <1>2

\* Naturals up to a larger bound, and sequences of them.
LEMMA FedGrows ==
  ASSUME NEW n \in Nat, NEW q \in Seq(Fed(n))
  PROVE  q \in Seq(Fed(n + 1)) /\ \A k \in DOMAIN q : q[k][1] < n + 1
<1>1. \A e \in Fed(n) : e \in Fed(n + 1) /\ e[1] < n + 1
  BY DEF Fed
<1>2. DOMAIN q = 1..Len(q) /\ \A k \in 1..Len(q) : q[k] \in Fed(n)
  OBVIOUS
<1>3. Len(q) \in Nat /\ q \in [1..Len(q) -> Fed(n + 1)]
  BY <1>1, <1>2
<1>4. q \in Seq(Fed(n + 1))
  <2> HIDE DEF Fed
  <2>1. QED
    BY <1>3
<1>5. QED
  BY <1>1, <1>2, <1>4

\* A new connection comes behind all that was fed.
LEMMA ConnectsStep ==
  ASSUME SerialInv, NEW p \in Ports, PortOpens(p) \/ (OwnerReopens /\ p = 1)
  PROVE  SerialInv'
<1>1. /\ ports' = [ports EXCEPT ![p] = "open"] /\ conns' = conns + 1
      /\ conn' = [conn EXCEPT ![p] = conns + 1]
      /\ UNCHANGED <<given, user, port, starts, importing, listeners, stopping, stopAt, stopped,
                     fed, reported, up>>
  BY DEF PortOpens, OwnerReopens, Connects, options, history
<1>2. PICK first \in 1..2 : chunk' = [chunk EXCEPT ![p] = first]
  BY DEF PortOpens, OwnerReopens, Connects
<1>3. /\ conns \in Nat /\ fed \in Seq(Fed(conns)) /\ conn \in [Ports -> 0..conns]
      /\ chunk \in [Ports -> Nat \ {0}]
      /\ ports \in [Ports -> {"none", "opening", "open", "closing", "closed"}]
  BY DEF SerialInv, TypeOK, Fed
<1>4. fed \in Seq(Fed(conns + 1)) /\ \A k \in DOMAIN fed : fed[k][1] < conns + 1
  BY <1>3, FedGrows
<1>5. /\ conn' \in [Ports -> 0..(conns + 1)] /\ conn'[p] = conns + 1
      /\ chunk' \in [Ports -> Nat \ {0}] /\ chunk'[p] \in 1..2
      /\ ports' \in [Ports -> {"none", "opening", "open", "closing", "closed"}]
  BY <1>1, <1>2, <1>3
<1>6. TypeOK'
  BY <1>1, <1>3, <1>4, <1>5 DEF SerialInv, TypeOK, Fed
<1>7. \A q \in Ports : q # p => ~Live(q) /\ ~Live(q)'
  <2>1. \A q \in Ports : q # p => ~Live(q)
    BY DEF PortOpens, OwnerReopens, SerialInv, GivenPort, Live
  <2>2. QED
    BY <1>1, <1>3, <2>1 DEF Live
<1>8. OneCallAtATime'
  <2>1. CASE PortOpens(p)
    BY <1>1, <2>1 DEF PortOpens, SerialInv, TypeOK, OneCallAtATime
  <2>2. CASE OwnerReopens
    BY <1>1, <2>2 DEF OwnerReopens, SerialInv, TypeOK, OneCallAtATime
  <2>3. QED
    BY <2>1, <2>2
<1>9. GivenPort'
  <2>1. CASE PortOpens(p)
    BY <1>1, <2>1, PortOne DEF PortOpens, SerialInv, TypeOK, GivenPort
  <2>2. CASE OwnerReopens /\ p = 1
    BY <1>1, <2>2, PortOne DEF OwnerReopens, SerialInv, TypeOK, GivenPort
  <2>3. QED
    BY <2>1, <2>2
<1>10. PathPorts' /\ OneLive'
  BY <1>1, <1>7 DEF SerialInv, PathPorts, OneLive
<1>11. InOrder(fed, MayRepeat) /\ MayCome(fed, conn'[p], chunk'[p])
  <2>1. InOrder(fed, MayRepeat)
    BY DEF SerialInv, FedInv
  <2>2. CASE fed = <<>>
    BY <1>5, <2>1, <2>2 DEF MayCome
  <2>3. CASE fed # <<>>
    <3>1. Len(fed) \in DOMAIN fed
      BY <1>3, <2>3
    <3>2. fed[Len(fed)][1] < conn'[p]
      BY <1>4, <1>5, <3>1
    <3>3. QED
      BY <1>5, <2>1, <2>3, <3>2 DEF MayCome, Follows
  <2>4. QED
    BY <2>2, <2>3
<1>12. FedInv'
  BY <1>1, <1>7, <1>11 DEF FedInv, MayRepeat
<1>13. QED
  BY <1>6, <1>8, <1>9, <1>10, <1>12 DEF SerialInv

LEMMA StartGivenStep ==
  ASSUME SerialInv, StartGiven
  PROVE  SerialInv'
<1>1. /\ given /\ starts < MaxStarts /\ UserMayStart /\ starts' = starts + 1 /\ port' = 1
      /\ listeners' = [listeners EXCEPT ![1] = @ + 1] /\ stopped' = FALSE
      /\ UNCHANGED <<given, user, importing, ports, stopping, stopAt, conns, conn, chunk,
                     fed, reported, up>>
  BY DEF StartGiven, Attach, options, device, history
<1>2. listeners \in [Ports -> Nat] /\ starts + 1 \in 0..MaxStarts /\ starts \in Nat
  BY <1>1, SerialAssumption DEF SerialInv, TypeOK
<1>3. listeners' \in [Ports -> Nat] /\ listeners'[1] > 0 /\ listeners'[1] = listeners[1] + 1
      /\ \A p \in Ports : p # 1 => listeners'[p] = listeners[p]
  BY <1>1, <1>2, PortOne
<1>4. TypeOK'
  BY <1>1, <1>2, <1>3, PortOne DEF SerialInv, TypeOK
<1>5. importing = {}
  BY <1>1 DEF SerialInv, GivenPort
<1>6. OneCallAtATime'
  BY <1>1, <1>3, <1>5, PortOne DEF SerialInv, OneCallAtATime, UserMayStart
<1>7. GivenPort'
  <2>1. listeners'[1] <= starts'
    BY <1>1, <1>2, <1>3, PortOne DEF SerialInv, GivenPort
  <2>2. QED
    BY <1>1, <1>3, <2>1, PortOne DEF SerialInv, GivenPort, UserMayStart, NoPort
<1>8. FedInv' /\ OneLive'
  <2>1. MayRepeat => MayRepeat'
    BY <1>1, <1>2 DEF MayRepeat
  <2>2. QED
    BY <1>1, <2>1, FedStays DEF Live
<1>9. PathPorts'
  BY <1>1 DEF PathPorts
<1>10. QED
  BY <1>4, <1>6, <1>7, <1>8, <1>9 DEF SerialInv

LEMMA StartPathStep ==
  ASSUME SerialInv, StartPath
  PROVE  SerialInv'
<1>1. /\ ~given /\ starts < MaxStarts /\ UserMayStart /\ starts' = starts + 1
      /\ importing' = importing \cup {starts + 1} /\ stopped' = FALSE
      /\ UNCHANGED <<given, user, port, ports, listeners, stopping, stopAt, conns, conn, chunk,
                     fed, reported, up>>
  BY DEF StartPath, options, device, history
<1>2. starts + 1 \in 0..MaxStarts /\ starts + 1 \in Ports
  BY <1>1, SerialAssumption DEF SerialInv, TypeOK, Ports
<1>3. TypeOK'
  BY <1>1, <1>2 DEF SerialInv, TypeOK
<1>4. OneCallAtATime'
  BY <1>1 DEF SerialInv, OneCallAtATime, UserMayStart
<1>5. FedInv' /\ OneLive'
  <2>1. MayRepeat => MayRepeat'
    BY <1>1 DEF MayRepeat
  <2>2. QED
    BY <1>1, <2>1, FedStays DEF Live
<1>6. GivenPort'
  BY <1>1 DEF GivenPort
<1>7. PathPorts'
  BY <1>1, <1>2, PortOne DEF SerialInv, TypeOK, PathPorts
<1>8. QED
  BY <1>3, <1>4, <1>5, <1>6, <1>7 DEF SerialInv

LEMMA ImportFailsStep ==
  ASSUME SerialInv, NEW p \in Ports, ImportFails(p)
  PROVE  SerialInv'
<1>1. /\ p \in importing /\ importing' = importing \ {p}
      /\ UNCHANGED <<given, user, port, starts, ports, listeners, stopping, stopAt, stopped,
                     conns, conn, chunk, fed, reported, up>>
  BY DEF ImportFails, options, device, history
<1>2. TypeOK'
  BY <1>1 DEF SerialInv, TypeOK
<1>3. OneCallAtATime' /\ GivenPort' /\ PathPorts'
  BY <1>1 DEF SerialInv, OneCallAtATime, GivenPort, PathPorts
<1>4. FedInv' /\ OneLive'
  <2>1. MayRepeat => MayRepeat'
    BY <1>1 DEF MayRepeat
  <2>2. QED
    BY <1>1, <2>1, FedStays DEF Live
<1>5. QED
  BY <1>2, <1>3, <1>4 DEF SerialInv

LEMMA ImportedStep ==
  ASSUME SerialInv, NEW p \in Ports, Imported(p)
  PROVE  SerialInv'
<1>1. /\ p \in importing /\ importing' = importing \ {p} /\ port' = p
      /\ ports' = [ports EXCEPT ![p] = "opening"]
      /\ listeners' = [listeners EXCEPT ![p] = @ + 1]
      /\ UNCHANGED <<given, user, starts, stopping, stopAt, stopped, conns, conn,
                     chunk, fed, reported, up>>
  BY DEF Imported, Attach, options, device, history
<1>2. ~given
  BY <1>1 DEF SerialInv, GivenPort
<1>3. listeners \in [Ports -> Nat]
  BY DEF SerialInv, TypeOK
<1>4. listeners' \in [Ports -> Nat] /\ listeners'[p] > 0
      /\ \A q \in Ports : q # p => listeners'[q] = listeners[q]
  BY <1>1, <1>3
<1>5. TypeOK'
  BY <1>1, <1>4 DEF SerialInv, TypeOK
<1>6. OneCallAtATime'
  <2> SUFFICES ASSUME user = "awaits" PROVE OneCallAtATime'
    BY <1>1 DEF OneCallAtATime
  <2>1. /\ importing' = {} /\ port = NoPort /\ ~stopped
        /\ \A q \in Ports : stopping[q] # "pending"
    BY <1>1 DEF SerialInv, OneCallAtATime
  <2>2. \A q \in Ports : q # p => ports'[q] = ports[q]
    BY <1>1 DEF SerialInv, TypeOK
  <2>3. QED
    BY <1>1, <1>4, <2>1, <2>2, PortOne DEF SerialInv, OneCallAtATime
<1>7. GivenPort'
  BY <1>1, <1>2 DEF GivenPort
<1>8. PathPorts'
  <2>1. listeners[p] = 0 /\ p <= starts /\ starts \in Nat /\ p \in Nat
    BY <1>1, <1>2, PortOne DEF SerialInv, TypeOK, PathPorts
  <2>2. listeners'[p] = 1 /\ p \notin importing' /\ ~(starts < p)
    BY <1>1, <1>3, <2>1
  <2>3. \A q \in importing' : q <= starts'
    BY <1>1, <1>2 DEF SerialInv, PathPorts
  <2>4. ASSUME NEW q \in Ports
        PROVE  /\ listeners'[q] \in 0..1
               /\ q \in importing' \/ starts' < q => listeners'[q] = 0
    BY <1>1, <1>2, <1>4, <2>2 DEF SerialInv, PathPorts
  <2>5. QED
    BY <2>3, <2>4 DEF PathPorts
<1>9. FedInv' /\ OneLive'
  <2>1. \A q \in Ports : Live(q)' => Live(q)
    BY <1>1 DEF SerialInv, TypeOK, Live
  <2>2. MayRepeat => MayRepeat'
    BY <1>1 DEF MayRepeat
  <2>3. QED
    BY <1>1, <2>1, <2>2, FedStays
<1>10. QED
  BY <1>5, <1>6, <1>7, <1>8, <1>9 DEF SerialInv

\* A port closes, and the stop() of it, if any, resolves.
LEMMA ClosesStep ==
  ASSUME SerialInv, NEW p \in Ports, PortFails(p) \/ StopSettles(p)
  PROVE  SerialInv'
<1>1. /\ ports' = [ports EXCEPT ![p] = "closed"]
      /\ stopping' = [stopping EXCEPT ![p] = IF @ = "pending" THEN "resolved" ELSE @]
      /\ stopped' => stopped \/ stopping[p] = "pending"
      /\ stopped' \in BOOLEAN /\ reported' \in Nat
      /\ UNCHANGED <<given, user, port, starts, importing, listeners, stopAt, conns, conn,
                     chunk, fed, up>>
  <2>1. /\ reported \in Nat /\ listeners[p] \in Nat /\ stopped \in BOOLEAN
        /\ stopping \in [Ports -> {"none", "pending", "resolved", "rejected"}]
    BY DEF SerialInv, TypeOK
  <2>2. CASE PortFails(p)
    <3>1. reported + listeners[p] \in Nat
      BY <2>1
    <3>2. QED
      BY <2>1, <2>2, <3>1 DEF PortFails, options, device, history
  <2>3. CASE StopSettles(p)
    BY <2>1, <2>3 DEF StopSettles, options, device, history
  <2>4. QED
    BY <2>2, <2>3
<1>2. TypeOK'
  BY <1>1 DEF SerialInv, TypeOK
<1>3. OneCallAtATime'
  BY <1>1 DEF SerialInv, TypeOK, OneCallAtATime
<1>4. GivenPort'
  <2>1. ASSUME given, p # 1 PROVE FALSE
    <3>1. ports[p] = "none" /\ stopping[p] = "none"
      BY <2>1 DEF SerialInv, GivenPort
    <3>2. QED
      BY <3>1 DEF PortFails, StopSettles
  <2>2. QED
    BY <1>1, <2>1, PortOne DEF SerialInv, TypeOK, GivenPort
<1>5. PathPorts'
  BY <1>1 DEF SerialInv, PathPorts
<1>6. FedInv' /\ OneLive'
  <2>1. \A q \in Ports : Live(q)' => Live(q)
    BY <1>1 DEF SerialInv, TypeOK, Live
  <2>2. MayRepeat => MayRepeat'
    BY <1>1 DEF MayRepeat
  <2>3. QED
    BY <1>1, <2>1, <2>2, FedStays
<1>7. QED
  BY <1>2, <1>3, <1>4, <1>5, <1>6 DEF SerialInv

LEMMA StopStep ==
  ASSUME SerialInv, Stop
  PROVE  SerialInv'
<1>1. /\ port # NoPort /\ port \in Ports /\ port' = NoPort /\ UserMayStop
      /\ stopAt' = [stopAt EXCEPT ![port] = starts]
      /\ \/ /\ ports[port] = "open" /\ ports' = [ports EXCEPT ![port] = "closing"]
            /\ stopping' = [stopping EXCEPT ![port] = "pending"]
         \/ /\ ports[port] # "open" /\ ports' = ports
            /\ stopping' = [stopping EXCEPT ![port] = "rejected"]
      /\ UNCHANGED <<given, user, starts, importing, listeners, stopped, conns, conn,
                     chunk, fed, reported, up>>
  BY DEF Stop, options, device, history, SerialInv, TypeOK
<1>2. TypeOK'
  BY <1>1 DEF SerialInv, TypeOK
<1>3. OneCallAtATime'
  BY <1>1 DEF SerialInv, TypeOK, OneCallAtATime, UserMayStop
<1>4. GivenPort'
  BY <1>1, PortOne DEF SerialInv, TypeOK, GivenPort, UserMayStop
<1>5. PathPorts'
  BY <1>1 DEF SerialInv, PathPorts
<1>6. FedInv' /\ OneLive'
  <2>1. \A q \in Ports : Live(q)' => Live(q)
    BY <1>1 DEF SerialInv, TypeOK, Live
  <2>2. MayRepeat => MayRepeat'
    BY <1>1 DEF MayRepeat
  <2>3. QED
    BY <1>1, <2>1, <2>2, FedStays
<1>7. QED
  BY <1>2, <1>3, <1>4, <1>5, <1>6 DEF SerialInv

LEMMA SerialInvStep ==
  ASSUME SerialInv, [Next]_vars
  PROVE  SerialInv'
<1> USE DEF options, device, history, TypeOK, OneCallAtATime, GivenPort, PathPorts, OneLive, FedInv,
            MayRepeat, InOrder, MayCome, Live
<1>1. CASE StopIdle
  BY <1>1 DEF StopIdle, UserMayStop, SerialInv
<1>2. CASE UNCHANGED vars
  BY <1>2 DEF vars, SerialInv
<1>3. QED
  BY <1>1, <1>2, PortOne, StartGivenStep, StartPathStep, StopStep, ImportFailsStep, ImportedStep,
     ConnectsStep, ClosesStep, DataStep DEF Next

LEMMA SerialInvariant == Spec => []SerialInv
<1>1. SerialInv /\ [Next]_vars => SerialInv'
  BY SerialInvStep
<1>2. QED
  BY SerialInvInit, <1>1, PTL DEF Spec

-----------------------------------------------------------------------------
(***************************************************************************)
(* The theorems.                                                           *)
(***************************************************************************)

\* The types, and that the port of a started transport is listened to.
THEOREM TypeInvariant == Spec => []TypeOK
<1>1. SerialInv => TypeOK
  BY DEF SerialInv
<1>2. QED
  BY SerialInvariant, <1>1, PTL

\* The parser is fed the chunks of each connection in order, none left out, and those of an
\* old connection never behind those of a newer one, for any number of ports, starts, stops,
\* failures and reopenings; a chunk comes twice only of a given port that was started twice.
THEOREM WholeFrames == Spec => []FramesWhole
<1>1. SerialInv => FramesWhole
  BY DEF SerialInv, FedInv, FramesWhole, InOrder
<1>2. QED
  BY SerialInvariant, <1>1, PTL

\* After a stop() that resolved no step feeds the parser, unless another stop() was rejected.
THEOREM StoppedIsQuiet == Spec => QuietAfterStop
<1>1. ASSUME SerialInv, [Next]_vars, user = "awaits", stopped,
             \A p \in Ports : stopping[p] # "rejected"
      PROVE  UNCHANGED fed
  <2>1. ASSUME NEW p \in Ports, Data(p) \/ DataThrows(p) PROVE FALSE
    <3>1. port = p \/ stopping[p] \in {"pending", "rejected"}
      BY <1>1, <2>1 DEF Data, DataThrows, Feeds, SerialInv, OneCallAtATime
    <3>2. QED
      BY <1>1, <3>1, PortOne DEF SerialInv, OneCallAtATime
  <2>2. QED
    BY <1>1, <2>1 DEF Next, StartGiven, StartPath, Stop, StopIdle, ImportFails, Imported, PortOpens,
                      OwnerReopens, Connects, PortFails, StopSettles, vars, history
<1>2. SerialInv /\ [Next]_vars
      => [user = "awaits" /\ stopped /\ (\A p \in Ports : stopping[p] # "rejected")
            => UNCHANGED fed]_vars
  BY <1>1
<1>3. QED
  BY SerialInvariant, <1>2, PTL DEF Spec, QuietAfterStop
=============================================================================
