--------------------------- MODULE ServingProofs ---------------------------
(***************************************************************************)
(* Proofs about POST /query.  First the rate limiter by itself, for every  *)
(* number of keys, every limit, window and skew: its invariants, its       *)
(* action property, and that it implements SlidingWindow.  Then the        *)
(* endpoint, for any number of tabs, of requests and of other callers: the *)
(* guards drive the limiter as its own specification allows, so all that   *)
(* is proved of the limiter holds of the endpoint; a bucket pays exactly   *)
(* for what was put to the use case; and no visitor pays for another.      *)
(***************************************************************************)
EXTENDS Serving, SequenceTheorems, FiniteSetTheorems, WellFoundedInduction, TLAPS

----------------------------------------------------------------------------
(* Eviction.                                                               *)

\* A non-empty set of naturals has a least element.
LEMMA LeastNatural ==
    ASSUME NEW T, T \subseteq Nat, T # {}
    PROVE  \E m \in T : \A n \in T : m <= n
<1>1. \E m \in T : \A n \in T : <<n, m>> \notin OpToRel(<, Nat)
    BY NatLessThanWellFounded, WFMin
<1>2. PICK m \in T : \A n \in T : <<n, m>> \notin OpToRel(<, Nat)
    BY <1>1
<1>3. \A n \in T : ~(n < m)
    BY <1>2 DEF OpToRel
<1> QED
    BY <1>3

\* The popleft loop stops: the number of hits it drops is well defined.
LEMMA EvictionStops ==
    ASSUME NEW s \in Seq(Nat), NEW now \in Nat
    PROVE  /\ ExpiredPrefix(s, now) \in 0 .. Len(s)
           /\ \A i \in 1 .. ExpiredPrefix(s, now) : Expired(s[i], now)
           /\ ExpiredPrefix(s, now) < Len(s) =>
                 ~Expired(s[ExpiredPrefix(s, now) + 1], now)
<1> DEFINE Stop == {n \in 0 .. Len(s) : n < Len(s) => ~Expired(s[n + 1], now)}
<1>1. Stop \subseteq Nat /\ Len(s) \in Stop
    OBVIOUS
<1>2. PICK m \in Stop : \A n \in Stop : m <= n
    BY <1>1, LeastNatural
<1>3. \A i \in 1 .. m : Expired(s[i], now)
    <2> SUFFICES ASSUME NEW i \in 1 .. m, ~Expired(s[i], now)
                 PROVE  FALSE
        OBVIOUS
    <2>1. i - 1 \in Stop
        BY <1>1
    <2> HIDE DEF Stop
    <2>2. m \in Nat /\ m <= i - 1
        BY <2>1, <1>1, <1>2
    <2> QED
        BY <2>2
<1>4. m \in 0 .. Len(s) /\ (m < Len(s) => ~Expired(s[m + 1], now))
    OBVIOUS
<1> QED
    BY <1>3, <1>4 DEF ExpiredPrefix

\* Evicting leaves a tail of the deque, whose first hit is in the window.
LEMMA LiveIsTail ==
    ASSUME NEW s \in Seq(Nat), NEW now \in Nat
    PROVE  \E n \in 0 .. Len(s) :
              /\ \A i \in 1 .. n : now - s[i] > Window
              /\ Live(s, now) \in Seq(Nat)
              /\ Len(Live(s, now)) = Len(s) - n
              /\ \A i \in 1 .. Len(s) - n : Live(s, now)[i] = s[n + i]
              /\ Live(s, now) # <<>> => now - Live(s, now)[1] <= Window
<1> DEFINE n == ExpiredPrefix(s, now)
<1>1. /\ n \in 0 .. Len(s)
      /\ \A i \in 1 .. n : now - s[i] > Window
      /\ n < Len(s) => ~(now - s[n + 1] > Window)
    BY EvictionStops DEF Expired
<1>4. Live(s, now) = SubSeq(s, n + 1, Len(s))
    BY DEF Live
<1> HIDE DEF n
<1>2. n + 1 \in Int /\ Len(s) \in Int /\ \A i \in n + 1 .. Len(s) : s[i] \in Nat
    BY <1>1
<1>3. /\ SubSeq(s, n + 1, Len(s)) \in Seq(Nat)
      /\ Len(SubSeq(s, n + 1, Len(s))) =
            IF n + 1 <= Len(s) THEN Len(s) - (n + 1) + 1 ELSE 0
      /\ \A i \in 1 .. Len(s) - (n + 1) + 1 :
            SubSeq(s, n + 1, Len(s))[i] = s[n + 1 + i - 1]
    BY <1>2, SubSeqProperties
<1>5. /\ (IF n + 1 <= Len(s) THEN Len(s) - (n + 1) + 1 ELSE 0) = Len(s) - n
      /\ \A i \in 1 .. Len(s) - n : i \in 1 .. Len(s) - (n + 1) + 1 /\ n + 1 + i - 1 = n + i
    BY <1>1
<1>6. /\ Live(s, now) \in Seq(Nat)
      /\ Len(Live(s, now)) = Len(s) - n
      /\ \A i \in 1 .. Len(s) - n : Live(s, now)[i] = s[n + i]
    BY <1>1, <1>3, <1>4, <1>5
<1>7. ASSUME Live(s, now) # <<>>
      PROVE  now - Live(s, now)[1] <= Window
    <2>1. Len(Live(s, now)) \in Nat /\ Len(Live(s, now)) # 0
        BY <1>6, <1>7
    <2>2. n \in Nat /\ n < Len(s)
        BY <2>1, <1>1, <1>6
    <2>3. 1 \in 1 .. Len(s) - n /\ n + 1 \in 1 .. Len(s)
        BY <2>2
    <2>4. Live(s, now)[1] = s[n + 1] /\ s[n + 1] \in Nat
        BY <2>3, <1>6
    <2> QED
        BY <2>2, <2>4, <1>1, LimiterWindowAssumption
<1> QED
    BY <1>1, <1>6, <1>7

LEMMA NothingToEvict ==
    ASSUME NEW now \in Nat
    PROVE  Live(<<>>, now) = <<>>
<1>1. <<>> \in Seq(Nat) /\ Len(<<>>) = 0
    OBVIOUS
<1>2. PICK n \in 0 .. Len(<<>>) : /\ Live(<<>>, now) \in Seq(Nat)
                                  /\ Len(Live(<<>>, now)) = Len(<<>>) - n
    BY <1>1, LiveIsTail
<1>3. Len(Live(<<>>, now)) = 0
    BY <1>1, <1>2
<1> QED
    BY <1>2, <1>3, EmptySeq

\* What a key's deque is: the admissions of the key, but for the oldest, all
\* of which have left the window.
Keeps(s, L, now) ==
    /\ s \in Seq(Nat) /\ L \in Seq(Nat)
    /\ Len(s) <= Len(L)
    /\ \A i \in 1 .. Len(s) : s[i] = L[Len(L) - Len(s) + i]
    /\ \A i \in 1 .. Len(L) - Len(s) : now - L[i] > Window

\* Evicting loses nothing that counts at the same or a later clock reading.
LEMMA EvictionKeeps ==
    ASSUME NEW s, NEW L, NEW now \in Nat, NEW t \in Nat, now <= t,
           Keeps(s, L, t)
    PROVE  /\ Keeps(Live(s, now), L, t)
           /\ Len(Live(s, now)) <= Len(s)
<1> DEFINE live == Live(s, now)
<1>1. /\ s \in Seq(Nat) /\ L \in Seq(Nat) /\ Len(s) <= Len(L)
      /\ Len(s) \in Nat /\ Len(L) \in Nat
      /\ \A i \in 1 .. Len(s) : s[i] \in Nat /\ s[i] = L[Len(L) - Len(s) + i]
    BY DEF Keeps
<1>2. PICK n \in 0 .. Len(s) :
          /\ \A i \in 1 .. n : now - s[i] > Window
          /\ live \in Seq(Nat) /\ Len(live) = Len(s) - n
          /\ \A i \in 1 .. Len(s) - n : live[i] = s[n + i]
    BY <1>1, LiveIsTail
<1> HIDE DEF live
<1>3. \A i \in 1 .. Len(live) : live[i] = L[Len(L) - Len(live) + i]
    <2> TAKE i \in 1 .. Len(live)
    <2>1. n + i \in 1 .. Len(s) /\ live[i] = s[n + i]
        BY <1>1, <1>2
    <2>2. Len(L) - Len(s) + (n + i) = Len(L) - Len(live) + i
        BY <1>1, <1>2
    <2> QED
        BY <2>1, <2>2, <1>1
<1>4. \A i \in 1 .. Len(L) - Len(live) : t - L[i] > Window
    <2> TAKE i \in 1 .. Len(L) - Len(live)
    <2>1. CASE i <= Len(L) - Len(s)
        BY <2>1, <1>1 DEF Keeps
    <2>2. CASE i > Len(L) - Len(s)
        <3> DEFINE j == i - (Len(L) - Len(s))
        <3>1. i \in Nat /\ i <= Len(L) - (Len(s) - n) /\ n \in Nat /\ n <= Len(s)
            BY <1>1, <1>2
        <3>2. j \in 1 .. n /\ j \in 1 .. Len(s) /\ Len(L) - Len(s) + j = i
            <4>1. Len(s) \in Nat /\ Len(L) \in Nat /\ Len(s) <= Len(L)
                BY <1>1
            <4> QED
                BY <4>1, <3>1, <2>2
        <3> HIDE DEF j
        <3>3. now - s[j] > Window /\ s[j] = L[i] /\ s[j] \in Nat
            <4>1. now - s[j] > Window
                BY <3>2, <1>2
            <4>2. s[j] = L[Len(L) - Len(s) + j] /\ s[j] \in Nat
                BY <3>2, <1>1
            <4> QED
                BY <4>1, <4>2, <3>2
        <3> QED
            BY <3>3, LimiterWindowAssumption
    <2> QED
        BY <2>1, <2>2, <1>1, <1>2
<1>5. live \in Seq(Nat) /\ Len(live) <= Len(s) /\ Len(live) <= Len(L)
    BY <1>1, <1>2
<1> QED
    BY <1>1, <1>3, <1>4, <1>5 DEF Keeps, live

\* Time passing makes nothing that was forgotten count again.
LEMMA LaterKeeps ==
    ASSUME NEW s, NEW L, NEW now \in Nat, NEW t \in Nat, now <= t,
           Keeps(s, L, now)
    PROVE  Keeps(s, L, t)
<1>1. \A i \in 1 .. Len(L) - Len(s) : t - L[i] > Window
    <2> TAKE i \in 1 .. Len(L) - Len(s)
    <2>1. i \in 1 .. Len(L) /\ now - L[i] > Window /\ L \in Seq(Nat)
        BY DEF Keeps
    <2>2. L[i] \in Nat
        BY <2>1
    <2> QED
        BY <2>1, <2>2, LimiterWindowAssumption
<1> QED
    BY <1>1 DEF Keeps

LEMMA AppendKeeps ==
    ASSUME NEW s, NEW L, NEW t \in Nat, NEW now \in Nat, Keeps(s, L, t)
    PROVE  Keeps(Append(s, now), Append(L, now), t)
<1> DEFINE s1 == Append(s, now)
           L1 == Append(L, now)
<1>1. /\ s \in Seq(Nat) /\ L \in Seq(Nat) /\ Len(s) <= Len(L)
      /\ Len(s) \in Nat /\ Len(L) \in Nat
      /\ \A i \in 1 .. Len(s) : s[i] = L[Len(L) - Len(s) + i]
      /\ \A i \in 1 .. Len(L) - Len(s) : t - L[i] > Window
    BY DEF Keeps
<1>2. /\ s1 \in Seq(Nat) /\ Len(s1) = Len(s) + 1
      /\ \A i \in 1 .. Len(s) : s1[i] = s[i]
      /\ s1[Len(s) + 1] = now
      /\ L1 \in Seq(Nat) /\ Len(L1) = Len(L) + 1
      /\ \A i \in 1 .. Len(L) : L1[i] = L[i]
      /\ L1[Len(L) + 1] = now
    BY <1>1, AppendProperties
<1> HIDE DEF s1, L1
<1>3. \A i \in 1 .. Len(s1) : s1[i] = L1[Len(L1) - Len(s1) + i]
    <2> TAKE i \in 1 .. Len(s1)
    <2>1. CASE i = Len(s) + 1
        <3>1. Len(L1) - Len(s1) + i = Len(L) + 1
            BY <2>1, <1>1, <1>2
        <3> QED
            BY <3>1, <2>1, <1>2
    <2>2. CASE i # Len(s) + 1
        <3>1. /\ i \in 1 .. Len(s)
              /\ Len(L1) - Len(s1) + i = Len(L) - Len(s) + i
              /\ Len(L) - Len(s) + i \in 1 .. Len(L)
            <4>1. i \in Nat /\ 1 <= i /\ i <= Len(s) + 1
                BY <1>1, <1>2
            <4>2. /\ Len(s) \in Nat /\ Len(L) \in Nat /\ Len(s) <= Len(L)
                  /\ Len(s1) = Len(s) + 1 /\ Len(L1) = Len(L) + 1
                BY <1>1, <1>2
            <4> QED
                BY <4>1, <4>2, <2>2
        <3> QED
            BY <3>1, <1>1, <1>2
    <2> QED
        BY <2>1, <2>2
<1>4. \A i \in 1 .. Len(L1) - Len(s1) : t - L1[i] > Window
    <2> TAKE i \in 1 .. Len(L1) - Len(s1)
    <2>1. i \in 1 .. Len(L) - Len(s) /\ i \in 1 .. Len(L)
        <3>1. /\ Len(s) \in Nat /\ Len(L) \in Nat /\ Len(s) <= Len(L)
              /\ Len(s1) = Len(s) + 1 /\ Len(L1) = Len(L) + 1
            BY <1>1, <1>2
        <3> QED
            BY <3>1
    <2>2. L1[i] = L[i] /\ t - L[i] > Window
        BY <2>1, <1>1, <1>2
    <2> QED
        BY <2>2
<1>5. Len(s1) <= Len(L1)
    BY <1>1, <1>2
<1> QED
    BY <1>2, <1>3, <1>4, <1>5 DEF Keeps, s1, L1

----------------------------------------------------------------------------
(* What the verdict says of the admissions.                                *)

Spread(L) ==
    \A i \in 1 .. Len(L) - MaxRequests : L[i + MaxRequests] - L[i] > Window - MaxSkew

\* Used(L, t, w): AllowanceUsed of SlidingWindow, of one key.
Used(L, t, w) ==
    Len(L) >= MaxRequests /\ t - L[Len(L) - MaxRequests + 1] <= w

\* With room in the deque, the MaxRequests-th latest admission has been
\* forgotten, so it is old: as seen by the sweep, and hence, less the time
\* the call takes, as seen by the reading the new admission gets.
LEMMA RoomMeansUnused ==
    ASSUME NEW s, NEW L, NEW now \in Nat, NEW t \in Nat,
           t <= now + MaxSkew, Keeps(s, L, t), HasRoom(s)
    PROVE  ~Used(L, now, Window - MaxSkew)
<1> SUFFICES ASSUME Len(L) >= MaxRequests
             PROVE  now - L[Len(L) - MaxRequests + 1] > Window - MaxSkew
    <2>1. /\ L \in Seq(Nat) /\ Len(L) \in Nat
        BY DEF Keeps
    <2>2. Len(L) >= MaxRequests => L[Len(L) - MaxRequests + 1] \in Nat
        BY <2>1, LimitAssumption
    <2> QED
        BY <2>2, LimiterWindowAssumption, LimiterSkewAssumption DEF Used
<1> DEFINE i == Len(L) - MaxRequests + 1
<1>1. L \in Seq(Nat) /\ Len(L) \in Nat /\ Len(s) \in Nat
    BY DEF Keeps
<1>2. i \in 1 .. Len(L) - Len(s) /\ i \in 1 .. Len(L)
    BY <1>1, LimitAssumption DEF HasRoom
<1>3. t - L[i] > Window /\ L[i] \in Nat
    BY <1>1, <1>2 DEF Keeps
<1> QED
    BY <1>3, LimiterWindowAssumption, LimiterSkewAssumption

\* Without room, the first hit of the deque is the MaxRequests-th latest
\* admission, and it is in the window.
LEMMA NoRoomMeansUsed ==
    ASSUME NEW s, NEW L, NEW now \in Nat, NEW t \in Nat, Keeps(s, L, t),
           Len(s) <= MaxRequests, ~HasRoom(s),
           s # <<>> => now - s[1] <= Window
    PROVE  Used(L, now, Window)
<1>1. /\ s \in Seq(Nat) /\ L \in Seq(Nat) /\ Len(L) \in Nat /\ Len(s) = MaxRequests
      /\ Len(s) <= Len(L)
    BY LimitAssumption DEF Keeps, HasRoom
<1>2. s # <<>> /\ 1 \in 1 .. Len(s)
    BY <1>1, LimitAssumption
<1>3. s[1] = L[Len(L) - Len(s) + 1]
    BY <1>2 DEF Keeps
<1> QED
    BY <1>1, <1>2, <1>3 DEF Used

LEMMA AppendSpread ==
    ASSUME NEW L \in Seq(Nat), NEW now \in Nat, Spread(L),
           ~Used(L, now, Window - MaxSkew)
    PROVE  Spread(Append(L, now))
<1> DEFINE L1 == Append(L, now)
<1>1. /\ L1 \in Seq(Nat) /\ Len(L1) = Len(L) + 1 /\ Len(L) \in Nat
      /\ \A i \in 1 .. Len(L) : L1[i] = L[i]
      /\ L1[Len(L) + 1] = now
    BY AppendProperties
<1> HIDE DEF L1
<1> SUFFICES ASSUME NEW i \in 1 .. Len(L1) - MaxRequests
             PROVE  L1[i + MaxRequests] - L1[i] > Window - MaxSkew
    BY DEF Spread, L1
<1>2. i \in 1 .. Len(L)
    BY <1>1, LimitAssumption
<1>3. CASE i + MaxRequests = Len(L) + 1
    <2>1. i = Len(L) - MaxRequests + 1 /\ Len(L) >= MaxRequests
        BY <1>1, <1>2, <1>3, LimitAssumption
    <2>2. now - L[i] > Window - MaxSkew
        <3>1. L[i] \in Nat
            BY <1>2
        <3> QED
            BY <2>1, <3>1, LimiterWindowAssumption, LimiterSkewAssumption DEF Used
    <2> QED
        BY <2>2, <1>1, <1>2, <1>3
<1>4. CASE i + MaxRequests # Len(L) + 1
    <2>1. i \in 1 .. Len(L) - MaxRequests /\ i + MaxRequests \in 1 .. Len(L)
        <3>1. Len(L) \in Nat /\ Len(L1) = Len(L) + 1
            BY <1>1
        <3> QED
            BY <3>1, <1>2, <1>4, LimitAssumption
    <2> QED
        BY <2>1, <1>1, <1>2 DEF Spread
<1> QED
    BY <1>3, <1>4

----------------------------------------------------------------------------
(* The map.                                                                *)

LEMMA HitsOfStore ==
    ASSUME NEW h, NEW k, NEW s, NEW j
    PROVE  HitsOf(Store(h, k, s), j) = IF j = k THEN s ELSE HitsOf(h, j)
BY DEF HitsOf, Store

LEMMA HitsOfPrune ==
    ASSUME NEW h, NEW now \in Nat, NEW k
    PROVE  HitsOf(Prune(h, now), k) = Live(HitsOf(h, k), now)
<1>1. CASE k \notin DOMAIN h
    BY <1>1, NothingToEvict DEF HitsOf, Prune
<1>2. CASE k \in DOMAIN h /\ Live(h[k], now) = <<>>
    BY <1>2 DEF HitsOf, Prune
<1>3. CASE k \in DOMAIN h /\ Live(h[k], now) # <<>>
    BY <1>3 DEF HitsOf, Prune
<1> QED
    BY <1>1, <1>2, <1>3

\* The inductive invariant: of every key, the deque is what the window needs
\* of the admissions, it never exceeds the limit, and the admissions are
\* spread as they should be.
Sound(h, L, t) ==
    \A k \in Keys : /\ Keeps(HitsOf(h, k), L[k], t)
                    /\ Len(HitsOf(h, k)) <= MaxRequests
                    /\ Spread(L[k])

IInv ==
    /\ TypeOK
    /\ Sound(hits, log, clock)

\* A sweep with its own, later reading of the clock keeps the map sound.
LEMMA SweepSound ==
    ASSUME NEW h, NEW L, NEW now \in Nat, NEW later \in Nat, now <= later,
           Sound(h, L, now)
    PROVE  Sound(Prune(h, later), L, later)
<1> SUFFICES ASSUME NEW k \in Keys
             PROVE  /\ Keeps(HitsOf(Prune(h, later), k), L[k], later)
                    /\ Len(HitsOf(Prune(h, later), k)) <= MaxRequests
                    /\ Spread(L[k])
    BY DEF Sound
<1> DEFINE s == HitsOf(h, k)
<1>1. Keeps(s, L[k], now) /\ Len(s) <= MaxRequests /\ Spread(L[k])
    BY DEF Sound
<1>2. HitsOf(Prune(h, later), k) = Live(s, later)
    BY HitsOfPrune
<1> HIDE DEF s
<1>3. Keeps(s, L[k], later)
    BY <1>1, LaterKeeps
<1>4. Keeps(Live(s, later), L[k], later) /\ Len(Live(s, later)) <= Len(s)
    BY <1>3, EvictionKeeps
<1>5. Len(s) \in Nat /\ Len(Live(s, later)) \in Nat
    BY <1>3, <1>4 DEF Keeps
<1>6. Len(Live(s, later)) <= MaxRequests
    BY <1>1, <1>4, <1>5, LimitAssumption
<1> QED
    BY <1>1, <1>2, <1>4, <1>6

\* One verdict, over a sound map at a reading t that the call ends with.
LEMMA DecideSound ==
    ASSUME NEW h, NEW k \in Keys, NEW t \in Nat, TypeOK,
           clock <= t, t <= clock + MaxSkew,
           DOMAIN h \subseteq Keys, Sound(h, log, t), Decide(k, h)
    PROVE  /\ DOMAIN hits' \subseteq Keys
           /\ log' \in [Keys -> Seq(Nat)]
           /\ answer' \in Abstract!Answers
           /\ Sound(hits', log', t)
           /\ Abstract!Admit(k) \/ Abstract!Reject(k)
<1> DEFINE s == HitsOf(h, k)
           live == Live(s, clock)
           L == log[k]
<1>1. clock \in Nat /\ log \in [Keys -> Seq(Nat)] /\ L \in Seq(Nat)
    BY DEF TypeOK
<1>2. Keeps(s, L, t) /\ Len(s) <= MaxRequests /\ Spread(L)
    BY DEF Sound
<1>3. Keeps(live, L, t) /\ Len(live) <= Len(s)
    BY <1>1, <1>2, EvictionKeeps
<1>4. s \in Seq(Nat) /\ live \in Seq(Nat)
    BY <1>2, <1>3 DEF Keeps
<1>5. live # <<>> => clock - live[1] <= Window
    <2>1. PICK n \in 0 .. Len(s) : live # <<>> => clock - live[1] <= Window
        BY <1>1, <1>4, LiveIsTail
    <2> QED
        BY <2>1
<1>6. /\ hits' = Store(h, k, IF HasRoom(live) THEN Append(live, clock) ELSE live)
      /\ log' = IF HasRoom(live) THEN [log EXCEPT ![k] = Append(@, clock)] ELSE log
      /\ answer' = [asked |-> TRUE, key |-> k, at |-> clock, ok |-> HasRoom(live)]
    BY DEF Decide, Abstract!Verdict
<1>7. HasRoom(live) \in BOOLEAN
    BY DEF HasRoom
<1> HIDE DEF s, live, L
<1>8. DOMAIN hits' \subseteq Keys
    BY <1>6 DEF Store
<1>9. answer' \in Abstract!Answers
    BY <1>1, <1>6, <1>7 DEF Abstract!Answers
<1>10. Len(live) <= MaxRequests /\ Len(live) \in Nat
    BY <1>2, <1>3, <1>4, LimitAssumption
<1>11. CASE HasRoom(live)
    <2>1. /\ hits' = Store(h, k, Append(live, clock))
          /\ log' = [log EXCEPT ![k] = Append(L, clock)]
          /\ answer' = [asked |-> TRUE, key |-> k, at |-> clock, ok |-> TRUE]
        <3>1. HasRoom(live) = TRUE
            BY <1>7, <1>11
        <3> QED
            BY <3>1, <1>6 DEF L
    <2>2. ~Used(L, clock, Window - MaxSkew)
        BY <1>1, <1>3, <1>11, RoomMeansUnused
    <2>3. Keeps(Append(live, clock), Append(L, clock), t)
        BY <1>1, <1>3, AppendKeeps
    <2>4. Len(Append(live, clock)) <= MaxRequests
        BY <1>1, <1>4, <1>10, <1>11, AppendProperties, LimitAssumption DEF HasRoom
    <2>5. Spread(Append(L, clock)) /\ Append(L, clock) \in Seq(Nat)
        BY <1>1, <1>2, <2>2, AppendSpread, AppendProperties
    <2>6. Sound(hits', log', t)
        <3> SUFFICES ASSUME NEW j \in Keys
                     PROVE  /\ Keeps(HitsOf(hits', j), log'[j], t)
                            /\ Len(HitsOf(hits', j)) <= MaxRequests
                            /\ Spread(log'[j])
            BY DEF Sound
        <3>1. CASE j = k
            <4>1. HitsOf(hits', j) = Append(live, clock)
                <5>1. HitsOf(Store(h, k, Append(live, clock)), k) = Append(live, clock)
                    BY DEF HitsOf, Store
                <5> QED
                    BY <5>1, <3>1, <2>1
            <4>2. log'[j] = Append(L, clock)
                BY <3>1, <1>1, <2>1
            <4> QED
                BY <4>1, <4>2, <2>3, <2>4, <2>5
        <3>2. CASE j # k
            BY <3>2, <1>1, <2>1, HitsOfStore DEF Sound
        <3> QED
            BY <3>1, <3>2
    <2>7. Abstract!Admit(k)
        BY <2>1, <2>2 DEF Abstract!Admit, Abstract!AllowanceUsed, Abstract!Verdict,
                          Used, L
    <2>8. log' \in [Keys -> Seq(Nat)]
        BY <1>1, <2>1, <2>5
    <2> QED
        BY <1>8, <1>9, <2>6, <2>7, <2>8
<1>12. CASE ~HasRoom(live)
    <2>1. /\ hits' = Store(h, k, live)
          /\ log' = log
          /\ answer' = [asked |-> TRUE, key |-> k, at |-> clock, ok |-> FALSE]
        <3>1. HasRoom(live) = FALSE
            BY <1>7, <1>12
        <3> QED
            BY <3>1, <1>6
    <2>2. Used(L, clock, Window)
        BY <1>1, <1>3, <1>5, <1>10, <1>12, NoRoomMeansUsed
    <2>3. Sound(hits', log', t)
        <3> SUFFICES ASSUME NEW j \in Keys
                     PROVE  /\ Keeps(HitsOf(hits', j), log[j], t)
                            /\ Len(HitsOf(hits', j)) <= MaxRequests
                            /\ Spread(log[j])
            BY <2>1 DEF Sound
        <3>1. CASE j = k
            BY <3>1, <2>1, <1>2, <1>3, <1>10, HitsOfStore DEF L
        <3>2. CASE j # k
            BY <3>2, <2>1, HitsOfStore DEF Sound
        <3> QED
            BY <3>1, <3>2
    <2>4. Abstract!Reject(k)
        BY <2>1, <2>2 DEF Abstract!Reject, Abstract!AllowanceUsed, Abstract!Verdict,
                          Used, L
    <2> QED
        BY <1>1, <1>8, <1>9, <2>1, <2>3, <2>4
<1> QED
    BY <1>11, <1>12

----------------------------------------------------------------------------
(* The invariants.                                                         *)

LEMMA InitSound == Init => IInv
<1> SUFFICES ASSUME Init PROVE IInv
    OBVIOUS
<1>1. TypeOK
    BY ClockBoundAssumption DEF Init, TypeOK
<1>2. Sound(hits, log, clock)
    <2> SUFFICES ASSUME NEW k \in Keys
                 PROVE  /\ Keeps(HitsOf(hits, k), log[k], clock)
                        /\ Len(HitsOf(hits, k)) <= MaxRequests
                        /\ Spread(log[k])
        BY DEF Sound
    <2>1. HitsOf(hits, k) = <<>> /\ log[k] = <<>>
        BY DEF Init, HitsOf
    <2>2. <<>> \in Seq(Nat) /\ Len(<<>>) = 0
        OBVIOUS
    <2> QED
        BY <2>1, <2>2, LimitAssumption DEF Keeps, Spread
<1> QED
    BY <1>1, <1>2 DEF IInv

\* A call of allow() keeps the invariant and is a step of the abstract window:
\* one lemma for both, because the verdict is justified by the deque.
LEMMA AllowSound ==
    ASSUME IInv, NEW k \in Keys, Allow(k)
    PROVE  /\ IInv'
           /\ Abstract!Admit(k) \/ Abstract!Reject(k)
           /\ clock' \in clock .. clock + MaxSkew
<1>1. TypeOK /\ Sound(hits, log, clock) /\ clock \in Nat /\ lastPrune \in Nat
    BY DEF IInv, TypeOK
<1>2. CASE AllowWithoutSweep(k)
    <2>1. Decide(k, hits) /\ clock' = clock /\ lastPrune' = lastPrune
        BY <1>2 DEF AllowWithoutSweep
    <2>2. clock <= clock /\ clock <= clock + MaxSkew /\ DOMAIN hits \subseteq Keys
        BY <1>1, LimiterSkewAssumption DEF TypeOK
    <2>3. /\ DOMAIN hits' \subseteq Keys
          /\ log' \in [Keys -> Seq(Nat)]
          /\ answer' \in Abstract!Answers
          /\ Sound(hits', log', clock)
          /\ Abstract!Admit(k) \/ Abstract!Reject(k)
        BY <1>1, <2>1, <2>2, DecideSound
    <2>4. \A j \in DOMAIN hits' : hits'[j] \in Seq(Nat)
        BY <2>3 DEF Sound, Keeps, HitsOf
    <2>5. TypeOK'
        BY <1>1, <2>1, <2>3, <2>4 DEF TypeOK
    <2>6. clock' \in clock .. clock + MaxSkew
        BY <1>1, <2>1, LimiterSkewAssumption
    <2> QED
        BY <2>1, <2>3, <2>5, <2>6 DEF IInv
<1>3. CASE AllowWithSweep(k)
    <2>1. PICK later \in clock .. clock + MaxSkew :
              clock' = later /\ lastPrune' = later /\ Decide(k, Prune(hits, later))
        BY <1>3 DEF AllowWithSweep
    <2>2. later \in Nat /\ clock <= later /\ later <= clock + MaxSkew
        BY <1>1, LimiterSkewAssumption
    <2>3. Sound(Prune(hits, later), log, later)
        BY <1>1, <2>2, SweepSound
    <2>4. DOMAIN Prune(hits, later) \subseteq Keys
        BY <1>1 DEF Prune, TypeOK
    <2>5. /\ DOMAIN hits' \subseteq Keys
          /\ log' \in [Keys -> Seq(Nat)]
          /\ answer' \in Abstract!Answers
          /\ Sound(hits', log', later)
          /\ Abstract!Admit(k) \/ Abstract!Reject(k)
        BY <1>1, <2>1, <2>2, <2>3, <2>4, DecideSound
    <2>6. \A j \in DOMAIN hits' : hits'[j] \in Seq(Nat)
        BY <2>5 DEF Sound, Keeps, HitsOf
    <2>7. TypeOK'
        BY <1>1, <2>1, <2>2, <2>5, <2>6 DEF TypeOK
    <2> QED
        BY <2>1, <2>5, <2>7 DEF IInv
<1> QED
    BY <1>2, <1>3 DEF Allow

LEMMA StepSound ==
    ASSUME IInv, Next
    PROVE  IInv' /\ Abstract!Next
<1>1. TypeOK /\ Sound(hits, log, clock) /\ clock \in Nat /\ lastPrune \in Nat
    BY DEF IInv, TypeOK
<1>2. CASE Tick
    <2>1. clock' = clock + 1 /\ clock' \in Nat /\ clock <= clock'
        BY <1>1, <1>2 DEF Tick
    <2>2. Sound(hits, log, clock')
        <3> SUFFICES ASSUME NEW k \in Keys
                     PROVE  Keeps(HitsOf(hits, k), log[k], clock')
            BY <1>1 DEF Sound
        <3>1. Keeps(HitsOf(hits, k), log[k], clock)
            BY <1>1 DEF Sound
        <3> QED
            BY <3>1, <1>1, <2>1, LaterKeeps
    <2>3. hits' = hits /\ log' = log /\ lastPrune' = lastPrune /\ answer' = answer
        BY <1>2 DEF Tick
    <2>4. TypeOK'
        BY <1>1, <2>1, <2>3 DEF TypeOK
    <2>5. Abstract!Next
        BY <1>2 DEF Tick, Abstract!Tick, Abstract!Next
    <2> QED
        BY <2>2, <2>3, <2>4, <2>5 DEF IInv
<1>3. ASSUME NEW k \in Keys, Allow(k)
      PROVE  IInv' /\ Abstract!Next
    BY <1>3, AllowSound DEF Abstract!Ask, Abstract!Next
<1> QED
    BY <1>2, <1>3 DEF Next

LEMMA StutterSound ==
    ASSUME IInv, UNCHANGED vars
    PROVE  IInv'
BY DEF IInv, Sound, TypeOK, vars

\* The inductive invariant holds of every state the limiter reaches.
THEOREM LimiterInvariant == Spec => []IInv
<1>1. IInv /\ [Next]_vars => IInv'
    BY StepSound, StutterSound
<1> QED
    BY InitSound, <1>1, PTL DEF Spec

\* Type correctness: allow() and prune() keep self._hits a map from known keys
\* to deques of clock readings.
THEOREM TypeCorrect == Spec => []TypeOK
<1>1. IInv => TypeOK
    BY DEF IInv
<1> QED
    BY LimiterInvariant, <1>1, PTL

\* However sweeps and evictions fall, allow() admits no client more than
\* MaxRequests times within a window (less the time one call takes).
THEOREM AdmissionsSpread == Spec => []WindowBound
<1>1. IInv => WindowBound
    BY DEF IInv, Sound, Spread, WindowBound
<1> QED
    BY LimiterInvariant, <1>1, PTL

\* What prune() and the popleft loop of allow() drop no longer counts.
THEOREM ForgetsOnlyTheExpired == Spec => []NothingLiveForgotten
<1>1. IInv => NothingLiveForgotten
    BY DEF IInv, Sound, Keeps, NothingLiveForgotten
<1> QED
    BY LimiterInvariant, <1>1, PTL

\* The limiter implements the sliding window its clients are promised: every
\* admission and every refusal is one the abstract window allows.
THEOREM LimiterImplementsWindow == Spec => ImplementsSlidingWindow
<1>1. Init => Abstract!Init
    BY DEF Init, Abstract!Init
<1>2. IInv /\ [Next]_vars => [Abstract!Next]_Abstract!vars
    <2>1. ASSUME UNCHANGED vars
          PROVE  UNCHANGED Abstract!vars
        BY <2>1 DEF vars, Abstract!vars
    <2> QED
        BY <2>1, StepSound
<1> QED
    BY LimiterInvariant, <1>1, <1>2, PTL DEF Spec, ImplementsSlidingWindow, Abstract!Spec

----------------------------------------------------------------------------
(* Idle keys are reclaimed.                                                *)

\* A deque in use: oldest hit first, none later than t, the newest at most
\* one window older than p.
InUse(s, p, t) ==
    /\ s \in Seq(Nat) /\ Len(s) \in Nat \ {0}
    /\ \A i \in 1 .. Len(s) : s[i] <= s[Len(s)]
    /\ s[Len(s)] <= t
    /\ p - s[Len(s)] <= Window

Recent(h, p, t) == \A k \in DOMAIN h : InUse(h[k], p, t)

\* What an eviction leaves of a deque in use is in use; and if it leaves
\* anything at all, the newest hit is in the window of the eviction.
LEMMA LiveInUse ==
    ASSUME NEW s, NEW p \in Nat, NEW t \in Nat, NEW now \in Nat,
           InUse(s, p, t), Live(s, now) # <<>>
    PROVE  InUse(Live(s, now), p, t) /\ InUse(Live(s, now), now, t)
<1> DEFINE live == Live(s, now)
<1>1. /\ s \in Seq(Nat) /\ Len(s) \in Nat \ {0}
      /\ \A i \in 1 .. Len(s) : s[i] <= s[Len(s)] /\ s[i] \in Nat
      /\ s[Len(s)] <= t /\ p - s[Len(s)] <= Window
    BY DEF InUse
<1>2. PICK n \in 0 .. Len(s) :
          /\ live \in Seq(Nat) /\ Len(live) = Len(s) - n
          /\ \A i \in 1 .. Len(s) - n : live[i] = s[n + i]
          /\ live # <<>> => now - live[1] <= Window
    BY <1>1, LiveIsTail
<1>3. live # <<>>
    OBVIOUS
<1> HIDE DEF live
<1>4. n \in Nat /\ n < Len(s) /\ Len(live) \in Nat \ {0}
    <2>1. Len(live) \in Nat /\ Len(live) # 0
        BY <1>2, <1>3
    <2> QED
        BY <2>1, <1>1, <1>2
<1>5. live[Len(live)] = s[Len(s)]
    <2>1. Len(live) \in 1 .. Len(s) - n /\ n + Len(live) = Len(s)
        <3>1. Len(live) = Len(s) - n
            BY <1>2
        <3> QED
            BY <3>1, <1>1, <1>4
    <2> QED
        BY <2>1, <1>2
<1>6. \A i \in 1 .. Len(live) : live[i] <= s[Len(s)]
    <2> TAKE i \in 1 .. Len(live)
    <2>1. i \in 1 .. Len(s) - n /\ n + i \in 1 .. Len(s)
        <3>1. Len(live) = Len(s) - n
            BY <1>2
        <3> QED
            BY <3>1, <1>1, <1>4
    <2> QED
        BY <2>1, <1>1, <1>2
<1>7. now - s[Len(s)] <= Window
    <2>1. 1 \in 1 .. Len(live) /\ 1 \in 1 .. Len(s) - n /\ n + 1 \in 1 .. Len(s)
        <3>1. Len(live) = Len(s) - n
            BY <1>2
        <3> QED
            BY <3>1, <1>1, <1>4
    <2>2. live[1] <= s[Len(s)] /\ live[1] \in Nat /\ s[Len(s)] \in Nat
        <3>1. live[1] <= s[Len(s)]
            BY <2>1, <1>6
        <3>2. live[1] = s[n + 1]
            BY <2>1, <1>2
        <3>3. s[n + 1] \in Nat /\ s[Len(s)] \in Nat
            <4>1. Len(s) \in 1 .. Len(s)
                BY <1>1
            <4> QED
                BY <2>1, <4>1, <1>1
        <3> QED
            BY <3>1, <3>2, <3>3
    <2>3. now - live[1] <= Window
        BY <1>2, <1>3
    <2> QED
        BY <2>2, <2>3, LimiterWindowAssumption
<1> QED
    BY <1>1, <1>2, <1>4, <1>5, <1>6, <1>7 DEF InUse, live

\* After a sweep the newest hit of every key left is in the sweep's window.
LEMMA SweepRecent ==
    ASSUME NEW h, NEW p \in Nat, NEW t \in Nat, NEW later \in Nat, Recent(h, p, t)
    PROVE  Recent(Prune(h, later), later, t)
<1> SUFFICES ASSUME NEW k \in DOMAIN Prune(h, later)
             PROVE  InUse(Prune(h, later)[k], later, t)
    BY DEF Recent
<1>1. k \in DOMAIN h /\ Live(h[k], later) # <<>> /\ Prune(h, later)[k] = Live(h[k], later)
    BY DEF Prune
<1> QED
    BY <1>1, LiveInUse DEF Recent

\* A verdict leaves no key without hits: a refused key has some, an admitted
\* one has just got one.
LEMMA DecideRecent ==
    ASSUME NEW h, NEW k, NEW p \in Nat, clock \in Nat, p - clock <= Window,
           Recent(h, p, clock), Decide(k, h)
    PROVE  Recent(hits', p, clock)
<1> DEFINE live == Live(HitsOf(h, k), clock)
<1>1. hits' = Store(h, k, IF HasRoom(live) THEN Append(live, clock) ELSE live)
    BY DEF Decide
<1>2. live = <<>> \/ InUse(live, p, clock)
    <2>1. CASE k \in DOMAIN h
        BY <2>1, LiveInUse DEF Recent, HitsOf
    <2>2. CASE k \notin DOMAIN h
        BY <2>2, NothingToEvict DEF HitsOf
    <2> QED
        BY <2>1, <2>2
<1> HIDE DEF live
<1>3. CASE HasRoom(live)
    <2> DEFINE s1 == Append(live, clock)
    <2>1. live \in Seq(Nat) /\ Len(live) \in Nat
        <3>1. <<>> \in Seq(Nat) /\ Len(<<>>) = 0
            OBVIOUS
        <3> QED
            BY <3>1, <1>2 DEF InUse
    <2>2. \A i \in 1 .. Len(live) : live[i] <= clock
        <3>1. CASE live = <<>>
            BY <3>1
        <3>2. CASE InUse(live, p, clock)
            <4> TAKE i \in 1 .. Len(live)
            <4>1. Len(live) \in 1 .. Len(live)
                BY <2>1
            <4>2. live[i] <= live[Len(live)] /\ live[Len(live)] <= clock
                BY <3>2 DEF InUse
            <4>3. live[i] \in Nat /\ live[Len(live)] \in Nat
                BY <2>1, <4>1
            <4> QED
                BY <4>2, <4>3
        <3> QED
            BY <1>2, <3>1, <3>2
    <2>3. /\ s1 \in Seq(Nat) /\ Len(s1) = Len(live) + 1
          /\ \A i \in 1 .. Len(live) : s1[i] = live[i]
          /\ s1[Len(live) + 1] = clock
        BY <2>1, AppendProperties
    <2> HIDE DEF s1
    <2>4. \A i \in 1 .. Len(s1) : s1[i] <= clock
        <3> TAKE i \in 1 .. Len(s1)
        <3>1. i \in 1 .. Len(live) \/ i = Len(live) + 1
            BY <2>1, <2>3
        <3> QED
            BY <3>1, <2>2, <2>3
    <2>5. InUse(s1, p, clock)
        BY <2>1, <2>3, <2>4 DEF InUse
    <2>6. hits' = Store(h, k, s1)
        BY <1>1, <1>3 DEF s1
    <2> QED
        BY <2>5, <2>6 DEF Recent, Store
<1>4. CASE ~HasRoom(live)
    <2>1. live # <<>>
        BY <1>4, LimitAssumption DEF HasRoom
    <2>2. hits' = Store(h, k, live)
        BY <1>1, <1>4
    <2> QED
        BY <1>2, <2>1, <2>2 DEF Recent, Store
<1> QED
    BY <1>3, <1>4

RecentInv ==
    /\ IInv
    /\ Recent(hits, lastPrune, clock)
    /\ lastPrune <= clock

\* The newest hit of every key is at most a window older than the latest sweep,
\* and the latest sweep less than a window older than the call.
LEMMA RecentStep ==
    ASSUME RecentInv, Next
    PROVE  /\ RecentInv'
           /\ \/ UNCHANGED <<hits, answer>>
              \/ \A k \in DOMAIN hits' :
                    hits'[k] # <<>> /\ clock' - hits'[k][Len(hits'[k])] <= 2 * Window
<1>1. /\ IInv /\ IInv' /\ Recent(hits, lastPrune, clock) /\ lastPrune <= clock
      /\ clock \in Nat /\ lastPrune \in Nat
    BY StepSound DEF RecentInv, IInv, TypeOK
<1>2. ASSUME NEW h, NEW p \in Nat, NEW t \in Nat, NEW u \in Nat,
             Recent(h, p, t), t <= u
      PROVE  Recent(h, p, u)
    <2> SUFFICES ASSUME NEW k \in DOMAIN h
                 PROVE  InUse(h[k], p, u)
        BY DEF Recent
    <2>1. InUse(h[k], p, t)
        BY <1>2 DEF Recent
    <2>2. h[k][Len(h[k])] \in Nat
        BY <2>1 DEF InUse
    <2> QED
        BY <2>1, <2>2, <1>2 DEF InUse
<1>3. ASSUME NEW h, NEW p \in Nat, NEW t \in Nat, NEW u \in Nat,
             Recent(h, p, t), u - p <= Window
      PROVE  \A k \in DOMAIN h : h[k] # <<>> /\ u - h[k][Len(h[k])] <= 2 * Window
    <2> TAKE k \in DOMAIN h
    <2>1. InUse(h[k], p, t)
        BY <1>3 DEF Recent
    <2>2. h[k][Len(h[k])] \in Nat /\ h[k] # <<>>
        BY <2>1 DEF InUse
    <2>3. p - h[k][Len(h[k])] <= Window
        BY <2>1 DEF InUse
    <2> QED
        BY <2>2, <2>3, <1>3, LimiterWindowAssumption
<1>4. CASE Tick
    <2>1. /\ clock' = clock + 1 /\ hits' = hits /\ lastPrune' = lastPrune
          /\ answer' = answer
        BY <1>4 DEF Tick
    <2>2. Recent(hits, lastPrune, clock + 1) /\ lastPrune <= clock + 1
        BY <1>1, <1>2
    <2> QED
        BY <1>1, <2>1, <2>2 DEF RecentInv
<1>5. ASSUME NEW k \in Keys, AllowWithoutSweep(k)
      PROVE  /\ RecentInv'
             /\ \A j \in DOMAIN hits' :
                  hits'[j] # <<>> /\ clock' - hits'[j][Len(hits'[j])] <= 2 * Window
    <2>1. Decide(k, hits) /\ clock' = clock /\ lastPrune' = lastPrune
        BY <1>5 DEF AllowWithoutSweep
    <2>2. clock - lastPrune <= Window /\ lastPrune - clock <= Window
        BY <1>1, <1>5, LimiterWindowAssumption DEF AllowWithoutSweep, PruneDue
    <2>3. Recent(hits', lastPrune, clock)
        BY <1>1, <2>1, <2>2, DecideRecent
    <2>4. \A j \in DOMAIN hits' :
             hits'[j] # <<>> /\ clock - hits'[j][Len(hits'[j])] <= 2 * Window
        BY <1>1, <1>3, <2>2, <2>3
    <2> QED
        BY <1>1, <2>1, <2>3, <2>4 DEF RecentInv
<1>6. ASSUME NEW k \in Keys, AllowWithSweep(k)
      PROVE  /\ RecentInv'
             /\ \A j \in DOMAIN hits' :
                  hits'[j] # <<>> /\ clock' - hits'[j][Len(hits'[j])] <= 2 * Window
    <2>1. PICK later \in clock .. clock + MaxSkew :
              clock' = later /\ lastPrune' = later /\ Decide(k, Prune(hits, later))
        BY <1>6 DEF AllowWithSweep
    <2>2. /\ later \in Nat /\ clock <= later /\ later - clock <= Window
          /\ later - later <= Window
        BY <1>1, LimiterSkewAssumption, LimiterWindowAssumption
    <2>3. Recent(Prune(hits, later), later, clock)
        BY <1>1, <2>2, SweepRecent
    <2>4. Recent(hits', later, clock)
        BY <1>1, <2>1, <2>2, <2>3, DecideRecent
    <2>5. Recent(hits', later, later)
        BY <1>1, <1>2, <2>2, <2>4
    <2>6. \A j \in DOMAIN hits' :
             hits'[j] # <<>> /\ later - hits'[j][Len(hits'[j])] <= 2 * Window
        BY <1>3, <2>2, <2>5
    <2> QED
        BY <1>1, <2>1, <2>2, <2>5, <2>6 DEF RecentInv
<1> QED
    BY <1>4, <1>5, <1>6 DEF Next, Allow, Tick

\* Whenever a call of allow() changes the map, every key in it was admitted
\* within the last two windows: the map cannot grow with the sessions ever seen.
THEOREM IdleKeysGo == Spec => IdleEntriesReclaimed
<1>1. Init => RecentInv
    BY InitSound, ClockBoundAssumption DEF Init, RecentInv, Recent
<1>2. RecentInv /\ [Next]_vars => RecentInv'
    <2>1. RecentInv /\ UNCHANGED vars => RecentInv'
        BY StutterSound DEF RecentInv, vars
    <2> QED
        BY <2>1, RecentStep
<1>3. RecentInv /\ [Next]_vars =>
        [<<hits, answer>>' # <<hits, answer>> =>
            \A k \in DOMAIN hits' :
                /\ hits'[k] # <<>>
                /\ clock' - hits'[k][Len(hits'[k])] <= 2 * Window]_vars
    BY RecentStep
<1> QED
    BY <1>1, <1>2, <1>3, PTL DEF Spec, IdleEntriesReclaimed

----------------------------------------------------------------------------
(* The endpoint.                                                           *)

Requests == [tab : Tabs \cup {Nobody}, header : {"session", "none", "malformed"},
             key : {"right", "wrong"}, at : Nat, state : {"sent", "running", "replied"},
             outcome : {"none", "served"} \cup Rejections, open : BOOLEAN]

\* A session header names the tab that sent it, and every tab sends one.
Typed ==
    /\ tab \in [Tabs -> [waiting : Nat, deadline : Nat, shown : Nat]]
    /\ requests \in Seq(Requests)
    /\ \A r \in DOMAIN requests :
          /\ requests[r].header = "session" <=> requests[r].tab \in Tabs
          /\ requests[r].state \in {"sent", "running"} <=> requests[r].outcome = "none"

\* What an answered or an abandoned request, and a new one, leave of the others.
Kept(r) ==
    /\ requests'[r].tab = requests[r].tab
    /\ requests'[r].header = requests[r].header
    /\ requests'[r].at = requests[r].at
    /\ requests'[r].state = requests[r].state
    /\ requests'[r].outcome = requests[r].outcome

\* What a tab shows and waits for, of its own requests: it waits for the latest
\* or shows it, and only the connection it waits on is open.
Watched ==
    \A t \in Tabs :
        /\ tab[t].waiting # 0 =>
              /\ tab[t].waiting \in Of(t) /\ tab[t].shown = 0
              /\ \A q \in Of(t) : q <= tab[t].waiting
        /\ tab[t].shown # 0 =>
              /\ tab[t].shown \in Of(t)
              /\ \A q \in Of(t) : q <= tab[t].shown
        /\ \A r \in Of(t) : requests[r].open = TRUE => r = tab[t].waiting

LEMMA Requested ==
    ASSUME Typed
    PROVE  /\ Len(requests) \in Nat /\ DOMAIN requests = 1 .. Len(requests)
           /\ \A r \in DOMAIN requests : requests[r] \in Requests
           /\ \A r \in DOMAIN requests : r \in Nat /\ r # 0
           /\ \A t \in Tabs : tab[t] \in [waiting : Nat, deadline : Nat, shown : Nat]
BY DEF Typed

----------------------------------------------------------------------------
(* What each kind of step does to the requests.                            *)

\* A new request, at the end.
LEMMA Posting ==
    ASSUME Typed, NEW r \in Requests, requests' = Append(requests, r),
           r.state = "sent", r.outcome = "none",
           r.header = "session" <=> r.tab \in Tabs,
           tab' \in [Tabs -> [waiting : Nat, deadline : Nat, shown : Nat]]
    PROVE  /\ Typed'
           /\ DOMAIN requests' = DOMAIN requests \cup {Len(requests) + 1}
           /\ \A q \in DOMAIN requests : requests'[q] = requests[q]
           /\ requests'[Len(requests) + 1] = r
           /\ Forwarded' = Forwarded
<1>1. /\ Len(requests) \in Nat /\ DOMAIN requests = 1 .. Len(requests)
      /\ requests' \in Seq(Requests) /\ Len(requests') = Len(requests) + 1
      /\ DOMAIN requests' = 1 .. Len(requests')
      /\ \A q \in DOMAIN requests : requests'[q] = requests[q]
      /\ requests'[Len(requests) + 1] = r
    BY DEF Typed
<1>2. DOMAIN requests' = DOMAIN requests \cup {Len(requests) + 1}
    BY <1>1
<1>3. \A q \in DOMAIN requests' : q \in DOMAIN requests \/ requests'[q] = r
    BY <1>1, <1>2
<1>4. Forwarded' = Forwarded
    BY <1>1, <1>2 DEF Forwarded
<1>5. Typed'
    BY <1>1, <1>3 DEF Typed
<1> QED
    BY <1>1, <1>2, <1>4, <1>5

\* The connection of a request is closed.
LEMMA Closing ==
    ASSUME Typed, NEW r \in DOMAIN requests,
           requests' = [requests EXCEPT ![r].open = FALSE],
           tab' \in [Tabs -> [waiting : Nat, deadline : Nat, shown : Nat]]
    PROVE  /\ Typed'
           /\ DOMAIN requests' = DOMAIN requests
           /\ \A q \in DOMAIN requests : Kept(q)
           /\ \A q \in DOMAIN requests : q # r => requests'[q] = requests[q]
           /\ requests'[r].open = FALSE
           /\ Forwarded' = Forwarded
<1>1. /\ requests[r] \in Requests
      /\ requests' = [requests EXCEPT ![r] = [requests[r] EXCEPT !.open = FALSE]]
    BY DEF Typed
<1>2. [requests[r] EXCEPT !.open = FALSE] \in Requests
    BY <1>1 DEF Requests
<1>3. /\ requests' \in Seq(Requests) /\ DOMAIN requests' = DOMAIN requests
      /\ \A q \in DOMAIN requests : q # r => requests'[q] = requests[q]
      /\ requests'[r] = [requests[r] EXCEPT !.open = FALSE]
    BY <1>1, <1>2, ExceptSeq DEF Typed
<1>4. requests'[r].open = FALSE /\ Kept(r)
    BY <1>1, <1>3 DEF Kept, Requests
<1>5. \A q \in DOMAIN requests : Kept(q)
    BY <1>3, <1>4 DEF Kept
<1>6. Forwarded' = Forwarded
    BY <1>3, <1>5 DEF Forwarded, Kept
<1>7. Typed'
    BY <1>3, <1>5 DEF Typed, Kept
<1> QED
    BY <1>3, <1>4, <1>5, <1>6, <1>7

\* The guards settle a request: refused, or put to the use case.
LEMMA Settling ==
    ASSUME Typed, clock \in Nat, NEW r \in DOMAIN requests, requests[r].state = "sent",
           NEW outcome \in {"none"} \cup Rejections, Settle(r, outcome), tab' = tab
    PROVE  /\ Typed'
           /\ DOMAIN requests' = DOMAIN requests
           /\ \A q \in DOMAIN requests : q # r => requests'[q] = requests[q]
           /\ requests'[r].tab = requests[r].tab /\ requests'[r].header = requests[r].header
           /\ requests'[r].open = requests[r].open
           /\ requests'[r].at = clock /\ requests'[r].outcome = outcome
           /\ r \notin Forwarded
           /\ Forwarded' = IF outcome = "none" THEN Forwarded \cup {r} ELSE Forwarded
<1> DEFINE state == IF outcome = "none" THEN "running" ELSE "replied"
           settled == [requests[r] EXCEPT !.outcome = outcome, !.at = clock, !.state = state]
<1>1. requests[r] \in Requests /\ state \in {"running", "replied"}
    BY DEF Typed
<1>2. /\ settled \in Requests
      /\ settled.tab = requests[r].tab /\ settled.header = requests[r].header
      /\ settled.open = requests[r].open
      /\ settled.at = clock /\ settled.outcome = outcome /\ settled.state = state
    BY <1>1 DEF Requests
<1>3. requests' = [requests EXCEPT ![r] = settled]
    BY <1>1 DEF Settle, Typed
<1> HIDE DEF settled
<1>4. /\ requests' \in Seq(Requests) /\ DOMAIN requests' = DOMAIN requests
      /\ \A q \in DOMAIN requests : q # r => requests'[q] = requests[q]
      /\ requests'[r] = settled
    BY <1>2, <1>3, ExceptSeq DEF Typed
<1>5. Typed'
    BY <1>2, <1>4 DEF Typed, Rejections
<1>6. r \notin Forwarded
    BY DEF Forwarded
<1>7. r \in Forwarded' <=> outcome = "none"
    BY <1>2, <1>4 DEF Forwarded, Rejections
<1>8. \A q \in DOMAIN requests : q # r => (q \in Forwarded' <=> q \in Forwarded)
    BY <1>4 DEF Forwarded
<1>9. Forwarded' = IF outcome = "none" THEN Forwarded \cup {r} ELSE Forwarded
    BY <1>4, <1>6, <1>7, <1>8 DEF Forwarded
<1> QED
    BY <1>2, <1>4, <1>5, <1>6, <1>9

\* The use case is done with a request.
LEMMA Finishing ==
    ASSUME Typed, NEW r \in DOMAIN requests, Finish(r)
    PROVE  /\ Typed'
           /\ DOMAIN requests' = DOMAIN requests
           /\ \A q \in DOMAIN requests : q # r => requests'[q] = requests[q]
           /\ requests'[r].tab = requests[r].tab /\ requests'[r].header = requests[r].header
           /\ requests'[r].open = requests[r].open
           /\ requests'[r].at = requests[r].at /\ requests'[r].outcome = "served"
           /\ Forwarded' = Forwarded
<1> DEFINE done == [requests[r] EXCEPT !.outcome = "served", !.state = "replied"]
<1>1. requests[r] \in Requests /\ requests[r].state = "running" /\ requests[r].outcome = "none"
    BY DEF Typed, Finish
<1>2. /\ done \in Requests
      /\ done.tab = requests[r].tab /\ done.header = requests[r].header
      /\ done.open = requests[r].open
      /\ done.at = requests[r].at /\ done.outcome = "served" /\ done.state = "replied"
    BY <1>1 DEF Requests
<1>3. requests' = [requests EXCEPT ![r] = done] /\ tab' = tab
    BY <1>1 DEF Finish, Typed
<1> HIDE DEF done
<1>4. /\ requests' \in Seq(Requests) /\ DOMAIN requests' = DOMAIN requests
      /\ \A q \in DOMAIN requests : q # r => requests'[q] = requests[q]
      /\ requests'[r] = done
    BY <1>2, <1>3, ExceptSeq DEF Typed
<1>5. Typed'
    BY <1>2, <1>3, <1>4 DEF Typed
<1>6. r \in Forwarded /\ r \in Forwarded'
    BY <1>1, <1>2, <1>4 DEF Forwarded, Rejections
<1>7. Forwarded' = Forwarded
    BY <1>4, <1>6 DEF Forwarded
<1> QED
    BY <1>2, <1>4, <1>5, <1>7

----------------------------------------------------------------------------
(* The limiter inside the endpoint.                                        *)

LEMMA BucketIsKey ==
    ASSUME Typed, NEW r \in DOMAIN requests
    PROVE  Bucket(r) \in Keys
BY ServingAssumption DEF Typed, Bucket, Buckets

\* The endpoint asks the limiter as its specification lets it be asked.
LEMMA LimiterStep == Typed /\ [ServingNext]_servingVars => [Next]_vars
<1> SUFFICES ASSUME Typed, [ServingNext]_servingVars PROVE [Next]_vars
    OBVIOUS
<1>1. ASSUME NEW t \in Tabs, Ask(t) \/ GiveUp(t) PROVE UNCHANGED vars
    BY <1>1 DEF Ask, GiveUp
<1>2. CASE CallDirectly
    BY <1>2 DEF CallDirectly
<1>3. ASSUME NEW r \in DOMAIN requests, Serve(r) \/ Deliver(r) PROVE [Next]_vars
    <2>1. CASE Admit(r)
        BY <2>1, BucketIsKey DEF Admit, Next
    <2>2. CASE RefuseKey(r) \/ RefuseSession(r) \/ Finish(r) \/ Deliver(r)
        BY <2>2 DEF RefuseKey, RefuseSession, Finish, Deliver
    <2> QED
        BY <1>3, <2>1, <2>2 DEF Serve
<1>4. CASE TimePasses
    BY <1>4 DEF TimePasses, Next
<1>5. CASE UNCHANGED servingVars
    BY <1>5 DEF servingVars, vars
<1> QED
    BY <1>1, <1>2, <1>3, <1>4, <1>5 DEF ServingNext

LEMMA Posted ==
    ASSUME NEW sender \in Tabs \cup {Nobody}, NEW header \in {"session", "none", "malformed"},
           NEW key \in {"right", "wrong"}
    PROVE  /\ Sent(sender, header, key) \in Requests
           /\ Sent(sender, header, key).tab = sender
           /\ Sent(sender, header, key).header = header
           /\ Sent(sender, header, key).state = "sent"
           /\ Sent(sender, header, key).outcome = "none"
BY DEF Sent, Requests

TabStates == [waiting : Nat, deadline : Nat, shown : Nat]

\* A question of a tab, and a call that comes from none.
LEMMA Asking ==
    ASSUME Typed, clock \in Nat, NEW t \in Tabs, Ask(t)
    PROVE  /\ Typed'
           /\ DOMAIN requests' = DOMAIN requests \cup {Len(requests) + 1}
           /\ \A q \in DOMAIN requests : requests'[q] = requests[q]
           /\ requests'[Len(requests) + 1].tab = t
           /\ requests'[Len(requests) + 1].outcome = "none"
           /\ Forwarded' = Forwarded
<1>1. tab' \in [Tabs -> TabStates]
    BY ServingAssumption DEF Ask, Typed, TabStates
<1>2. requests' = Append(requests, Sent(t, "session", "right"))
    BY DEF Ask
<1> QED
    BY <1>1, <1>2, Posted, Posting DEF TabStates

LEMMA Calling ==
    ASSUME Typed, CallDirectly
    PROVE  /\ Typed' /\ tab' = tab
           /\ DOMAIN requests' = DOMAIN requests \cup {Len(requests) + 1}
           /\ \A q \in DOMAIN requests : requests'[q] = requests[q]
           /\ requests'[Len(requests) + 1].tab = Nobody
           /\ requests'[Len(requests) + 1].outcome = "none"
           /\ Forwarded' = Forwarded
<1>1. PICK header \in {"none", "malformed"}, key \in {"right", "wrong"} :
          requests' = Append(requests, Sent(Nobody, header, key))
    BY DEF CallDirectly
<1>2. tab' = tab /\ tab' \in [Tabs -> TabStates] /\ Nobody \notin Tabs
    BY ServingAssumption DEF CallDirectly, Typed, TabStates
<1> QED
    BY <1>1, <1>2, Posted, Posting DEF TabStates

\* An answer that arrives, or the time-out before it does.
LEMMA Ending ==
    ASSUME Typed, Watched, NEW t \in Tabs, NEW r \in DOMAIN requests,
           \/ GiveUp(t) /\ r = tab[t].waiting
           \/ Deliver(r) /\ t = requests[r].tab
    PROVE  /\ Typed'
           /\ DOMAIN requests' = DOMAIN requests
           /\ \A q \in DOMAIN requests : Kept(q)
           /\ \A q \in DOMAIN requests : q # r => requests'[q] = requests[q]
           /\ requests'[r].open = FALSE
           /\ Forwarded' = Forwarded
           /\ r = tab[t].waiting /\ r # 0
           /\ tab' = [tab EXCEPT ![t] = Showing(r)]
<1>1. /\ requests' = [requests EXCEPT ![r].open = FALSE]
      /\ tab' = [tab EXCEPT ![t] = Showing(r)]
    BY DEF GiveUp, Deliver
<1>2. r \in Nat /\ r # 0
    BY Requested
<1>3. tab' \in [Tabs -> TabStates]
    BY <1>1, <1>2 DEF Showing, Typed, TabStates
<1>4. r = tab[t].waiting
    BY DEF Deliver, Watched, Of
<1> QED
    BY <1>1, <1>2, <1>3, <1>4, Closing DEF TabStates

----------------------------------------------------------------------------
(* What tabs show.                                                         *)

\* Nothing of the tabs changes, and no request of theirs but for how it ends.
LEMMA TabsUnmoved ==
    ASSUME Watched, tab' = tab, \A t \in Tabs : Of(t)' = Of(t),
           \A t \in Tabs : \A r \in Of(t) : requests'[r].open = requests[r].open
    PROVE  Watched'
BY DEF Watched

LEMMA ServeKeepsTabs ==
    ASSUME Typed, Watched, clock \in Nat, NEW r \in DOMAIN requests, Serve(r)
    PROVE  Typed' /\ Watched'
<1> DEFINE Goal == /\ Typed' /\ tab' = tab /\ DOMAIN requests' = DOMAIN requests
                   /\ \A q \in DOMAIN requests : q # r => requests'[q] = requests[q]
                   /\ requests'[r].tab = requests[r].tab
                   /\ requests'[r].open = requests[r].open
<1>1. Goal
    <2>1. CASE Finish(r)
        BY <2>1, Finishing DEF Finish
    <2>2. ASSUME NEW outcome \in {"none"} \cup Rejections, Settle(r, outcome), tab' = tab,
                 requests[r].state = "sent"
          PROVE  Goal
        BY <2>2, Settling
    <2> HIDE DEF Goal
    <2>3. CASE RefuseKey(r)
        BY <2>2, <2>3 DEF RefuseKey, Rejections
    <2>4. CASE RefuseSession(r)
        BY <2>2, <2>4 DEF RefuseSession, Rejections
    <2>5. CASE Admit(r)
        BY <2>2, <2>5 DEF Admit, Rejections
    <2> QED
        BY <2>1, <2>3, <2>4, <2>5 DEF Serve
<1>2. \A t \in Tabs : Of(t)' = Of(t)
    BY <1>1 DEF Of
<1>3. \A t \in Tabs : \A q \in Of(t) : requests'[q].open = requests[q].open
    BY <1>1 DEF Of
<1> QED
    BY <1>1, <1>2, <1>3, TabsUnmoved

LEMMA AskKeepsTabs ==
    ASSUME Typed, Watched, clock \in Nat, NEW t \in Tabs, Ask(t)
    PROVE  Typed' /\ Watched'
<1> DEFINE new == Len(requests) + 1
<1>1. /\ Typed' /\ DOMAIN requests' = DOMAIN requests \cup {new}
      /\ \A q \in DOMAIN requests : requests'[q] = requests[q]
      /\ requests'[new].tab = t
    BY Asking
<1>2. /\ Len(requests) \in Nat /\ DOMAIN requests = 1 .. Len(requests)
      /\ new \in Nat /\ new # 0 /\ new \notin DOMAIN requests
    BY Requested
<1>3. /\ tab[t].waiting = 0
      /\ tab'[t].waiting = new /\ tab'[t].shown = 0
      /\ \A u \in Tabs : u # t => tab'[u] = tab[u]
    BY DEF Ask, Typed
<1> HIDE DEF new
<1>4. Of(t)' = Of(t) \cup {new}
    BY <1>1, <1>2 DEF Of
<1>5. \A u \in Tabs : u # t => Of(u)' = Of(u)
    BY <1>1, <1>2 DEF Of
<1>6. \A q \in Of(t)' : q <= new
    BY <1>1, <1>2 DEF Of, new
<1>7. \A q \in Of(t) : requests'[q].open # TRUE
    <2> SUFFICES ASSUME NEW q \in Of(t), requests'[q].open = TRUE PROVE FALSE
        OBVIOUS
    <2>1. q \in DOMAIN requests /\ q # 0 /\ requests[q].open = TRUE
        BY <1>1, Requested DEF Of
    <2>2. q = tab[t].waiting
        BY <2>1 DEF Watched
    <2> QED
        BY <1>3, <2>1, <2>2
<1>8. \A u \in Tabs : \A q \in Of(u) : requests'[q] = requests[q]
    BY <1>1 DEF Of
<1>9. ASSUME NEW u \in Tabs
      PROVE  /\ tab'[u].waiting # 0 =>
                   /\ tab'[u].waiting \in Of(u)' /\ tab'[u].shown = 0
                   /\ \A q \in Of(u)' : q <= tab'[u].waiting
             /\ tab'[u].shown # 0 =>
                   /\ tab'[u].shown \in Of(u)'
                   /\ \A q \in Of(u)' : q <= tab'[u].shown
             /\ \A r \in Of(u)' : requests'[r].open = TRUE => r = tab'[u].waiting
    <2>1. CASE u = t
        BY <1>3, <1>4, <1>6, <1>7, <1>2, <2>1
    <2>2. CASE u # t
        BY <1>3, <1>5, <1>8, <2>2 DEF Watched
    <2> QED
        BY <2>1, <2>2
<1> QED
    BY <1>1, <1>9 DEF Watched

LEMMA EndKeepsTabs ==
    ASSUME Typed, Watched, NEW t \in Tabs, NEW r \in DOMAIN requests,
           \/ GiveUp(t) /\ r = tab[t].waiting
           \/ Deliver(r) /\ t = requests[r].tab
    PROVE  Typed' /\ Watched'
<1>1. /\ Typed' /\ DOMAIN requests' = DOMAIN requests
      /\ \A q \in DOMAIN requests : Kept(q)
      /\ \A q \in DOMAIN requests : q # r => requests'[q] = requests[q]
      /\ requests'[r].open = FALSE
      /\ r = tab[t].waiting /\ r # 0
      /\ tab' = [tab EXCEPT ![t] = Showing(r)]
    BY Ending
<1>2. /\ tab'[t].waiting = 0 /\ tab'[t].shown = r
      /\ \A u \in Tabs : u # t => tab'[u] = tab[u]
    BY <1>1 DEF Showing, Typed
<1>3. \A u \in Tabs : Of(u)' = Of(u)
    BY <1>1 DEF Of, Kept
<1>4. r \in Of(t) /\ \A q \in Of(t) : q <= r
    BY <1>1 DEF Watched
<1>5. \A u \in Tabs : u # t => r \notin Of(u)
    BY <1>4 DEF Of
<1>6. \A u \in Tabs : \A q \in Of(u) : requests'[q].open = TRUE => q # r /\ requests[q].open = TRUE
    BY <1>1 DEF Of
<1>7. ASSUME NEW u \in Tabs
      PROVE  /\ tab'[u].waiting # 0 =>
                   /\ tab'[u].waiting \in Of(u)' /\ tab'[u].shown = 0
                   /\ \A q \in Of(u)' : q <= tab'[u].waiting
             /\ tab'[u].shown # 0 =>
                   /\ tab'[u].shown \in Of(u)'
                   /\ \A q \in Of(u)' : q <= tab'[u].shown
             /\ \A q \in Of(u)' : requests'[q].open = TRUE => q = tab'[u].waiting
    <2>1. CASE u = t
        BY <1>1, <1>2, <1>3, <1>4, <1>6, <2>1 DEF Watched
    <2>2. CASE u # t
        BY <1>2, <1>3, <1>6, <2>2 DEF Watched
    <2> QED
        BY <2>1, <2>2
<1> QED
    BY <1>1, <1>7 DEF Watched

LEMMA CallKeepsTabs ==
    ASSUME Typed, Watched, CallDirectly
    PROVE  Typed' /\ Watched'
<1>1. /\ Typed' /\ tab' = tab
      /\ DOMAIN requests' = DOMAIN requests \cup {Len(requests) + 1}
      /\ \A q \in DOMAIN requests : requests'[q] = requests[q]
      /\ requests'[Len(requests) + 1].tab = Nobody /\ Nobody \notin Tabs
    BY Calling, ServingAssumption
<1>2. \A t \in Tabs : Of(t)' = Of(t)
    BY <1>1 DEF Of
<1>3. \A t \in Tabs : \A q \in Of(t) : requests'[q].open = requests[q].open
    BY <1>1 DEF Of
<1> QED
    BY <1>1, <1>2, <1>3, TabsUnmoved

\* A tab waits for one of the requests when it gives up.
LEMMA GivesUpOn ==
    ASSUME Watched, NEW t \in Tabs, GiveUp(t)
    PROVE  tab[t].waiting \in DOMAIN requests
BY DEF Watched, GiveUp, Of

LEMMA StepWatched ==
    Typed /\ Watched /\ clock \in Nat /\ [ServingNext]_servingVars => Typed' /\ Watched'
<1> SUFFICES ASSUME Typed, Watched, clock \in Nat, [ServingNext]_servingVars
             PROVE  Typed' /\ Watched'
    OBVIOUS
<1>1. ASSUME NEW t \in Tabs, Ask(t) PROVE Typed' /\ Watched'
    BY <1>1, AskKeepsTabs
<1>2. ASSUME NEW t \in Tabs, GiveUp(t) PROVE Typed' /\ Watched'
    BY <1>2, GivesUpOn, EndKeepsTabs
<1>3. ASSUME NEW r \in DOMAIN requests, Deliver(r) PROVE Typed' /\ Watched'
    BY <1>3, EndKeepsTabs DEF Deliver
<1>4. CASE TimePasses \/ UNCHANGED servingVars
    BY <1>4 DEF TimePasses, servingVars, Typed, Watched, Of
<1> QED
    BY <1>1, <1>2, <1>3, <1>4, CallKeepsTabs, ServeKeepsTabs DEF ServingNext

----------------------------------------------------------------------------
(* Accounts.                                                               *)

Charged(b) == {r \in Forwarded : Bucket(r) = b}

\* Every admission of a bucket is that of one of its requests, and every request
\* that was put to the use case has one, made when it was settled.
Booked(b, f) ==
    /\ f \in Bijection(1 .. Len(log[b]), Charged(b))
    /\ \A i \in 1 .. Len(log[b]) : requests[f[i]].at = log[b][i]

Books == \A b \in Keys : \E f : Booked(b, f)

\* Admissions are recorded in the order of their readings, none of the future.
Ordered(L, t) ==
    /\ \A i \in 1 .. Len(L) : L[i] <= t
    /\ \A i, j \in 1 .. Len(L) : i <= j => L[i] <= L[j]

LogsOrdered == \A b \in Keys : Ordered(log[b], clock)

LEMMA OneMore ==
    ASSUME NEW n \in Nat, NEW S, NEW x, x \notin S, NEW f \in Bijection(1 .. n, S)
    PROVE  [i \in 1 .. n + 1 |-> IF i = n + 1 THEN x ELSE f[i]] \in Bijection(1 .. n + 1, S \cup {x})
<1> DEFINE g == [i \in 1 .. n + 1 |-> IF i = n + 1 THEN x ELSE f[i]]
<1>1. /\ f \in [1 .. n -> S]
      /\ \A i, j \in 1 .. n : f[i] = f[j] => i = j
      /\ \A y \in S : \E i \in 1 .. n : f[i] = y
    BY DEF Bijection, Injection, Surjection, IsInjective
<1>2. g[n + 1] = x /\ \A i \in 1 .. n : g[i] = f[i] /\ g[i] \in S
    BY <1>1
<1>3. \A i \in 1 .. n + 1 : i \in 1 .. n \/ i = n + 1
    OBVIOUS
<1>4. 1 .. n \subseteq 1 .. n + 1 /\ n + 1 \in 1 .. n + 1
    OBVIOUS
<1>5. g \in [1 .. n + 1 -> S \cup {x}]
    BY <1>1
<1> HIDE DEF g
<1>6. \A i, j \in 1 .. n + 1 : g[i] = g[j] => i = j
    BY <1>1, <1>2, <1>3
<1>7. \A y \in S \cup {x} : \E i \in 1 .. n + 1 : g[i] = y
    BY <1>1, <1>2, <1>4
<1>8. g \in Bijection(1 .. n + 1, S \cup {x})
    BY <1>5, <1>6, <1>7 DEF Bijection, Injection, Surjection, IsInjective
<1> QED
    BY <1>8 DEF g

LEMMA OrderedLater ==
    ASSUME NEW L \in Seq(Nat), NEW t \in Nat, NEW u \in Nat, t <= u, Ordered(L, t)
    PROVE  Ordered(L, u)
<1>1. \A i \in 1 .. Len(L) : L[i] \in Nat
    OBVIOUS
<1> QED
    BY <1>1 DEF Ordered

LEMMA OrderedMore ==
    ASSUME NEW L \in Seq(Nat), NEW t \in Nat, NEW u \in Nat, t <= u, Ordered(L, t)
    PROVE  Ordered(Append(L, t), u)
<1> DEFINE M == Append(L, t)
<1>1. /\ Len(L) \in Nat /\ M \in Seq(Nat) /\ Len(M) = Len(L) + 1 /\ M[Len(L) + 1] = t
      /\ \A i \in 1 .. Len(L) : M[i] = L[i]
    OBVIOUS
<1> HIDE DEF M
<1>2. \A i \in 1 .. Len(M) : i \in 1 .. Len(L) \/ i = Len(L) + 1
    BY <1>1
<1>3. \A i \in 1 .. Len(M) : M[i] \in Nat /\ M[i] <= t
    BY <1>1, <1>2 DEF Ordered
<1>4. ASSUME NEW i \in 1 .. Len(M), NEW j \in 1 .. Len(M), i <= j
      PROVE  M[i] <= M[j]
    <2>1. CASE j = Len(L) + 1
        BY <1>1, <1>3, <2>1
    <2>2. CASE j \in 1 .. Len(L)
        <3>1. i \in 1 .. Len(L)
            BY <1>1, <1>4, <2>2
        <3> QED
            BY <1>1, <1>4, <2>2, <3>1 DEF Ordered
    <2> QED
        BY <1>2, <2>1, <2>2
<1>5. Ordered(M, t)
    BY <1>3, <1>4 DEF Ordered
<1> QED
    BY <1>1, <1>5, OrderedLater DEF M

\* A step that admits nobody and puts nothing to the use case.
LEMMA BooksStay ==
    ASSUME Books, log' = log, \A b \in Keys : Charged(b)' = Charged(b),
           \A r \in Forwarded : requests'[r].at = requests[r].at
    PROVE  Books'
<1> SUFFICES ASSUME NEW b \in Keys PROVE \E f : Booked(b, f)'
    BY DEF Books
<1>1. PICK f : Booked(b, f)
    BY DEF Books
<1>2. \A i \in 1 .. Len(log[b]) : f[i] \in Forwarded
    BY <1>1 DEF Booked, Bijection, Injection, Charged
<1>3. Booked(b, f)'
    BY <1>1, <1>2 DEF Booked
<1> QED
    BY <1>3

\* An admission, and the request it is for.
LEMMA BooksGrow ==
    ASSUME Books, log \in [Keys -> Seq(Nat)], NEW k \in Keys, NEW r,
           log' = [log EXCEPT ![k] = Append(@, clock)],
           \A b \in Keys : Charged(b)' = IF b = k THEN Charged(b) \cup {r} ELSE Charged(b),
           r \notin Forwarded, requests'[r].at = clock,
           \A q \in Forwarded : requests'[q].at = requests[q].at
    PROVE  Books'
<1> SUFFICES ASSUME NEW b \in Keys PROVE \E f : Booked(b, f)'
    BY DEF Books
<1>1. PICK f : Booked(b, f)
    BY DEF Books
<1>2. /\ \A i \in 1 .. Len(log[b]) : f[i] \in Forwarded
      /\ f \in Bijection(1 .. Len(log[b]), Charged(b))
    BY <1>1 DEF Booked, Bijection, Injection, Charged
<1>3. CASE b # k
    <2>1. log'[b] = log[b]
        BY <1>3
    <2>2. Booked(b, f)'
        BY <1>1, <1>2, <1>3, <2>1 DEF Booked
    <2> QED
        BY <2>2
<1>4. CASE b = k
    <2> DEFINE n == Len(log[b])
               g == [i \in 1 .. n + 1 |-> IF i = n + 1 THEN r ELSE f[i]]
    <2>1. /\ n \in Nat /\ log'[b] = Append(log[b], clock) /\ Len(log'[b]) = n + 1
          /\ log'[b][n + 1] = clock /\ \A i \in 1 .. n : log'[b][i] = log[b][i]
        BY <1>4
    <2>2. r \notin Charged(b)
        BY DEF Charged
    <2>3. g \in Bijection(1 .. n + 1, Charged(b) \cup {r})
        BY <1>2, <2>1, <2>2, OneMore
    <2>4. g[n + 1] = r /\ \A i \in 1 .. n : g[i] = f[i]
        BY <2>1
    <2> HIDE DEF g
    <2>5. \A i \in 1 .. n + 1 : requests'[g[i]].at = log'[b][i]
        <3> SUFFICES ASSUME NEW i \in 1 .. n + 1 PROVE requests'[g[i]].at = log'[b][i]
            OBVIOUS
        <3>1. CASE i = n + 1
            BY <2>1, <2>4, <3>1
        <3>2. CASE i \in 1 .. n
            BY <1>1, <1>2, <2>1, <2>4, <3>2 DEF Booked
        <3> QED
            BY <2>1, <3>1, <3>2
    <2>6. PICK h : /\ h \in Bijection(1 .. n + 1, Charged(b) \cup {r})
                   /\ \A i \in 1 .. n + 1 : requests'[h[i]].at = log'[b][i]
        BY <2>3, <2>5
    <2>7. Booked(b, h)'
        BY <1>4, <2>1, <2>6 DEF Booked
    <2> QED
        BY <2>7
<1> QED
    BY <1>3, <1>4

----------------------------------------------------------------------------
(* Quotas.                                                                 *)

\* The questions of a tab that were put to the use case in the window before at.
Asked(t, at) == {q \in Of(t) \cap Forwarded : requests[q].at \in at - Window .. at}

QuotaSpent(t, at) == Cardinality(Asked(t, at)) >= MaxRequests

LEMMA SomeOfTheFirst ==
    ASSUME NEW n \in Nat, NEW S, S \subseteq 1 .. n
    PROVE  IsFiniteSet(S) /\ Cardinality(S) \in Nat
<1>1. IsFiniteSet(1 .. n)
    BY FS_Interval
<1>2. IsFiniteSet(S)
    BY <1>1, FS_Subset
<1> QED
    BY <1>2, FS_CardinalityType

LEMMA AskedFinite ==
    ASSUME Typed, NEW t, NEW at
    PROVE  IsFiniteSet(Asked(t, at)) /\ Cardinality(Asked(t, at)) \in Nat
<1>1. Len(requests) \in Nat /\ Asked(t, at) \subseteq 1 .. Len(requests)
    BY Requested DEF Asked, Of
<1> QED
    BY <1>1, SomeOfTheFirst

LEMMA MoreAreNotFewer ==
    ASSUME NEW S, NEW T, IsFiniteSet(T), S \subseteq T
    PROVE  Cardinality(S) <= Cardinality(T)
BY FS_Subset

\* What was asked in a window is never forgotten.
LEMMA QuotaStays ==
    ASSUME Typed, Typed', NEW t, NEW at, QuotaSpent(t, at),
           DOMAIN requests \subseteq DOMAIN requests', Forwarded \subseteq Forwarded',
           \A q \in DOMAIN requests : requests'[q].tab = requests[q].tab,
           \A q \in Forwarded : requests'[q].at = requests[q].at
    PROVE  QuotaSpent(t, at)'
<1>1. Asked(t, at) \subseteq Asked(t, at)'
    BY DEF Asked, Of
<1>2. Len(requests') \in Nat /\ Asked(t, at)' \subseteq 1 .. Len(requests')
    BY DEF Typed, Asked, Of
<1>3. /\ IsFiniteSet(Asked(t, at)') /\ Cardinality(Asked(t, at)') \in Nat
      /\ Cardinality(Asked(t, at)) \in Nat
    BY <1>2, SomeOfTheFirst, AskedFinite
<1>4. Cardinality(Asked(t, at)) <= Cardinality(Asked(t, at)')
    BY <1>1, <1>3, MoreAreNotFewer
<1> QED
    BY <1>3, <1>4, LimitAssumption DEF QuotaSpent

\* The refusals so far are justified, and so is the one of this step.
LEMMA RefusalsStay ==
    ASSUME Typed, Typed', VisitorsIndependent,
           DOMAIN requests \subseteq DOMAIN requests', Forwarded \subseteq Forwarded',
           \A q \in DOMAIN requests : requests'[q].tab = requests[q].tab,
           \A q \in Forwarded : requests'[q].at = requests[q].at,
           \A t \in Tabs : \A r \in Of(t)' : requests'[r].outcome = "429" =>
               \/ /\ r \in DOMAIN requests /\ requests[r].outcome = "429"
                  /\ requests'[r].at = requests[r].at
               \/ \E at : requests'[r].at = at /\ QuotaSpent(t, at)
    PROVE  VisitorsIndependent'
<1> SUFFICES ASSUME NEW t \in Tabs, NEW r \in Of(t)', requests'[r].outcome = "429",
                    NEW at, at = requests'[r].at
             PROVE  QuotaSpent(t, at)'
    BY DEF VisitorsIndependent, QuotaSpent, Asked
<1>1. QuotaSpent(t, at)
    <2>1. CASE /\ r \in DOMAIN requests /\ requests[r].outcome = "429"
               /\ requests'[r].at = requests[r].at
        BY <2>1 DEF VisitorsIndependent, QuotaSpent, Asked, Of
    <2>2. CASE \E a : requests'[r].at = a /\ QuotaSpent(t, a)
        BY <2>2
    <2> QED
        BY <2>1, <2>2
<1> QED
    BY <1>1, QuotaStays

\* When the limiter has used up the allowance of a session, it is the session's
\* own questions that used it up.
LEMMA SpentByItself ==
    ASSUME IInv, Typed, Books, LogsOrdered, NEW t \in Tabs,
           Abstract!AllowanceUsed(Session(t), clock, Window)
    PROVE  QuotaSpent(t, clock)
<1> DEFINE k == Session(t)
           n == Len(log[k])
           first == n - MaxRequests + 1
<1>1. k \in Keys /\ log[k] \in Seq(Nat) /\ n \in Nat /\ clock \in Nat
    BY ServingAssumption DEF Buckets, IInv, TypeOK
<1>2. /\ n >= MaxRequests /\ first \in 1 .. n
      /\ clock - log[k][first] <= Window
    BY <1>1, LimitAssumption DEF Abstract!AllowanceUsed
<1>3. PICK f : Booked(k, f)
    BY <1>1 DEF Books
<1>4. /\ f \in [1 .. n -> Charged(k)]
      /\ \A i, j \in 1 .. n : f[i] = f[j] => i = j
      /\ \A i \in 1 .. n : requests[f[i]].at = log[k][i]
    BY <1>3 DEF Booked, Bijection, Injection, IsInjective
<1>5. Charged(k) \subseteq Of(t) \cap Forwarded
    <2> SUFFICES ASSUME NEW r \in Forwarded, Bucket(r) = k PROVE r \in Of(t)
        BY DEF Charged
    <2>1. requests[r].header = "session" /\ Session(requests[r].tab) = Session(t)
        BY DEF Bucket, Session, Host
    <2> QED
        BY <2>1 DEF Session, Of, Forwarded
<1>6. \A i \in first .. n : i \in 1 .. n /\ log[k][i] \in clock - Window .. clock
    <2> SUFFICES ASSUME NEW i \in first .. n
                 PROVE  i \in 1 .. n /\ log[k][i] \in clock - Window .. clock
        OBVIOUS
    <2>1. i \in 1 .. n
        BY <1>1, <1>2
    <2>2. log[k][i] \in Nat /\ log[k][first] \in Nat
        BY <1>1, <1>2, <2>1
    <2>3. log[k][first] <= log[k][i] /\ log[k][i] <= clock
        BY <1>1, <1>2, <2>1 DEF LogsOrdered, Ordered
    <2> QED
        BY <1>1, <1>2, <2>1, <2>2, <2>3, LimiterWindowAssumption
<1> DEFINE g == [i \in first .. n |-> f[i]]
<1>7. g \in Injection(first .. n, Asked(t, clock))
    <2>1. \A i \in first .. n : f[i] \in Asked(t, clock)
        BY <1>4, <1>5, <1>6 DEF Asked
    <2>2. \A i, j \in first .. n : f[i] = f[j] => i = j
        BY <1>4, <1>6
    <2> QED
        BY <2>1, <2>2 DEF Injection, IsInjective
<1>8. Cardinality(first .. n) = MaxRequests
    <2> HIDE DEF n
    <2>1. n \in Nat /\ n >= MaxRequests /\ MaxRequests \in Nat \ {0}
        BY <1>1, <1>2, LimitAssumption
    <2>2. first \in Int /\ n \in Int /\ first <= n /\ n - first + 1 = MaxRequests
        BY <2>1
    <2> QED
        BY <2>2, FS_Interval
<1>9. Cardinality(first .. n) <= Cardinality(Asked(t, clock))
    BY <1>7, AskedFinite, FS_Injection
<1> QED
    BY <1>8, <1>9 DEF QuotaSpent

----------------------------------------------------------------------------
(* The invariant.                                                          *)

ServingInv ==
    /\ IInv
    /\ Typed
    /\ Watched
    /\ Books
    /\ LogsOrdered
    /\ VisitorsIndependent

\* A step after which the limiter, and what was put to the use case, are as before.
LEMMA AccountsStay ==
    ASSUME Typed, Typed', Books, LogsOrdered, VisitorsIndependent,
           log' = log, clock \in Nat, clock' \in Nat, clock <= clock', log \in [Keys -> Seq(Nat)],
           Forwarded' = Forwarded, DOMAIN requests \subseteq DOMAIN requests',
           \A q \in DOMAIN requests :
               requests'[q].tab = requests[q].tab /\ requests'[q].header = requests[q].header,
           \A q \in Forwarded : requests'[q].at = requests[q].at,
           \A t \in Tabs : \A r \in Of(t)' : requests'[r].outcome = "429" =>
               \/ /\ r \in DOMAIN requests /\ requests[r].outcome = "429"
                  /\ requests'[r].at = requests[r].at
               \/ \E at : requests'[r].at = at /\ QuotaSpent(t, at)
    PROVE  Books' /\ LogsOrdered' /\ VisitorsIndependent'
<1>1. \A q \in Forwarded : Bucket(q)' = Bucket(q)
    BY DEF Bucket, Forwarded
<1>2. \A b \in Keys : Charged(b)' = Charged(b)
    BY <1>1 DEF Charged
<1>3. Books'
    BY <1>2, BooksStay
<1>4. LogsOrdered'
    <2> SUFFICES ASSUME NEW b \in Keys PROVE Ordered(log[b], clock')
        BY DEF LogsOrdered
    <2>1. Ordered(log[b], clock) /\ log[b] \in Seq(Nat)
        BY DEF LogsOrdered
    <2> QED
        BY <2>1, OrderedLater
<1>5. VisitorsIndependent'
    BY RefusalsStay
<1> QED
    BY <1>3, <1>4, <1>5

\* The limiter is asked for a request.
LEMMA AdmitAccounts ==
    ASSUME IInv, Typed, Books, LogsOrdered, VisitorsIndependent,
           NEW r \in DOMAIN requests, Admit(r)
    PROVE  Typed' /\ Books' /\ LogsOrdered' /\ VisitorsIndependent'
<1> DEFINE k == Bucket(r)
           outcome == IF answer'.ok THEN "none" ELSE "429"
<1>1. k \in Keys /\ Allow(k) /\ requests[r].state = "sent" /\ tab' = tab
      /\ Settle(r, outcome) /\ outcome \in {"none"} \cup Rejections
    BY BucketIsKey DEF Admit, Rejections
<1>2. /\ Abstract!Admit(k) \/ Abstract!Reject(k)
      /\ clock' \in clock .. clock + MaxSkew /\ IInv'
    BY <1>1, AllowSound
<1>3. /\ clock \in Nat /\ clock' \in Nat /\ clock <= clock' /\ log \in [Keys -> Seq(Nat)]
    BY <1>2, LimiterSkewAssumption DEF IInv, TypeOK
<1>4. /\ Typed' /\ DOMAIN requests' = DOMAIN requests
      /\ \A q \in DOMAIN requests : q # r => requests'[q] = requests[q]
      /\ requests'[r].tab = requests[r].tab /\ requests'[r].header = requests[r].header
      /\ requests'[r].at = clock /\ requests'[r].outcome = outcome
      /\ r \notin Forwarded
      /\ Forwarded' = IF outcome = "none" THEN Forwarded \cup {r} ELSE Forwarded
    BY <1>1, <1>3, Settling
<1>5. /\ \A q \in DOMAIN requests :
            requests'[q].tab = requests[q].tab /\ requests'[q].header = requests[q].header
      /\ \A q \in Forwarded : requests'[q].at = requests[q].at
    BY <1>4 DEF Forwarded
<1> HIDE DEF k
<1>6. CASE Abstract!Admit(k)
    <2>1. log' = [log EXCEPT ![k] = Append(@, clock)] /\ outcome = "none"
        BY <1>6 DEF Abstract!Admit, Abstract!Verdict
    <2>2. Forwarded' = Forwarded \cup {r}
        BY <1>4, <2>1
    <2>3. \A q \in DOMAIN requests : Bucket(q)' = Bucket(q)
        BY <1>5 DEF Bucket
    <2>4. \A b \in Keys : Charged(b)' = IF b = k THEN Charged(b) \cup {r} ELSE Charged(b)
        <3> SUFFICES ASSUME NEW b \in Keys
                     PROVE  Charged(b)' = IF b = k THEN Charged(b) \cup {r} ELSE Charged(b)
            OBVIOUS
        <3>1. Bucket(r)' = k /\ \A q \in Forwarded : Bucket(q)' = Bucket(q)
            BY <2>3 DEF Forwarded, k
        <3>2. \A q : q \in Charged(b)' <=> (q \in Charged(b) \/ (q = r /\ b = k))
            BY <2>2, <3>1 DEF Charged
        <3> QED
            BY <3>2
    <2>5. Books'
        BY <1>1, <1>3, <1>4, <1>5, <2>1, <2>4, BooksGrow
    <2>6. LogsOrdered'
        <3> SUFFICES ASSUME NEW b \in Keys PROVE Ordered(log'[b], clock')
            BY DEF LogsOrdered
        <3>1. Ordered(log[b], clock) /\ log[b] \in Seq(Nat)
            BY <1>3 DEF LogsOrdered
        <3>2. log'[b] = IF b = k THEN Append(log[b], clock) ELSE log[b]
            BY <1>3, <2>1
        <3> QED
            BY <1>3, <3>1, <3>2, OrderedLater, OrderedMore
    <2>7. VisitorsIndependent'
        BY <1>4, <1>5, <2>1, <2>2, RefusalsStay DEF Of
    <2> QED
        BY <1>4, <2>5, <2>6, <2>7
<1>7. CASE Abstract!Reject(k)
    <2>1. log' = log /\ outcome = "429" /\ Abstract!AllowanceUsed(k, clock, Window)
        BY <1>7 DEF Abstract!Reject, Abstract!Verdict
    <2>2. Forwarded' = Forwarded
        BY <1>4, <2>1
    <2>3. ASSUME NEW t \in Tabs, r \in Of(t)' PROVE QuotaSpent(t, clock)
        <3>1. requests[r].tab = t /\ k = Session(t)
            BY <1>4, <2>3 DEF Of, Bucket, Typed, k
        <3> QED
            BY <2>1, <3>1, SpentByItself
    <2>4. \A t \in Tabs : \A q \in Of(t)' : requests'[q].outcome = "429" =>
              \/ /\ q \in DOMAIN requests /\ requests[q].outcome = "429"
                 /\ requests'[q].at = requests[q].at
              \/ \E at : requests'[q].at = at /\ QuotaSpent(t, at)
        BY <1>4, <2>3 DEF Of
    <2> QED
        BY <1>3, <1>4, <1>5, <2>1, <2>2, <2>4, AccountsStay
<1> QED
    BY <1>2, <1>6, <1>7

LEMMA ServeAccounts ==
    ASSUME IInv, Typed, Books, LogsOrdered, VisitorsIndependent,
           NEW r \in DOMAIN requests, Serve(r)
    PROVE  Books' /\ LogsOrdered' /\ VisitorsIndependent'
<1>1. clock \in Nat /\ log \in [Keys -> Seq(Nat)]
    BY DEF IInv, TypeOK
<1>2. ASSUME NEW outcome \in {"401", "400"}, Settle(r, outcome), requests[r].state = "sent",
             tab' = tab, UNCHANGED vars
      PROVE  Books' /\ LogsOrdered' /\ VisitorsIndependent'
    <2>1. /\ Typed' /\ DOMAIN requests' = DOMAIN requests
          /\ \A q \in DOMAIN requests : q # r => requests'[q] = requests[q]
          /\ requests'[r].tab = requests[r].tab /\ requests'[r].header = requests[r].header
          /\ requests'[r].outcome = outcome
          /\ r \notin Forwarded /\ Forwarded' = Forwarded
        BY <1>1, <1>2, Settling DEF Rejections
    <2>2. log' = log /\ clock' = clock
        BY <1>2 DEF vars
    <2>3. /\ \A q \in DOMAIN requests :
                requests'[q].tab = requests[q].tab /\ requests'[q].header = requests[q].header
          /\ \A q \in Forwarded : requests'[q].at = requests[q].at
        BY <2>1 DEF Forwarded
    <2>4. \A q \in DOMAIN requests' : requests'[q].outcome = "429" =>
              /\ q \in DOMAIN requests /\ requests[q].outcome = "429"
              /\ requests'[q].at = requests[q].at
        BY <1>2, <2>1
    <2> QED
        BY <1>1, <2>1, <2>2, <2>3, <2>4, AccountsStay DEF Of
<1>3. CASE Finish(r)
    <2>1. /\ Typed' /\ DOMAIN requests' = DOMAIN requests
          /\ \A q \in DOMAIN requests : q # r => requests'[q] = requests[q]
          /\ requests'[r].tab = requests[r].tab /\ requests'[r].header = requests[r].header
          /\ requests'[r].at = requests[r].at /\ requests'[r].outcome = "served"
          /\ Forwarded' = Forwarded
        BY <1>3, Finishing
    <2>2. log' = log /\ clock' = clock
        BY <1>3 DEF Finish, vars
    <2>3. /\ \A q \in DOMAIN requests :
                requests'[q].tab = requests[q].tab /\ requests'[q].header = requests[q].header
          /\ \A q \in Forwarded : requests'[q].at = requests[q].at
        BY <2>1 DEF Forwarded
    <2>4. \A q \in DOMAIN requests' : requests'[q].outcome = "429" =>
              /\ q \in DOMAIN requests /\ requests[q].outcome = "429"
              /\ requests'[q].at = requests[q].at
        BY <2>1
    <2> QED
        BY <1>1, <2>1, <2>2, <2>3, <2>4, AccountsStay DEF Of
<1>4. CASE RefuseKey(r)
    BY <1>2, <1>4 DEF RefuseKey
<1>5. CASE RefuseSession(r)
    BY <1>2, <1>5 DEF RefuseSession
<1> QED
    BY <1>3, <1>4, <1>5, AdmitAccounts DEF Serve

\* Neither a new request nor the end of one is the limiter's business.
LEMMA PostAccounts ==
    ASSUME IInv, Typed, Typed', Books, LogsOrdered, VisitorsIndependent, UNCHANGED vars,
           DOMAIN requests' = DOMAIN requests \cup {Len(requests) + 1},
           \A q \in DOMAIN requests : requests'[q] = requests[q],
           requests'[Len(requests) + 1].outcome = "none", Forwarded' = Forwarded
    PROVE  Books' /\ LogsOrdered' /\ VisitorsIndependent'
<1>1. log' = log /\ clock' = clock /\ clock \in Nat /\ log \in [Keys -> Seq(Nat)]
    BY DEF vars, IInv, TypeOK
<1>2. \A q \in DOMAIN requests' : requests'[q].outcome = "429" =>
          /\ q \in DOMAIN requests /\ requests[q].outcome = "429"
          /\ requests'[q].at = requests[q].at
    OBVIOUS
<1> QED
    BY <1>1, <1>2, AccountsStay DEF Of, Forwarded

LEMMA EndAccounts ==
    ASSUME IInv, Typed, Typed', Books, LogsOrdered, VisitorsIndependent, UNCHANGED vars,
           DOMAIN requests' = DOMAIN requests,
           \A q \in DOMAIN requests : Kept(q), Forwarded' = Forwarded
    PROVE  Books' /\ LogsOrdered' /\ VisitorsIndependent'
<1>1. log' = log /\ clock' = clock /\ clock \in Nat /\ log \in [Keys -> Seq(Nat)]
    BY DEF vars, IInv, TypeOK
<1>2. \A q \in DOMAIN requests' : requests'[q].outcome = "429" =>
          /\ q \in DOMAIN requests /\ requests[q].outcome = "429"
          /\ requests'[q].at = requests[q].at
    BY DEF Kept
<1> QED
    BY <1>1, <1>2, AccountsStay DEF Of, Forwarded, Kept

LEMMA InitServing == ServingInit => ServingInv
<1> SUFFICES ASSUME ServingInit PROVE ServingInv
    OBVIOUS
<1>1. IInv
    BY InitSound DEF ServingInit
<1>2. requests = << >> /\ DOMAIN requests = {} /\ requests \in Seq(Requests)
    BY DEF ServingInit
<1>3. /\ tab \in [Tabs -> [waiting : Nat, deadline : Nat, shown : Nat]]
      /\ \A t \in Tabs : tab[t].waiting = 0 /\ tab[t].shown = 0
    BY DEF ServingInit, Showing
<1>4. Typed
    BY <1>2, <1>3 DEF Typed
<1>5. Watched /\ VisitorsIndependent
    BY <1>2, <1>3 DEF Watched, VisitorsIndependent, Of
<1>6. \A b \in Keys : log[b] = << >> /\ Len(log[b]) = 0
    BY DEF ServingInit, Init
<1>7. LogsOrdered
    <2>1. Ordered(<< >>, clock)
        BY DEF Ordered
    <2> QED
        BY <1>6, <2>1 DEF LogsOrdered
<1>8. Books
    <2> SUFFICES ASSUME NEW b \in Keys PROVE \E f : Booked(b, f)
        BY DEF Books
    <2> DEFINE none == [i \in 1 .. 0 |-> 0]
    <2>1. Charged(b) = {}
        BY <1>2 DEF Charged, Forwarded
    <2>2. none \in Bijection(1 .. 0, {})
        BY DEF Bijection, Injection, Surjection, IsInjective
    <2> HIDE DEF none
    <2>3. Booked(b, none)
        BY <1>6, <2>1, <2>2 DEF Booked
    <2> QED
        BY <2>3
<1> QED
    BY <1>1, <1>4, <1>5, <1>7, <1>8 DEF ServingInv

LEMMA StepServing == ServingInv /\ [ServingNext]_servingVars => ServingInv'
<1> SUFFICES ASSUME ServingInv, [ServingNext]_servingVars PROVE ServingInv'
    OBVIOUS
<1> DEFINE Accounts == Books /\ LogsOrdered /\ VisitorsIndependent
<1>1. /\ IInv /\ Typed /\ Watched /\ Books /\ LogsOrdered /\ VisitorsIndependent
      /\ clock \in Nat /\ log \in [Keys -> Seq(Nat)]
    BY DEF ServingInv, IInv, TypeOK
<1>2. IInv'
    BY <1>1, LimiterStep, StepSound, StutterSound
<1>3. Typed' /\ Watched'
    BY <1>1, StepWatched
<1>4. ASSUME NEW t \in Tabs, Ask(t) PROVE Accounts'
    <2>1. UNCHANGED vars
        BY <1>4 DEF Ask
    <2> QED
        BY <1>1, <1>3, <1>4, <2>1, Asking, PostAccounts
<1>5. ASSUME CallDirectly PROVE Accounts'
    <2>1. UNCHANGED vars
        BY <1>5 DEF CallDirectly
    <2> QED
        BY <1>1, <1>3, <1>5, <2>1, Calling, PostAccounts
<1>6. ASSUME NEW t \in Tabs, GiveUp(t) PROVE Accounts'
    <2>1. UNCHANGED vars /\ tab[t].waiting \in DOMAIN requests
        BY <1>1, <1>6, GivesUpOn DEF GiveUp
    <2> QED
        BY <1>1, <1>3, <1>6, <2>1, Ending, EndAccounts
<1>7. ASSUME NEW r \in DOMAIN requests, Deliver(r) PROVE Accounts'
    <2>1. UNCHANGED vars /\ requests[r].tab \in Tabs
        BY <1>7 DEF Deliver
    <2> QED
        BY <1>1, <1>3, <1>7, <2>1, Ending, EndAccounts
<1>8. ASSUME NEW r \in DOMAIN requests, Serve(r) PROVE Accounts'
    BY <1>1, <1>8, ServeAccounts
<1>9. ASSUME TimePasses \/ UNCHANGED servingVars PROVE Accounts'
    <2>1. requests' = requests /\ log' = log /\ clock' \in Nat /\ clock <= clock'
        BY <1>1, <1>9 DEF TimePasses, Tick, servingVars, vars
    <2>2. Forwarded' = Forwarded
        BY <2>1 DEF Forwarded
    <2> QED
        BY <1>1, <1>3, <2>1, <2>2, AccountsStay DEF Of, Forwarded
<1>10. Accounts'
    BY <1>4, <1>5, <1>6, <1>7, <1>8, <1>9 DEF ServingNext
<1> QED
    BY <1>2, <1>3, <1>10 DEF ServingInv

\* The limiter invariant holds in service, and with it what ties the tabs, the
\* log of requests and the buckets together.
THEOREM ServingInvariant == ServingSpec => []ServingInv
BY InitServing, StepServing, PTL DEF ServingSpec

----------------------------------------------------------------------------
(* The theorems.                                                           *)

\* The variables keep their types.
THEOREM ServingTypes == ServingSpec => []ServingTypeOK
<1>1. ServingInv => ServingTypeOK
    <2> SUFFICES ASSUME ServingInv PROVE ServingTypeOK
        OBVIOUS
    <2>1. IInv /\ Typed /\ Watched
        BY DEF ServingInv
    <2>2. \A r \in DOMAIN requests : requests[r] \in Requests
        BY <2>1, Requested
    <2> QED
        BY <2>1, <2>2 DEF ServingTypeOK, Typed, Watched, Of, IInv, Requests
<1> QED
    BY <1>1, ServingInvariant, PTL

\* The endpoint drives the limiter only as the limiter may be driven, so what is
\* proved of the limiter alone holds of it behind the guards: no visitor is
\* admitted too often, idle sessions are forgotten, and every verdict is one the
\* sliding window allows.
THEOREM LimiterInService ==
    ServingSpec => []WindowBound /\ IdleEntriesReclaimed /\ ImplementsSlidingWindow
<1>1. ServingInit => Init
    BY DEF ServingInit
<1>2. ServingInv /\ [ServingNext]_servingVars => [Next]_vars
    BY LimiterStep DEF ServingInv
<1>3. ServingSpec => Spec
    BY <1>1, <1>2, ServingInvariant, PTL DEF ServingSpec, Spec
<1> QED
    BY <1>3, AdmissionsSpread, IdleKeysGo, LimiterImplementsWindow, PTL

\* A bucket is charged exactly for the questions that were put to the use case:
\* a request with the wrong key, a malformed header or over the limit costs
\* nobody anything.
THEOREM ChargedForService == ServingSpec => []ChargedForWhatRan
<1>1. ServingInv => ChargedForWhatRan
    <2> SUFFICES ASSUME ServingInv, NEW b \in Buckets
                 PROVE  Len(log[b]) = Cardinality(Charged(b))
        BY DEF ChargedForWhatRan, Charged
    <2>1. b \in Keys /\ Len(log[b]) \in Nat
        BY ServingAssumption DEF ServingInv, IInv, TypeOK
    <2>2. PICK f : f \in Bijection(1 .. Len(log[b]), Charged(b))
        BY <2>1 DEF ServingInv, Books, Booked
    <2>3. IsFiniteSet(1 .. Len(log[b])) /\ Cardinality(1 .. Len(log[b])) = Len(log[b])
        BY <2>1, FS_Interval
    <2>4. ExistsBijection(1 .. Len(log[b]), Charged(b))
        BY <2>2 DEF ExistsBijection
    <2> QED
        BY <2>3, <2>4, FS_Bijection
<1> QED
    BY <1>1, ServingInvariant, PTL

\* A tab is turned away only when its own questions have used up the window,
\* whatever other tabs and other callers on the host did meanwhile.
THEOREM QuotaOfOnesOwn == ServingSpec => []VisitorsIndependent
<1>1. ServingInv => VisitorsIndependent
    BY DEF ServingInv
<1> QED
    BY <1>1, ServingInvariant, PTL

\* A tab never shows the late answer to a question it gave up.
THEOREM LatestIsShown == ServingSpec => []LateAnswersDropped
<1>1. ServingInv => LateAnswersDropped
    BY DEF ServingInv, Watched, LateAnswersDropped
<1> QED
    BY <1>1, ServingInvariant, PTL

=============================================================================
