------------------------ MODULE MediaCapture_proofs ------------------------
(***************************************************************************)
(* Theorems about MediaCapture for any messages, threads, table size and   *)
(* number of attempts: its type invariant, that chains that meet on one    *)
(* item hand it over once, that a body one of them found is handed over,   *)
(* and how often a message is taken for new.                               *)
(***************************************************************************)
EXTENDS MediaCapture, TLAPS

(* Items are started in order, with their chain; a pending item belongs to  *)
(* its message, and a chain that runs has one to work on.                   *)
StartInv ==
    /\ \A i \in Items : at[i] = "free" <=> i > started
    /\ \A i \in Items : at[i] = "free" => item[i] = "fresh"
    /\ \A m \in Messages : pending[m] # NoItem =>
          pending[m] <= started /\ of[pending[m]] = m
    /\ \A i \in Items : at[i] \in {"timer", "extract", "finish", "enqueue"} =>
          of[i] \in Messages /\ pending[of[i]] # NoItem
    /\ \A i \in Items : at[i] \in {"free", "timer", "extract"} => ~Found(i)

(* A chain past the lock has marked its item, as no other chain and no      *)
(* handover did before.                                                     *)
ClaimInv ==
    /\ \A i \in Items : at[i] = "enqueue" =>
          /\ claim[i] \in Items
          /\ item[claim[i]] # "fresh"
          /\ Found(i) => item[claim[i]] = "body"
    /\ \A i, j \in Items :
          at[i] = "enqueue" /\ at[j] = "enqueue" /\ claim[i] = claim[j] /\ As(i) = As(j)
              => i = j
    /\ \A d \in handed :
          /\ at[d.by] = "done"
          /\ item[d.item] # "fresh"
          /\ d.as = "body" => item[d.item] = "body"
    /\ \A d \in handed, i \in Items :
          at[i] = "enqueue" /\ d.item = claim[i] => d.as # As(i)

(* Chain h has handed a body of m over, or is past the lock with one, or    *)
(* was killed.                                                              *)
Reaches(h, m) ==
    /\ of[h] = m
    /\ at[h] # "free"
    /\ \/ \E d \in handed : d.by = h /\ d.as = "body"
       \/ at[h] = "enqueue" /\ Found(h)
       \/ at[h] = "lost"

(* Whose item is marked as sent with a body, or whose chain ended with one, *)
(* has such a chain.                                                        *)
ReachInv ==
    /\ \A i \in Items : item[i] = "body" => \E h \in Items : Reaches(h, of[i])
    /\ \A i \in Items : at[i] = "done" /\ Found(i) => \E h \in Items : Reaches(h, of[i])

MediaInv == TypeOK /\ StartInv /\ ClaimInv /\ OncePerItem /\ ReachInv

-----------------------------------------------------------------------------
LEMMA MediaInit == Init => MediaInv
<1> SUFFICES ASSUME Init PROVE MediaInv
  OBVIOUS
<1>1. TypeOK
  BY ConstAssumption DEF Init, TypeOK, Items, NoItem, Kinds
<1>2. StartInv
  BY DEF Init, StartInv, Items, Found
<1>3. ClaimInv /\ OncePerItem
  BY DEF Init, ClaimInv, OncePerItem
<1>4. ReachInv
  BY DEF Init, ReachInv
<1>5. QED
  BY <1>1, <1>2, <1>3, <1>4 DEF MediaInv

(* The hooks before an item starts, and WeChat's downloads, touch no item.  *)
LEMMA Elsewhere ==
    ASSUME MediaInv, UNCHANGED <<itemVars, chainVars, handed>>
    PROVE  StartInv' /\ ClaimInv' /\ OncePerItem' /\ ReachInv'
<1> USE DEF MediaInv, itemVars, chainVars
<1>1. StartInv'
  BY DEF StartInv, Found
<1>2. ClaimInv' /\ OncePerItem'
  BY DEF ClaimInv, OncePerItem, Found, As
<1>3. ReachInv'
  BY DEF ReachInv, Reaches, Found
<1>4. QED
  BY <1>1, <1>2, <1>3

LEMMA HookInv ==
    ASSUME MediaInv, NEW t \in Threads, (\E m \in Messages : MarkSeen(t, m)) \/ DropOrReady(t)
    PROVE  MediaInv'
<1> USE DEF MediaInv
<1>1. CASE \E m \in Messages : MarkSeen(t, m)
  <2>1. PICK m \in Messages : MarkSeen(t, m)
    BY <1>1
  <2>2. TypeOK'
    BY <2>1 DEF MarkSeen, Remember, TypeOK, itemVars, chainVars
  <2>3. QED
    BY <2>1, <2>2, Elsewhere DEF MarkSeen
<1>2. CASE DropOrReady(t)
  <2>1. TypeOK'
    BY <1>2 DEF DropOrReady, TypeOK, itemVars, chainVars
  <2>2. QED
    BY <1>2, <2>1, Elsewhere DEF DropOrReady
<1>3. QED
  BY <1>1, <1>2

LEMMA DownloadInv ==
    ASSUME MediaInv, NEW m \in Media, Download(m)
    PROVE  MediaInv'
<1>1. TypeOK'
  BY ConstAssumption DEF MediaInv, Download, TypeOK, Kinds, hookVars, itemVars, chainVars
<1>2. QED
  BY <1>1, Elsewhere DEF Download, MediaInv

LEMMA StartMediaInv ==
    ASSUME MediaInv, NEW t \in Threads, StartMedia(t)
    PROVE  MediaInv'
<1> USE DEF MediaInv
<1> DEFINE m == msg[t]
           n == started + 1
<1>1. /\ m \in Messages /\ n \in Items /\ n # NoItem /\ started' = n
      /\ pending' = [pending EXCEPT ![m] = n]
      /\ of' = [of EXCEPT ![n] = m]
      /\ at' = [at EXCEPT ![n] = "timer"]
      /\ UNCHANGED <<item, try, got, claim, handed>>
  BY ConstAssumption DEF StartMedia, TypeOK, Items, NoItem
<1>2. TypeOK'
  BY <1>1, ConstAssumption DEF StartMedia, TypeOK, Items
<1>3. at[n] = "free" /\ item[n] = "fresh" /\ ~Found(n)
  BY <1>1 DEF StartInv, TypeOK
<1>4. /\ \A i \in Items : i # n => of'[i] = of[i] /\ at'[i] = at[i]
      /\ of'[n] = m /\ at'[n] = "timer"
      /\ \A k \in Messages : k # m => pending'[k] = pending[k]
      /\ pending'[m] = n
      /\ \A i \in Items : Found(i)' = Found(i) /\ As(i)' = As(i)
  BY <1>1 DEF TypeOK, Found, As
<1>5. StartInv'
  <2>1. \A i \in Items : at'[i] = "free" <=> i > started'
    BY <1>1, <1>3, <1>4 DEF StartInv, TypeOK, Items
  <2>2. \A i \in Items : at'[i] = "free" => item'[i] = "fresh"
    BY <1>1, <1>4 DEF StartInv
  <2>3. \A k \in Messages : pending'[k] # NoItem =>
           pending'[k] <= started' /\ of'[pending'[k]] = k
    <3> SUFFICES ASSUME NEW k \in Messages, pending'[k] # NoItem
                 PROVE  pending'[k] <= started' /\ of'[pending'[k]] = k
      OBVIOUS
    <3>1. CASE k = m
      BY <1>1, <1>4, <3>1 DEF TypeOK, Items
    <3>2. CASE k # m
      <4>1. pending[k] \in Items /\ pending[k] <= started /\ of[pending[k]] = k
        BY <1>4, <3>2 DEF StartInv, TypeOK
      <4>2. pending[k] # n /\ pending[k] <= n
        BY <4>1 DEF TypeOK, Items
      <4>3. QED
        BY <1>1, <1>4, <3>2, <4>1, <4>2
    <3>3. QED
      BY <3>1, <3>2
  <2>4. \A i \in Items : at'[i] \in {"timer", "extract", "finish", "enqueue"} =>
           of'[i] \in Messages /\ pending'[of'[i]] # NoItem
    BY <1>1, <1>4 DEF StartInv
  <2>5. \A i \in Items : at'[i] \in {"free", "timer", "extract"} => ~Found(i)'
    BY <1>3, <1>4 DEF StartInv
  <2>6. QED
    BY <2>1, <2>2, <2>3, <2>4, <2>5 DEF StartInv
<1>6. \A d \in handed : d.by \in Items /\ d.by # n
  BY <1>3 DEF ClaimInv, TypeOK
<1>7. ClaimInv'
  BY <1>1, <1>4, <1>6 DEF ClaimInv
<1>8. OncePerItem'
  BY <1>1 DEF OncePerItem
<1>9. \A h \in Items : \A i \in Items : i # n /\ Reaches(h, of[i]) => Reaches(h, of[i])'
  BY <1>1, <1>3, <1>4 DEF Reaches
<1>10. ReachInv'
  BY <1>1, <1>3, <1>4, <1>9 DEF ReachInv
<1>11. QED
  BY <1>2, <1>5, <1>7, <1>8, <1>10

(* A chain that moves on before FinishMedia.                                *)
LEMMA SearchInv ==
    ASSUME MediaInv, NEW i \in Items, LookUp(i) \/ Extract(i)
    PROVE  MediaInv'
<1> USE DEF MediaInv
<1>1. /\ at[i] \in {"timer", "extract"}
      /\ UNCHANGED <<itemVars, claim, handed>>
      /\ \A j \in Items : j # i => at'[j] = at[j] /\ got'[j] = got[j]
      /\ at'[i] \in {"timer", "extract", "finish", "done"}
      /\ at'[i] \in {"timer", "extract", "done"} => got'[i] # "body"
  <2>1. CASE LookUp(i)
    BY <2>1 DEF LookUp, TypeOK, StartInv, Found
  <2>2. CASE Extract(i)
    BY <2>2 DEF Extract, TypeOK
  <2>3. QED
    BY <2>1, <2>2
<1>2. TypeOK'
  <2>1. CASE LookUp(i)
    BY <2>1 DEF LookUp, TypeOK, hookVars, itemVars
  <2>2. CASE Extract(i)
    <3>1. of[i] \in Messages /\ body[of[i]] \in Kinds
      BY <2>2 DEF Extract, StartInv, TypeOK
    <3>2. got' \in [Items -> Kinds] /\ at' \in [Items -> {"free", "timer", "extract", "finish", "enqueue", "done", "lost"}]
      BY <2>2, <3>1 DEF Extract, TypeOK
    <3>3. try' \in [Items -> 0..MaxAttempts]
      BY <2>2, ConstAssumption DEF Extract, TypeOK
    <3>4. QED
      BY <2>2, <3>2, <3>3 DEF Extract, TypeOK, hookVars, itemVars
  <2>3. QED
    BY <2>1, <2>2
<1>3. StartInv'
  BY <1>1 DEF StartInv, Found, itemVars
<1>4. \A j \in Items : j # i => As(j)' = As(j) /\ Found(j)' = Found(j)
  BY <1>1 DEF As, Found
<1>5. \A d \in handed : d.by \in Items /\ d.by # i
  BY <1>1 DEF ClaimInv, TypeOK
<1>6. ClaimInv' /\ OncePerItem'
  BY <1>1, <1>4, <1>5 DEF ClaimInv, OncePerItem, itemVars
<1>7. \A h \in Items : \A m : Reaches(h, m) => Reaches(h, m)'
  BY <1>1, <1>4, <1>5 DEF Reaches, StartInv, itemVars
<1>8. ReachInv'
  BY <1>1, <1>4, <1>7 DEF ReachInv, itemVars, Found
<1>9. QED
  BY <1>2, <1>3, <1>6, <1>8

LEMMA FinishMediaInv ==
    ASSUME MediaInv, NEW i \in Items, FinishMedia(i)
    PROVE  MediaInv'
<1> USE DEF MediaInv
<1> DEFINE k == pending[of[i]]
<1>1. at[i] = "finish" /\ of[i] \in Messages /\ k \in Items /\ of[k] = of[i]
      /\ k <= started /\ at[k] # "free"
  BY DEF FinishMedia, StartInv, TypeOK, Items, NoItem
<1>2. UNCHANGED <<hookVars, body, pending, of, started, try, got, handed, kills>>
  BY DEF FinishMedia
<1>3. \A j \in Items : As(j)' = As(j) /\ Found(j)' = Found(j)
  BY <1>2 DEF As, Found
<1>4. \A d \in handed : d.by \in Items /\ d.item \in Items /\ d.by # i /\ d.as \in {"bare", "body"}
  BY <1>1 DEF ClaimInv, TypeOK
<1>5. OncePerItem'
  BY <1>2 DEF OncePerItem
<1>6. CASE Settled(i, k)
  <2>1. at' = [at EXCEPT ![i] = "done"] /\ item' = item /\ claim' = claim
    BY <1>6 DEF FinishMedia
  <2>2. \A j \in Items : at'[j] = IF j = i THEN "done" ELSE at[j]
    BY <2>1 DEF TypeOK
  <2>3. TypeOK'
    BY <1>2, <2>1 DEF TypeOK, hookVars
  <2>4. StartInv'
    BY <1>1, <1>2, <1>3, <2>1, <2>2 DEF StartInv
  <2>5. ClaimInv'
    BY <1>2, <1>3, <1>4, <2>1, <2>2 DEF ClaimInv
  <2>6. \A h \in Items : \A m : Reaches(h, m) => Reaches(h, m)'
    BY <1>1, <1>2, <1>3, <1>4, <2>2 DEF Reaches
  <2>7. Found(i) => item[k] = "body"
    BY <1>6 DEF Settled
  <2>8. ReachInv'
    BY <1>1, <1>2, <1>3, <2>1, <2>2, <2>6, <2>7 DEF ReachInv
  <2>9. QED
    BY <1>5, <2>3, <2>4, <2>5, <2>8
<1>7. CASE ~Settled(i, k)
  <2>1. /\ at' = [at EXCEPT ![i] = "enqueue"]
        /\ item' = [item EXCEPT ![k] = As(i)]
        /\ claim' = [claim EXCEPT ![i] = k]
    BY <1>7 DEF FinishMedia
  <2>2. /\ \A j \in Items : at'[j] = IF j = i THEN "enqueue" ELSE at[j]
        /\ \A j \in Items : item'[j] = IF j = k THEN As(i) ELSE item[j]
        /\ \A j \in Items : claim'[j] = IF j = i THEN k ELSE claim[j]
    BY <1>1, <2>1 DEF TypeOK
  <2>3. As(i) \in {"bare", "body"} /\ (As(i) = "body" <=> Found(i))
    BY DEF As
  <2>4. item[k] = "fresh" \/ (Found(i) /\ item[k] # "body")
    BY <1>7 DEF Settled
  <2>5. TypeOK'
    BY <1>1, <1>2, <2>1, <2>3 DEF TypeOK, hookVars
  <2>6. StartInv'
    BY <1>1, <1>2, <1>3, <2>2 DEF StartInv
  <2>7. \A j \in Items : j # i /\ at[j] = "enqueue" /\ claim[j] = k => As(j) # As(i) /\ ~Found(j)
    BY <2>3, <2>4 DEF ClaimInv, As
  <2>8. \A d \in handed : d.item = k => d.as # As(i) /\ d.as = "bare"
    BY <1>4, <2>3, <2>4 DEF ClaimInv
  <2>9. ClaimInv'
    <3>1. \A j \in Items : at'[j] = "enqueue" =>
             /\ claim'[j] \in Items
             /\ item'[claim'[j]] # "fresh"
             /\ Found(j)' => item'[claim'[j]] = "body"
      BY <1>1, <1>3, <2>2, <2>3, <2>7 DEF ClaimInv
    <3>2. \A j, l \in Items :
             at'[j] = "enqueue" /\ at'[l] = "enqueue" /\ claim'[j] = claim'[l] /\ As(j)' = As(l)'
                 => j = l
      BY <1>3, <2>2, <2>7 DEF ClaimInv
    <3>3. \A d \in handed' :
             /\ at'[d.by] = "done"
             /\ item'[d.item] # "fresh"
             /\ d.as = "body" => item'[d.item] = "body"
      BY <1>2, <1>4, <2>2, <2>3, <2>8 DEF ClaimInv
    <3>4. \A d \in handed', j \in Items :
             at'[j] = "enqueue" /\ d.item = claim'[j] => d.as # As(j)'
      BY <1>2, <1>3, <2>2, <2>8 DEF ClaimInv
    <3>5. QED
      BY <3>1, <3>2, <3>3, <3>4 DEF ClaimInv
  <2>10. \A h \in Items : \A m : Reaches(h, m) => Reaches(h, m)'
    BY <1>1, <1>2, <1>3, <1>4, <2>2 DEF Reaches
  <2>11. Found(i) => Reaches(i, of[k])'
    BY <1>1, <1>2, <1>3, <2>2 DEF Reaches
  <2>12. ReachInv'
    BY <1>1, <1>2, <1>3, <2>2, <2>3, <2>10, <2>11 DEF ReachInv
  <2>13. QED
    BY <1>5, <2>5, <2>6, <2>9, <2>12
<1>8. QED
  BY <1>6, <1>7

LEMMA EnqueueInv ==
    ASSUME MediaInv, NEW i \in Items, EnqueueReady(i)
    PROVE  MediaInv'
<1> USE DEF MediaInv
<1> DEFINE e == [by |-> i, item |-> claim[i], as |-> As(i)]
<1>1. /\ at[i] = "enqueue" /\ claim[i] \in Items
      /\ handed' = handed \cup {e}
      /\ at' = [at EXCEPT ![i] = "done"]
      /\ UNCHANGED <<hookVars, body, itemVars, try, got, claim, kills>>
  BY DEF EnqueueReady, ClaimInv
<1>2. \A j \in Items : at'[j] = IF j = i THEN "done" ELSE at[j]
  BY <1>1 DEF TypeOK
<1>3. As(i) \in {"bare", "body"} /\ (As(i) = "body" <=> Found(i))
  BY DEF As
<1>4. \A j \in Items : As(j)' = As(j) /\ Found(j)' = Found(j)
  BY <1>1 DEF As, Found
<1>5. TypeOK'
  <2>1. handed' \subseteq [by : Items, item : Items, as : {"bare", "body"}]
    BY <1>1, <1>3 DEF TypeOK
  <2>2. at' \in [Items -> {"free", "timer", "extract", "finish", "enqueue", "done", "lost"}]
    BY <1>1 DEF TypeOK
  <2>3. QED
    BY <1>1, <2>1, <2>2 DEF TypeOK, hookVars, itemVars
<1>6. StartInv'
  BY <1>1, <1>2, <1>4 DEF StartInv, itemVars
<1>7. \A d \in handed : d.by \in Items /\ d.item \in Items
  BY DEF TypeOK
<1>8. e.by = i /\ e.item = claim[i] /\ e.as = As(i)
  OBVIOUS
<1>9. ClaimInv'
  <2>1. \A j \in Items : at'[j] = "enqueue" =>
           /\ claim'[j] \in Items
           /\ item'[claim'[j]] # "fresh"
           /\ Found(j)' => item'[claim'[j]] = "body"
    BY <1>1, <1>2, <1>4 DEF ClaimInv, itemVars
  <2>2. \A j, l \in Items :
           at'[j] = "enqueue" /\ at'[l] = "enqueue" /\ claim'[j] = claim'[l] /\ As(j)' = As(l)'
               => j = l
    BY <1>1, <1>2, <1>4 DEF ClaimInv
  <2>3. \A d \in handed' :
           /\ at'[d.by] = "done"
           /\ item'[d.item] # "fresh"
           /\ d.as = "body" => item'[d.item] = "body"
    BY <1>1, <1>2, <1>3, <1>7, <1>8 DEF ClaimInv, itemVars
  <2>4. \A d \in handed', j \in Items :
           at'[j] = "enqueue" /\ d.item = claim'[j] => d.as # As(j)'
    BY <1>1, <1>2, <1>4, <1>8 DEF ClaimInv
  <2>5. QED
    BY <2>1, <2>2, <2>3, <2>4 DEF ClaimInv
<1>10. OncePerItem'
  <2>1. \A d \in handed : d.item = e.item => d.as # e.as
    BY <1>1, <1>8 DEF ClaimInv
  <2>2. QED
    BY <1>1, <2>1 DEF OncePerItem
<1>11. \A h \in Items : \A m : Reaches(h, m) => Reaches(h, m)'
  <2> SUFFICES ASSUME NEW h \in Items, NEW m, Reaches(h, m) PROVE Reaches(h, m)'
    OBVIOUS
  <2>1. of' = of /\ at'[h] # "free"
    BY <1>1, <1>2 DEF Reaches, itemVars
  <2>2. CASE \E d \in handed : d.by = h /\ d.as = "body"
    BY <1>1, <2>1, <2>2 DEF Reaches
  <2>3. CASE at[h] = "enqueue" /\ Found(h)
    <3>1. CASE h = i
      <4>1. e \in handed' /\ e.by = h /\ e.as = "body"
        BY <1>1, <1>3, <1>8, <2>3, <3>1
      <4>2. QED
        BY <2>1, <4>1 DEF Reaches
    <3>2. CASE h # i
      BY <1>2, <1>4, <2>1, <2>3, <3>2 DEF Reaches
    <3>3. QED
      BY <3>1, <3>2
  <2>4. CASE at[h] = "lost"
    BY <1>1, <1>2, <2>1, <2>4 DEF Reaches
  <2>5. QED
    BY <2>2, <2>3, <2>4 DEF Reaches
<1>12. Found(i) => Reaches(i, of[i])
  BY <1>1 DEF Reaches
<1>13. ReachInv'
  BY <1>1, <1>2, <1>4, <1>11, <1>12 DEF ReachInv, itemVars
<1>14. QED
  BY <1>5, <1>6, <1>9, <1>10, <1>13

LEMMA KillInv ==
    ASSUME MediaInv, Kill
    PROVE  MediaInv'
<1> USE DEF MediaInv
<1>1. /\ pending' = [m \in Messages |-> NoItem]
      /\ \A j \in Items : at'[j] = IF at[j] \in {"free", "done"} THEN at[j] ELSE "lost"
      /\ UNCHANGED <<item, of, started, got, claim, handed>>
  BY DEF Kill
<1>2. TypeOK'
  BY ConstAssumption DEF Kill, TypeOK
<1>3. \A j \in Items : As(j)' = As(j) /\ Found(j)' = Found(j)
  BY <1>1 DEF As, Found
<1>4. StartInv'
  BY <1>1, <1>3 DEF StartInv
<1>5. \A d \in handed : d.by \in Items
  BY DEF TypeOK
<1>6. ClaimInv' /\ OncePerItem'
  BY <1>1, <1>5 DEF ClaimInv, OncePerItem
<1>7. \A h \in Items : \A m : Reaches(h, m) => Reaches(h, m)'
  BY <1>1 DEF Reaches
<1>8. ReachInv'
  BY <1>1, <1>3, <1>7 DEF ReachInv
<1>9. QED
  BY <1>2, <1>4, <1>6, <1>8

LEMMA MediaNext == MediaInv /\ [Next]_vars => MediaInv'
<1> SUFFICES ASSUME MediaInv, [Next]_vars PROVE MediaInv'
  OBVIOUS
<1>1. ASSUME NEW t \in Threads, Hook(t) PROVE MediaInv'
  BY <1>1, HookInv, StartMediaInv DEF Hook
<1>2. ASSUME NEW i \in Items, Chain(i) PROVE MediaInv'
  BY <1>2, SearchInv, FinishMediaInv, EnqueueInv DEF Chain
<1>3. ASSUME NEW m \in Media, Download(m) PROVE MediaInv'
  BY <1>3, DownloadInv
<1>4. CASE Kill
  BY <1>4, KillInv
<1>5. CASE UNCHANGED vars
  <2>1. TypeOK'
    BY <1>5 DEF MediaInv, TypeOK, vars, hookVars, itemVars, chainVars
  <2>2. QED
    BY <1>5, <2>1, Elsewhere DEF MediaInv, vars
<1>6. QED
  BY <1>1, <1>2, <1>3, <1>4, <1>5 DEF Next

-----------------------------------------------------------------------------
(* Every variable keeps its type, whatever messages and threads there are;  *)
(* in particular no chain tries more than maxAttempts times.                *)
THEOREM MediaTypeCorrect == Spec => []TypeOK
<1>1. MediaInv => TypeOK
  BY DEF MediaInv
<1>2. QED
  BY <1>1, MediaInit, MediaNext, PTL DEF Spec

(* The test and set of FinishMedia suffices: however many chains meet on an *)
(* item, it goes to the queue once without a body and once with one.        *)
THEOREM HandedOncePerItem == Spec => []OncePerItem
<1>1. MediaInv => OncePerItem
  BY DEF MediaInv
<1>2. QED
  BY <1>1, MediaInit, MediaNext, PTL DEF Spec

(* A chain that gives its body up does so because another one has it.       *)
THEOREM FoundBodyReaches == Spec => []BodyReaches
<1>1. MediaInv => BodyReaches
  BY DEF MediaInv, ReachInv, Reaches, BodyReaches
<1>2. QED
  BY <1>1, MediaInit, MediaNext, PTL DEF Spec

(* A message that the table does not hold was forgotten as often as it was  *)
(* taken for new.                                                           *)
SeenInv ==
    \A m \in Messages :
        /\ marks[m] <= 1 + kills + ousted[m]
        /\ m \notin seen => marks[m] <= kills + ousted[m]

LEMMA SeenInit == Init => SeenInv
  BY DEF Init, SeenInv

(* Whoever is new when the table is full puts out all the others that it    *)
(* holds, and never itself.                                                 *)
LEMMA MarkSeenInv ==
    ASSUME TypeOK, SeenInv, NEW t \in Threads, NEW m \in Messages, MarkSeen(t, m)
    PROVE  SeenInv'
<1> SUFFICES ASSUME NEW k \in Messages
             PROVE  /\ marks'[k] <= 1 + kills' + ousted'[k]
                    /\ k \notin seen' => marks'[k] <= kills' + ousted'[k]
  BY DEF SeenInv
<1>1. /\ marks[k] \in Nat /\ ousted[k] \in Nat /\ kills \in Nat
      /\ marks[k] <= 1 + kills + ousted[k]
      /\ k \notin seen => marks[k] <= kills + ousted[k]
  BY ConstAssumption DEF TypeOK, SeenInv
<1>2. /\ m \notin seen /\ seen' = Remember(m) /\ kills' = kills
      /\ marks'[k] = IF k = m THEN marks[k] + 1 ELSE marks[k]
      /\ ousted'[k] = IF Full(m) /\ k \in seen THEN ousted[k] + 1 ELSE ousted[k]
  BY DEF MarkSeen, TypeOK
<1>3. CASE k = m
  <2>1. k \in seen'
    BY <1>2, <1>3 DEF Remember
  <2>2. QED
    BY <1>1, <1>2, <1>3, <2>1
<1>4. CASE k # m
  <2>1. k \in seen' => k \in seen
    BY <1>2, <1>4 DEF Remember
  <2>2. k \in seen /\ k \notin seen' => Full(m)
    BY <1>2, <1>4 DEF Remember
  <2>3. QED
    BY <1>1, <1>2, <1>4, <2>1, <2>2
<1>5. QED
  BY <1>3, <1>4

LEMMA SeenNext == TypeOK /\ SeenInv /\ [Next]_vars => SeenInv'
<1> SUFFICES ASSUME TypeOK, SeenInv, [Next]_vars PROVE SeenInv'
  OBVIOUS
<1>1. ASSUME NEW t \in Threads, NEW m \in Messages, MarkSeen(t, m) PROVE SeenInv'
  BY <1>1, MarkSeenInv
<1>2. CASE Kill
  <2>1. kills \in Nat /\ \A m \in Messages : marks[m] \in Nat /\ ousted[m] \in Nat
    BY ConstAssumption DEF TypeOK
  <2>2. kills' = kills + 1 /\ marks' = marks /\ ousted' = ousted
    BY <1>2 DEF Kill
  <2>3. QED
    BY <2>1, <2>2 DEF SeenInv
<1>3. ASSUME UNCHANGED <<seen, marks, ousted, kills>> PROVE SeenInv'
  BY <1>3 DEF SeenInv
<1>4. ASSUME NEW t \in Threads, DropOrReady(t) \/ StartMedia(t)
      PROVE  UNCHANGED <<seen, marks, ousted, kills>>
  BY <1>4 DEF DropOrReady, StartMedia
<1>5. ASSUME NEW i \in Items, Chain(i)
      PROVE  UNCHANGED <<seen, marks, ousted, kills>>
  BY <1>5 DEF Chain, LookUp, Extract, FinishMedia, EnqueueReady, hookVars
<1>6. ASSUME NEW m \in Media, Download(m)
      PROVE  UNCHANGED <<seen, marks, ousted, kills>>
  BY <1>6 DEF Download, hookVars
<1>7. CASE UNCHANGED vars
  BY <1>3, <1>7 DEF vars, hookVars
<1>8. QED
  BY <1>1, <1>2, <1>3, <1>4, <1>5, <1>6, <1>7 DEF Next, Hook

(* The callbacks of a message never make it new again: that takes a restart *)
(* of the app, or another message that finds the table full and puts it out.*)
THEOREM NewOncePerTable == Spec => []SeenOnce
<1>1. SeenInv => SeenOnce
  BY DEF SeenInv, SeenOnce
<1>2. Spec => []SeenInv
  BY MediaTypeCorrect, SeenInit, SeenNext, PTL DEF Spec
<1>3. QED
  BY <1>1, <1>2, PTL
=============================================================================
