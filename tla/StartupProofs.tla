---------------------------- MODULE StartupProofs ----------------------------
(***************************************************************************)
(* What CServerConfig's two maps answer, for a configuration file of any    *)
(* length.                                                                  *)
(***************************************************************************)
EXTENDS Startup, WellFoundedInduction, TLAPS

\* A set of numbers has a least one.
LEMMA Least ==
    ASSUME NEW S \in SUBSET Nat, S # {}
    PROVE  \E x \in S : \A y \in S : x <= y
<1>1. OpToRel(<, Nat) = {p \in Nat \X Nat : p[1] < p[2]}
  BY DEF OpToRel
<1>2. PICK R : R = {p \in Nat \X Nat : p[1] < p[2]}
  OBVIOUS
<1>3. IsWellFoundedOn(R, Nat)
  BY <1>1, <1>2, NatLessThanWellFounded, Zenon
<1>4. \E x \in S : \A y \in S : ~(<<y, x>> \in R)
  BY <1>3, WFMin
<1>5. \A x, y \in Nat : ~(<<y, x>> \in R) => x <= y
  BY <1>2
<1>6. PICK x \in S : \A y \in S : ~(<<y, x>> \in R)
  BY <1>4
<1> QED
  BY <1>5, <1>6

\* Every member of "root" has a value: the lookup by name finds one.
LEMMA ValueFound ==
    ASSUME root \in Seq(Members \X ServerConfigInfo), NEW i \in 1 .. Len(root)
    PROVE  Value(i) \in ServerConfigInfo
<1> DEFINE same == {j \in DOMAIN root : root[j][1] = root[i][1]}
<1>1. DOMAIN root = 1 .. Len(root) /\ Len(root) \in Nat
  OBVIOUS
<1>2. same \in SUBSET Nat /\ i \in same
  BY <1>1
<1>3. \E j \in same : \A k \in same : j <= k
  BY <1>2, Least
<1>4. (CHOOSE j \in same : \A k \in same : j <= k) \in 1 .. Len(root)
  BY <1>1, <1>3
<1>5. \A j \in 1 .. Len(root) : root[j][2] \in ServerConfigInfo
  OBVIOUS
<1> QED
  BY <1>4, <1>5 DEF Value

-----------------------------------------------------------------------------
\* Of the first n entries, the last one with an id is what the map gives for it.
IdsFound(map, n) ==
    \A j \in 1 .. n :
        \/ map[Value(j).ServerId] = Value(j)
        \/ \E k \in (j + 1) .. n : Value(k).ServerId = Value(j).ServerId

\* The same for names.
NamesFound(map, n) ==
    \A j \in 1 .. n :
        \/ map[Value(j).ServerName] = Value(j)
        \/ \E k \in (j + 1) .. n : Value(k).ServerName = Value(j).ServerName

(***************************************************************************)
(* The loop invariant of the constructor of CServerConfig: the maps are     *)
(* right for the entries before DocIter, and the loop is left behind the    *)
(* last one.                                                                *)
(***************************************************************************)
IInv ==
    /\ root \in Seq(Members \X ServerConfigInfo)
    /\ DocIter \in 1 .. (Len(root) + 1)
    /\ DOMAIN m_ServerConfigInfo = ServerIds
    /\ DOMAIN m_strServerConfigInfo = ServerNames
    /\ IdsFound(m_ServerConfigInfo, DocIter - 1)
    /\ NamesFound(m_strServerConfigInfo, DocIter - 1)
    /\ main \notin {"load", "dead"} => DocIter = Len(root) + 1

\* The entry at DocIter goes into both maps.
LEMMA LoadEntryStep ==
    ASSUME IInv, LoadEntry
    PROVE  IInv'
<1>1. PICK n \in Nat : DocIter = n + 1 /\ n + 1 \in 1 .. Len(root) /\ Len(root) \in Nat
  <2>1. Len(root) \in Nat /\ DocIter \in 1 .. (Len(root) + 1) /\ DocIter <= Len(root)
    BY DEF IInv, LoadEntry
  <2>2. DocIter - 1 \in Nat /\ DocIter = (DocIter - 1) + 1 /\ DocIter \in 1 .. Len(root)
    BY <2>1
  <2> QED
    BY <2>1, <2>2
<1>2. PICK v \in ServerConfigInfo : v = Value(n + 1)
  BY <1>1, ValueFound DEF IInv
<1>3. v.ServerId \in ServerIds /\ v.ServerName \in ServerNames
  BY DEF ServerConfigInfo
<1>4. /\ m_ServerConfigInfo' = [m_ServerConfigInfo EXCEPT ![v.ServerId] = v]
      /\ m_strServerConfigInfo' = [m_strServerConfigInfo EXCEPT ![v.ServerName] = v]
      /\ DocIter' = n + 2 /\ root' = root /\ main' = main /\ main = "load"
  BY <1>1, <1>2 DEF LoadEntry, ById
<1>5. \A j : Value(j)' = Value(j)
  BY <1>4 DEF Value
<1>6. \A j \in 1 .. n + 1 : j \in 1 .. n \/ j = n + 1
  OBVIOUS
<1>7. \A j \in 1 .. n : n + 1 \in (j + 1) .. n + 1 /\ (j + 1) .. n \subseteq (j + 1) .. n + 1
  OBVIOUS
<1>8. n = DocIter - 1 /\ n + 1 = DocIter' - 1
  BY <1>1, <1>4
<1>9. IdsFound(m_ServerConfigInfo', n + 1)
  <2>1. IdsFound(m_ServerConfigInfo, n)
    BY <1>8 DEF IInv
  <2>2. m_ServerConfigInfo'[v.ServerId] = v
    BY <1>3, <1>4 DEF IInv
  <2>3. \A x : x # v.ServerId => m_ServerConfigInfo'[x] = m_ServerConfigInfo[x]
    BY <1>4 DEF IInv
  <2> SUFFICES ASSUME NEW j \in 1 .. n + 1
               PROVE  \/ m_ServerConfigInfo'[Value(j).ServerId] = Value(j)
                      \/ \E k \in (j + 1) .. n + 1 : Value(k).ServerId = Value(j).ServerId
    BY DEF IdsFound
  <2>4. CASE j = n + 1
    BY <1>2, <2>2, <2>4
  <2>5. CASE j \in 1 .. n /\ Value(j).ServerId = v.ServerId
    BY <1>2, <1>7, <2>5
  <2>6. CASE j \in 1 .. n /\ Value(j).ServerId # v.ServerId
    BY <1>7, <2>1, <2>3, <2>6 DEF IdsFound
  <2> QED
    BY <1>6, <2>4, <2>5, <2>6
<1>10. NamesFound(m_strServerConfigInfo', n + 1)
  <2>1. NamesFound(m_strServerConfigInfo, n)
    BY <1>8 DEF IInv
  <2>2. m_strServerConfigInfo'[v.ServerName] = v
    BY <1>3, <1>4 DEF IInv
  <2>3. \A x : x # v.ServerName => m_strServerConfigInfo'[x] = m_strServerConfigInfo[x]
    BY <1>4 DEF IInv
  <2> SUFFICES ASSUME NEW j \in 1 .. n + 1
               PROVE  \/ m_strServerConfigInfo'[Value(j).ServerName] = Value(j)
                      \/ \E k \in (j + 1) .. n + 1 : Value(k).ServerName = Value(j).ServerName
    BY DEF NamesFound
  <2>4. CASE j = n + 1
    BY <1>2, <2>2, <2>4
  <2>5. CASE j \in 1 .. n /\ Value(j).ServerName = v.ServerName
    BY <1>2, <1>7, <2>5
  <2>6. CASE j \in 1 .. n /\ Value(j).ServerName # v.ServerName
    BY <1>7, <2>1, <2>3, <2>6 DEF NamesFound
  <2> QED
    BY <1>6, <2>4, <2>5, <2>6
<1>11. IdsFound(m_ServerConfigInfo, DocIter - 1)'
  BY <1>4, <1>5, <1>8, <1>9 DEF IdsFound
<1>12. NamesFound(m_strServerConfigInfo, DocIter - 1)'
  BY <1>4, <1>5, <1>8, <1>10 DEF NamesFound
<1>13. DocIter' \in 1 .. (Len(root') + 1)
  BY <1>1, <1>4
<1> QED
  BY <1>4, <1>11, <1>12, <1>13 DEF IInv

\* What is found depends on the file and the maps alone.
LEMMA ConfigKept ==
    ASSUME UNCHANGED config, IdsFound(m_ServerConfigInfo, DocIter - 1),
           NamesFound(m_strServerConfigInfo, DocIter - 1)
    PROVE  /\ IdsFound(m_ServerConfigInfo, DocIter - 1)'
           /\ NamesFound(m_strServerConfigInfo, DocIter - 1)'
<1>1. \A j : Value(j)' = Value(j)
  BY DEF Value, config
<1> QED
  BY <1>1 DEF IdsFound, NamesFound, config

\* Every step keeps the invariant.
LEMMA NextIInv == IInv /\ [Next]_vars => IInv'
<1> SUFFICES ASSUME IInv, [Next]_vars
             PROVE  IInv'
  OBVIOUS
<1>1. CASE LoadEntry
  BY <1>1, LoadEntryStep
<1>2. CASE LoadEnd
  <2>1. DocIter = Len(root) + 1
    <3>1. Len(root) \in Nat
      BY DEF IInv
    <3> QED
      BY <1>2, <3>1 DEF IInv, LoadEnd
  <2>2. UNCHANGED config
    BY <1>2 DEF LoadEnd
  <2> QED
    BY <2>1, <2>2, ConfigKept DEF IInv, config
<1>3. CASE LoadFails \/ GameInit \/ StartThrows \/ Start \/ IoThreadEnds \/ UNCHANGED vars
  <2>1. UNCHANGED config /\ (main' \notin {"load", "dead"} => main \notin {"load", "dead"})
    BY <1>3 DEF LoadFails, GameInit, StartThrows, Start, IoThreadEnds, vars
  <2> QED
    BY <2>1, ConfigKept DEF IInv, config
<1> QED
  BY <1>1, <1>2, <1>3 DEF Next

(* IInv is an invariant of the start of the server.                         *)
THEOREM InductiveInvariant == Spec => []IInv
<1>1. Init => IInv
  <2> SUFFICES ASSUME Init
               PROVE  IInv
    OBVIOUS
  <2>1. root \in Seq(Members \X ServerConfigInfo)
    BY DEF Init
  <2>2. DocIter = 1 /\ DocIter - 1 = 0 /\ 1 .. 0 = {}
    BY DEF Init
  <2>3. DocIter \in 1 .. (Len(root) + 1)
    BY <2>1, <2>2
  <2> QED
    BY <2>1, <2>2, <2>3 DEF Init, IInv, IdsFound, NamesFound
<1> QED
  BY <1>1, NextIInv, PTL DEF Spec

(* CServerConfig answers with the last entry of an id or a name, for a file  *)
(* with any number of entries, also one that repeats the name of a member.  *)
THEOREM ConfigurationFound == Spec => []EntriesFound
<1>1. IInv => EntriesFound
  <2> SUFFICES ASSUME IInv, main \notin {"load", "dead"}
               PROVE  EntriesFound
    BY DEF EntriesFound
  <2>1. DOMAIN root = 1 .. Len(root) /\ Len(root) \in Nat /\ DocIter = Len(root) + 1
    BY DEF IInv
  <2>2. DocIter - 1 = Len(root)
    BY <2>1
  <2>3. IdsFound(m_ServerConfigInfo, Len(root)) /\ NamesFound(m_strServerConfigInfo, Len(root))
    BY <2>2 DEF IInv
  <2> QED
    BY <2>1, <2>3 DEF IdsFound, NamesFound, EntriesFound, GetServerInfoByServerId,
                      GetServerInfoByServerName
<1> QED
  BY <1>1, InductiveInvariant, PTL
=============================================================================
