-------------------------- MODULE WebProfilesProofs -------------------------
(***************************************************************************)
(* What the profiles of the settings window promise: the settings stay     *)
(* usable, and what the user entered is kept.  Proved of WebProfiles; the  *)
(* end of the module has the types of its variables, which WebPanelsProofs *)
(* needs for the panels together.                                          *)
(***************************************************************************)
EXTENDS WebProfiles, FiniteSetTheorems, SequenceTheorems, TLAPS

-----------------------------------------------------------------------------
(***************************************************************************)
(* WebProfiles: what a profile, and what the settings are.                 *)
(***************************************************************************)

\* An import has a provider of its own or a known one, and carries a
\* connection.
GoodImports == \A i \in Imports : i.provider \in ProviderIds /\ i.conn # Blank

StandardOf(q) == Standard[IF q = "fal" THEN "fal" ELSE "openai"]

\* c is what completing the fields leaves for provider q.
Given(q, c) == c # Blank \/ StandardOf(q) = Blank

\* p fits settings with these custom providers.
Loose(p, custom) ==
    /\ p \in Profile /\ p.provider \in BuiltIn \cup custom
    /\ \A q \in DOMAIN p.memory : Given(q, p.memory[q])
Sound(p, custom) == Loose(p, custom) /\ DOMAIN p.memory \subseteq BuiltIn \cup custom

Distinct(ps) == \A i, j \in DOMAIN ps : ps[i].id = ps[j].id => i = j

\* What a commit may be given, and what it leaves.
Committable(s) ==
    /\ s \in Settings /\ s.custom \cap BuiltIn = {}
    /\ s.profiles # <<>> /\ Distinct(s.profiles)
    /\ \A i \in DOMAIN s.profiles : Loose(s.profiles[i], s.custom)
Sane(s) ==
    /\ Committable(s) /\ s.active \in IdsIn(s)
    /\ \A i \in DOMAIN s.profiles : Sound(s.profiles[i], s.custom)
Completes(s)    == \A i \in DOMAIN s.profiles : Given(s.profiles[i].provider, s.profiles[i].conn)
Numbered(s, n) == \A i \in DOMAIN s.profiles : s.profiles[i].id <= n

\* p gives for every provider what e says was last entered there.
KeptBy(p, e) ==
    \A q \in DOMAIN e : /\ q \in DOMAIN p.memory \cup {p.provider}
                        /\ ConnectionOf(Completed(p), q) = e[q]
AgreesWith(s, e) ==
    /\ DOMAIN e = IdsIn(s)
    /\ \A i \in DOMAIN s.profiles : KeptBy(s.profiles[i], e[s.profiles[i].id])

LEMMA ShapeOf ==
    ASSUME NEW s, Committable(s)
    PROVE  /\ s \in Settings /\ s.profiles \in Seq(Profile) /\ Len(s.profiles) \in Nat
           /\ DOMAIN s.profiles = 1..Len(s.profiles) /\ Len(s.profiles) >= 1
           /\ 1 \in DOMAIN s.profiles
           /\ s.custom \subseteq CustomProviders /\ s.active \in ProfileIds
           /\ \A i \in DOMAIN s.profiles : s.profiles[i] \in Profile
<1>1. s \in Settings /\ s.profiles \in Seq(Profile) /\ s.profiles # <<>>
      /\ s.custom \subseteq CustomProviders /\ s.active \in ProfileIds
  BY DEF Committable, Settings
<1>2. Len(s.profiles) \in Nat /\ DOMAIN s.profiles = 1..Len(s.profiles)
      /\ Len(s.profiles) # 0 /\ \A i \in DOMAIN s.profiles : s.profiles[i] \in Profile
  BY <1>1, EmptySeq
<1> QED
  BY <1>1, <1>2

\* The profile of an id is the only one with it.
LEMMA OfIs ==
    ASSUME NEW s, Committable(s), NEW i \in DOMAIN s.profiles
    PROVE  Of(s, s.profiles[i].id) = s.profiles[i]
<1> DEFINE k == IndexOf(s, s.profiles[i].id)
<1>1. \E j \in 1..Len(s.profiles) : s.profiles[j].id = s.profiles[i].id
  BY ShapeOf
<1>2. k \in 1..Len(s.profiles) /\ s.profiles[k].id = s.profiles[i].id
  BY <1>1 DEF IndexOf
<1>3. k \in DOMAIN s.profiles
  BY <1>2, ShapeOf
<1>4. k = i
  BY <1>2, <1>3 DEF Committable, Distinct
<1> QED
  BY <1>4 DEF Of

LEMMA IdsAre ==
    ASSUME NEW s, Committable(s)
    PROVE  /\ IdsIn(s) = {s.profiles[i].id : i \in DOMAIN s.profiles}
           /\ \A id \in IdsIn(s) :
                 \E i \in DOMAIN s.profiles :
                    s.profiles[i].id = id /\ s.profiles[i] = Of(s, id) /\ Of(s, id).id = id
<1>1. IdsIn(s) = {s.profiles[i].id : i \in DOMAIN s.profiles}
  BY ShapeOf DEF IdsIn
<1> QED
  BY <1>1, OfIs

\* There are as many ids as profiles.
LEMMA IdsCounted ==
    ASSUME NEW s, Committable(s)
    PROVE  Cardinality(IdsIn(s)) = Len(s.profiles)
<1> DEFINE n == Len(s.profiles)
           f == [i \in 1..n |-> s.profiles[i].id]
<1>1. n \in Nat /\ DOMAIN s.profiles = 1..n /\ IsFiniteSet(1..n) /\ Cardinality(1..n) = n
  BY ShapeOf, FS_Interval
<1>2. f \in [1..n -> IdsIn(s)] /\ \A i, j \in 1..n : f[i] = f[j] => i = j
  BY <1>1 DEF IdsIn, Committable, Distinct
<1>3. \A id \in IdsIn(s) : \E i \in 1..n : f[i] = id
  BY DEF IdsIn
<1>4. f \in Bijection(1..n, IdsIn(s))
  BY <1>2, <1>3 DEF Bijection, Injection, IsInjective, Surjection
<1>5. ExistsBijection(1..n, IdsIn(s))
  BY <1>4 DEF ExistsBijection
<1> QED
  BY <1>1, <1>5, FS_Bijection

LEMMA ProfileParts ==
    ASSUME NEW p \in Profile
    PROVE  /\ p.id \in ProfileIds /\ p.provider \in ProviderIds /\ p.conn \in Connections
           /\ p.memory \in Memories /\ p.unnamed \in BOOLEAN
           /\ p = [id |-> p.id, provider |-> p.provider, conn |-> p.conn,
                   memory |-> p.memory, unnamed |-> p.unnamed]
  BY DEF Profile

LEMMA MemoryParts ==
    ASSUME NEW m
    PROVE  m \in Memories <=> \E known \in SUBSET ProviderIds : m \in [known -> Connections]
  BY DEF Memories

\* What completing does to one profile.
LEMMA CompletedIs ==
    ASSUME NEW p \in Profile
    PROVE  /\ Completed(p) \in Profile
           /\ Completed(p) = [p EXCEPT !.conn = Completed(p).conn]
           /\ Completed(p).id = p.id /\ Completed(p).provider = p.provider
           /\ Completed(p).memory = p.memory
           /\ Given(p.provider, Completed(p).conn)
           /\ Given(p.provider, p.conn) => Completed(p) = p
           /\ Completed(Completed(p)) = Completed(p)
<1> DEFINE c == StandardOf(p.provider)
<1>1. c \in Connections
  BY WebProfilesAssumption DEF StandardOf, Connections, BuiltIn
<1>2. p.conn # Blank => Completed(p) = p /\ p = [p EXCEPT !.conn = p.conn]
  BY DEF Completed, Profile
<1>3. p.conn = Blank => Completed(p) = [p EXCEPT !.conn = c]
  BY DEF Completed, StandardOf
<1>4. p.conn = Blank => Completed(p) \in Profile /\ Completed(p).conn = c
      /\ Completed(p).id = p.id /\ Completed(p).provider = p.provider
      /\ Completed(p).memory = p.memory
  BY <1>1, <1>3 DEF Profile
<1>5. Given(p.provider, Completed(p).conn)
  BY <1>2, <1>4 DEF Given
<1>6. Given(p.provider, p.conn) => Completed(p) = p
  <2>1. CASE p.conn # Blank
    BY <1>2, <2>1
  <2>2. CASE p.conn = Blank /\ Given(p.provider, p.conn)
    <3>1. c = p.conn
      BY <2>2 DEF Given
    <3>2. [p EXCEPT !.conn = p.conn] = p
      BY DEF Profile
    <3> QED
      BY <1>3, <2>2, <3>1, <3>2
  <2> QED
    BY <2>1, <2>2
<1>7. Completed(Completed(p)) = Completed(p)
  <2>1. CASE p.conn # Blank
    BY <1>2, <2>1
  <2>2. CASE p.conn = Blank
    <3> DEFINE d == Completed(p)
    <3>1. d \in Profile /\ d.conn = c /\ d.provider = p.provider
      BY <1>4, <2>2
    <3>2. CASE d.conn # Blank
      BY <3>2 DEF Completed
    <3>3. CASE d.conn = Blank
      <4>1. Completed(d) = [d EXCEPT !.conn = c]
        BY <3>1, <3>3 DEF Completed, StandardOf
      <4>2. [d EXCEPT !.conn = d.conn] = d
        BY <3>1 DEF Profile
      <4> QED
        BY <3>1, <4>1, <4>2
    <3> QED
      BY <3>2, <3>3
  <2> QED
    BY <2>1, <2>2
<1>8. Completed(p) = [p EXCEPT !.conn = Completed(p).conn]
  BY <1>2, <1>3, <1>4
<1> QED
  BY <1>2, <1>4, <1>5, <1>6, <1>7, <1>8

\* What normalising does to one profile of a provider that exists.
LEMMA NormalKeeps ==
    ASSUME NEW custom \in SUBSET CustomProviders, NEW p, Loose(p, custom)
    PROVE  /\ Sound(NormalProfile(p, custom), custom) /\ NormalProfile(p, custom).id = p.id
           /\ NormalProfile(p, custom).provider = p.provider
           /\ NormalProfile(p, custom).conn = p.conn
           /\ Sound(p, custom) => NormalProfile(p, custom) = p
<1> DEFINE known == BuiltIn \cup custom
           r == NormalProfile(p, custom)
           m == [q \in DOMAIN p.memory \cap known |-> p.memory[q]]
<1>1. p \in Profile /\ p.provider \in known
  BY DEF Loose
<1>2. r = [p EXCEPT !.provider = p.provider, !.memory = m]
  BY <1>1 DEF NormalProfile
<1>3. PICK dom \in SUBSET ProviderIds : p.memory \in [dom -> Connections]
  BY <1>1, ProfileParts, MemoryParts
<1>4. known \subseteq ProviderIds
  BY DEF ProviderIds
<1>5. m \in [dom \cap known -> Connections] /\ dom \cap known \in SUBSET ProviderIds
  BY <1>3, <1>4
<1>6. m \in Memories
  BY <1>5, MemoryParts
<1>7. r \in Profile /\ r.id = p.id /\ r.provider = p.provider /\ r.conn = p.conn /\ r.memory = m
  <2> HIDE DEF m, known
  <2> QED
    BY <1>1, <1>2, <1>6 DEF Profile
<1>8. Sound(r, custom)
  BY <1>1, <1>7 DEF Sound, Loose
<1>9. ASSUME Sound(p, custom) PROVE r = p
  <2>1. DOMAIN p.memory \cap known = DOMAIN p.memory
    BY <1>9 DEF Sound
  <2>2. m = p.memory
    BY <2>1, <1>3
  <2> HIDE DEF m, known
  <2> QED
    BY <1>1, <1>2, <2>2 DEF Profile
<1> QED
  BY <1>7, <1>8, <1>9

LEMMA NormalOfSound ==
    ASSUME NEW custom \in SUBSET CustomProviders, NEW p, Sound(p, custom)
    PROVE  NormalProfile(p, custom) = p
<1>1. Loose(p, custom)
  BY DEF Sound
<1> QED
  BY <1>1, NormalKeeps

LEMMA NormalMemory ==
    ASSUME NEW custom, NEW p \in Profile
    PROVE  /\ DOMAIN NormalProfile(p, custom).memory = DOMAIN p.memory \cap (BuiltIn \cup custom)
           /\ \A q \in DOMAIN p.memory \cap (BuiltIn \cup custom) :
                 NormalProfile(p, custom).memory[q] = p.memory[q]
<1> DEFINE m == [q \in DOMAIN p.memory \cap (BuiltIn \cup custom) |-> p.memory[q]]
<1>1. NormalProfile(p, custom).memory = m
  BY DEF NormalProfile, Profile
<1> QED
  BY <1>1

-----------------------------------------------------------------------------
(* Normalising and committing settings. *)

LEMMA FunIsSeq ==
    ASSUME NEW S, NEW n \in Nat, NEW f, DOMAIN f = 1..n, f = [i \in 1..n |-> f[i]],
           \A i \in 1..n : f[i] \in S
    PROVE  f \in Seq(S) /\ Len(f) = n
<1>1. f \in [1..n -> S]
  OBVIOUS
<1>2. f \in Seq(S)
  BY <1>1
<1> QED
  BY <1>2

LEMMA NormalSettings ==
    ASSUME NEW s, Committable(s)
    PROVE  LET t == Normal(s)
           IN  /\ Sane(t) /\ DOMAIN t.profiles = DOMAIN s.profiles /\ t.custom = s.custom
               /\ \A i \in DOMAIN s.profiles :
                     t.profiles[i] = NormalProfile(s.profiles[i], s.custom)
               /\ IdsIn(t) = IdsIn(s)
               /\ s.active \in IdsIn(s) => t.active = s.active
<1> DEFINE t  == Normal(s)
           ps == [i \in DOMAIN s.profiles |-> NormalProfile(s.profiles[i], s.custom)]
<1>1. /\ s.custom \in SUBSET CustomProviders /\ s.custom \cap BuiltIn = {}
      /\ \A i \in DOMAIN s.profiles : Loose(s.profiles[i], s.custom)
      /\ DOMAIN s.profiles = 1..Len(s.profiles) /\ Len(s.profiles) \in Nat
      /\ 1 \in DOMAIN s.profiles /\ s \in Settings
  BY ShapeOf DEF Committable
<1>2. ASSUME NEW i \in DOMAIN s.profiles
      PROVE  Sound(ps[i], s.custom) /\ ps[i].id = s.profiles[i].id /\ ps[i] \in Profile
  <2>1. Loose(s.profiles[i], s.custom) /\ s.custom \in SUBSET CustomProviders
    BY <1>1
  <2>2. ps[i] = NormalProfile(s.profiles[i], s.custom)
    OBVIOUS
  <2> HIDE DEF ps, t
  <2>3. Sound(ps[i], s.custom) /\ ps[i].id = s.profiles[i].id
    BY <2>1, <2>2, NormalKeeps
  <2> QED
    BY <2>3 DEF Sound, Loose
<1>3. ps \in Seq(Profile) /\ DOMAIN ps = DOMAIN s.profiles /\ Len(ps) = Len(s.profiles)
  <2>1. DOMAIN ps = 1..Len(s.profiles) /\ \A i \in 1..Len(s.profiles) : ps[i] \in Profile
    BY <1>1, <1>2
  <2>2. ps = [i \in 1..Len(s.profiles) |-> ps[i]]
    BY <1>1
  <2>3. Len(s.profiles) \in Nat
    BY <1>1
  <2> HIDE DEF ps
  <2>4. ps \in Seq(Profile) /\ Len(ps) = Len(s.profiles)
    BY <2>1, <2>2, <2>3, FunIsSeq
  <2> QED
    BY <1>1, <2>1, <2>4
<1>4. ps[1].id \in ProfileIds /\ s.active \in ProfileIds
  BY <1>1, <1>2, ProfileParts, ShapeOf
<1>5. t = [s EXCEPT !.profiles = ps,
                    !.active = IF s.active \in IdsIn(s) THEN s.active ELSE ps[1].id]
  BY DEF Normal
<1> DEFINE a == IF s.active \in IdsIn(s) THEN s.active ELSE ps[1].id
<1>6. a \in ProfileIds
  BY <1>4
<1>7. t.profiles = ps /\ t.custom = s.custom /\ t.active = a /\ t \in Settings
  <2> HIDE DEF ps, a
  <2>1. t = [s EXCEPT !.profiles = ps, !.active = a]
    BY <1>5 DEF a
  <2> HIDE DEF t
  <2> QED
    BY <1>1, <1>3, <1>6, <2>1 DEF Settings
<1>8. IdsIn(t) = IdsIn(s)
  <2> HIDE DEF t, a
  <2>1. IdsIn(t) = {ps[i].id : i \in 1..Len(ps)}
    BY <1>7 DEF IdsIn
  <2>2. \A i \in 1..Len(s.profiles) : ps[i].id = s.profiles[i].id
    BY <1>1, <1>2
  <2> HIDE DEF ps
  <2> QED
    BY <1>3, <2>1, <2>2 DEF IdsIn
<1>9. a \in IdsIn(s)
  BY <1>1, <1>2 DEF IdsIn
<1>10. Distinct(ps)
  BY <1>2, <1>3 DEF Committable, Distinct
<1>11. Sane(t)
  <2> HIDE DEF t, ps, a
  <2>1. ps # <<>>
    BY <1>1, <1>3
  <2> QED
    BY <1>1, <1>2, <1>3, <1>7, <1>8, <1>9, <1>10, <2>1 DEF Sane, Committable, Sound
<1> QED
  BY <1>3, <1>7, <1>8, <1>11

LEMMA CommittedSettings ==
    ASSUME NEW s, Committable(s)
    PROVE  LET t == Committed(s)
           IN  /\ Sane(t) /\ Completes(t) /\ DOMAIN t.profiles = DOMAIN s.profiles
               /\ t.custom = s.custom /\ IdsIn(t) = IdsIn(s)
               /\ \A i \in DOMAIN s.profiles :
                     t.profiles[i] = NormalProfile(Completed(s.profiles[i]), s.custom)
<1> DEFINE ps == [i \in DOMAIN s.profiles |-> Completed(s.profiles[i])]
           u  == [s EXCEPT !.profiles = ps]
<1>1. /\ s.custom \in SUBSET CustomProviders /\ s.custom \cap BuiltIn = {}
      /\ \A i \in DOMAIN s.profiles : Loose(s.profiles[i], s.custom)
      /\ DOMAIN s.profiles = 1..Len(s.profiles) /\ Len(s.profiles) \in Nat
      /\ 1 \in DOMAIN s.profiles /\ s \in Settings
  BY ShapeOf DEF Committable
<1>2. ASSUME NEW i \in DOMAIN s.profiles
      PROVE  /\ Loose(ps[i], s.custom) /\ ps[i].id = s.profiles[i].id /\ ps[i] \in Profile
             /\ Given(ps[i].provider, ps[i].conn)
  <2>1. Loose(s.profiles[i], s.custom) /\ s.profiles[i] \in Profile
    BY <1>1 DEF Loose
  <2> QED
    BY <2>1, CompletedIs DEF Loose
<1>3. ps \in Seq(Profile) /\ DOMAIN ps = DOMAIN s.profiles /\ Len(ps) = Len(s.profiles)
  <2>1. DOMAIN ps = 1..Len(s.profiles) /\ \A i \in 1..Len(s.profiles) : ps[i] \in Profile
    BY <1>1, <1>2
  <2>2. ps = [i \in 1..Len(s.profiles) |-> ps[i]]
    BY <1>1
  <2>3. Len(s.profiles) \in Nat
    BY <1>1
  <2> HIDE DEF ps
  <2>4. ps \in Seq(Profile) /\ Len(ps) = Len(s.profiles)
    BY <2>1, <2>2, <2>3, FunIsSeq
  <2> QED
    BY <1>1, <2>1, <2>4
<1>4. u.profiles = ps /\ u.custom = s.custom /\ u \in Settings
  <2> HIDE DEF ps
  <2> QED
    BY <1>1, <1>3 DEF Settings
<1>5. Distinct(ps)
  BY <1>2, <1>3 DEF Committable, Distinct
<1>6. Committable(u)
  <2> HIDE DEF u, ps
  <2>1. ps # <<>>
    BY <1>1, <1>3
  <2> QED
    BY <1>1, <1>2, <1>3, <1>4, <1>5, <2>1 DEF Committable
<1>7. IdsIn(u) = IdsIn(s)
  <2> HIDE DEF u
  <2>1. IdsIn(u) = {ps[i].id : i \in 1..Len(ps)}
    BY <1>4 DEF IdsIn
  <2>2. \A i \in 1..Len(s.profiles) : ps[i].id = s.profiles[i].id
    BY <1>1, <1>2
  <2> HIDE DEF ps
  <2> QED
    BY <1>3, <2>1, <2>2 DEF IdsIn
<1>8. Committed(s) = Normal(u)
  BY DEF Committed
<1>9. \A i \in DOMAIN s.profiles :
         LET r == NormalProfile(ps[i], s.custom)
         IN  r.provider = ps[i].provider /\ r.conn = ps[i].conn
  <2> TAKE i \in DOMAIN s.profiles
  <2>1. Loose(ps[i], s.custom) /\ s.custom \in SUBSET CustomProviders
    BY <1>1, <1>2
  <2> HIDE DEF ps
  <2> QED
    BY <2>1, NormalKeeps
<1>10. \A i \in DOMAIN s.profiles : Committed(s).profiles[i] = NormalProfile(ps[i], s.custom)
  BY <1>3, <1>4, <1>6, <1>8, NormalSettings
<1>11. Completes(Committed(s))
  <2>1. DOMAIN Committed(s).profiles = DOMAIN s.profiles
    BY <1>3, <1>4, <1>6, <1>8, NormalSettings
  <2> QED
    BY <1>2, <1>9, <1>10, <2>1 DEF Completes
<1> QED
  BY <1>3, <1>4, <1>6, <1>7, <1>8, <1>10, <1>11, NormalSettings

\* A commit of what is shown changes no profile that is whole.
LEMMA CommitMatches ==
    ASSUME NEW s, Sane(s), NEW e, AgreesWith(s, e)
    PROVE  /\ AgreesWith(Committed(s), e) /\ Committed(s).active = s.active
           /\ \A i \in DOMAIN s.profiles : Committed(s).profiles[i].id = s.profiles[i].id
<1> DEFINE t == Committed(s)
<1>1. Committable(s) /\ s.custom \in SUBSET CustomProviders
  BY ShapeOf DEF Sane
<1>2. /\ DOMAIN t.profiles = DOMAIN s.profiles /\ IdsIn(t) = IdsIn(s)
      /\ \A i \in DOMAIN s.profiles :
            t.profiles[i] = NormalProfile(Completed(s.profiles[i]), s.custom)
  BY <1>1, CommittedSettings
<1>3. ASSUME NEW i \in DOMAIN s.profiles
      PROVE  t.profiles[i] = Completed(s.profiles[i]) /\ t.profiles[i].id = s.profiles[i].id
             /\ KeptBy(t.profiles[i], e[s.profiles[i].id])
  <2> DEFINE p == s.profiles[i]
  <2>1. Sound(p, s.custom) /\ p \in Profile /\ KeptBy(p, e[p.id])
    BY DEF Sane, AgreesWith, Sound, Loose
  <2>2. Completed(p) \in Profile /\ Completed(p).id = p.id
        /\ Completed(p).provider = p.provider /\ Completed(p).memory = p.memory
        /\ Completed(Completed(p)) = Completed(p)
    BY <2>1, CompletedIs
  <2>3. Sound(Completed(p), s.custom)
    BY <2>1, <2>2 DEF Sound, Loose
  <2>4. Loose(Completed(p), s.custom)
    BY <2>3 DEF Sound
  <2>5. t.profiles[i] = Completed(p)
    BY <1>1, <1>2, <2>3, NormalOfSound
  <2> HIDE DEF p, t
  <2>6. KeptBy(Completed(p), e[p.id])
    BY <2>1, <2>2 DEF KeptBy
  <2> QED
    BY <2>2, <2>5, <2>6 DEF p
<1>4. t.active = s.active
  <2> DEFINE u == [s EXCEPT !.profiles = [i \in DOMAIN s.profiles |-> Completed(s.profiles[i])]]
  <2>1. t = Normal(u)
    BY DEF Committed
  <2>2. u.active = s.active
    BY <1>1 DEF Committable, Settings
  <2>3. IdsIn(u) = IdsIn(s)
    <3>1. \A i \in DOMAIN s.profiles : Completed(s.profiles[i]).id = s.profiles[i].id
      BY <1>1, ShapeOf, CompletedIs
    <3>2. u.profiles = [i \in DOMAIN s.profiles |-> Completed(s.profiles[i])]
      BY <1>1 DEF Committable, Settings
    <3>3. DOMAIN s.profiles = 1..Len(s.profiles) /\ Len(s.profiles) \in Nat
      BY <1>1, ShapeOf
    <3>4. Len(u.profiles) = Len(s.profiles)
      BY <3>2, <3>3
    <3>5. \A i \in 1..Len(s.profiles) : u.profiles[i].id = s.profiles[i].id
      BY <3>1, <3>2, <3>3
    <3> HIDE DEF u
    <3> QED
      BY <3>4, <3>5 DEF IdsIn
  <2>4. t.active = IF u.active \in IdsIn(u) THEN u.active ELSE t.profiles[1].id
    <3> HIDE DEF u
    <3> DEFINE ps == [i \in DOMAIN u.profiles |-> NormalProfile(u.profiles[i], u.custom)]
    <3>1. t = [u EXCEPT !.profiles = ps,
                        !.active = IF u.active \in IdsIn(u) THEN u.active ELSE ps[1].id]
      BY <2>1 DEF Normal
    <3>2. DOMAIN u = {"profiles", "active", "custom"}
      BY <1>1 DEF u, Committable, Settings
    <3> HIDE DEF ps
    <3> QED
      BY <3>1, <3>2
  <2> QED
    BY <2>2, <2>3, <2>4 DEF Sane
<1>5. AgreesWith(t, e)
  BY <1>2, <1>3 DEF AgreesWith
<1> QED
  BY <1>3, <1>4, <1>5

-----------------------------------------------------------------------------
(* Changes of provider, and what Enter records of a commit. *)

LEMMA RememberIs ==
    ASSUME NEW m, NEW q, NEW c
    PROVE  /\ DOMAIN Remember(m, q, c) = DOMAIN m \cup {q} /\ Remember(m, q, c)[q] = c
           /\ \A x \in DOMAIN m \ {q} : Remember(m, q, c)[x] = m[x]
  BY DEF Remember

LEMMA RememberType ==
    ASSUME NEW m \in Memories, NEW q \in ProviderIds, NEW c \in Connections
    PROVE  Remember(m, q, c) \in Memories
<1>1. PICK known \in SUBSET ProviderIds : m \in [known -> Connections]
  BY MemoryParts
<1>2. Remember(m, q, c) \in [known \cup {q} -> Connections]
  BY <1>1 DEF Remember
<1>3. known \cup {q} \in SUBSET ProviderIds
  BY <1>1
<1> QED
  BY <1>2, <1>3, MemoryParts

\* A change of provider keeps what the profile gives for each provider.
LEMMA SwitchKeeps ==
    ASSUME NEW custom \in SUBSET CustomProviders, NEW p, Loose(p, custom),
           Given(p.provider, p.conn), NEW q \in ProviderIds, q # p.provider
    PROVE  LET r == SwitchProvider(p, q)
           IN  /\ r \in Profile /\ r.id = p.id /\ r.provider = q
               /\ \A x \in DOMAIN r.memory : Given(x, r.memory[x])
               /\ Given(q, r.conn)
               /\ \A e : KeptBy(p, e) => KeptBy(r, e)
<1> DEFINE r == SwitchProvider(p, q)
           m == Remember(p.memory, p.provider, p.conn)
           c == IF q \in DOMAIN m THEN m[q] ELSE FirstConnection(p, q)
<1>1. p \in Profile /\ \A x \in DOMAIN p.memory : Given(x, p.memory[x])
  BY DEF Loose
<1>2. /\ p.memory \in Memories /\ p.provider \in ProviderIds /\ p.conn \in Connections
  BY <1>1, ProfileParts
<1>3. /\ m \in Memories /\ DOMAIN m = DOMAIN p.memory \cup {p.provider} /\ m[p.provider] = p.conn
      /\ \A x \in DOMAIN p.memory \ {p.provider} : m[x] = p.memory[x]
  BY <1>2, RememberType DEF Remember
<1>4. \A x \in DOMAIN m : Given(x, m[x]) /\ m[x] \in Connections
  <2>1. \A x \in DOMAIN m : Given(x, m[x])
    BY <1>1, <1>3
  <2>2. PICK known \in SUBSET ProviderIds : m \in [known -> Connections]
    BY <1>3, MemoryParts
  <2> HIDE DEF m
  <2> QED
    BY <2>1, <2>2
<1>5. FirstConnection(p, q) \in Connections /\ Given(q, FirstConnection(p, q))
  <2>1. CASE q \in BuiltIn
    <3>1. FirstConnection(p, q) = Standard[q] /\ StandardOf(q) = Standard[q]
      BY <2>1 DEF FirstConnection, StandardOf, BuiltIn
    <3> QED
      BY <2>1, <3>1 DEF Connections, Given
  <2>2. CASE q \notin BuiltIn /\ (p.provider = "fal" \/ p.conn = Blank)
    <3>1. FirstConnection(p, q) = Standard["openai"] /\ StandardOf(q) = Standard["openai"]
      BY <2>2 DEF FirstConnection, StandardOf, BuiltIn
    <3> QED
      BY <3>1 DEF Connections, Given, BuiltIn
  <2>3. CASE q \notin BuiltIn /\ ~(p.provider = "fal" \/ p.conn = Blank)
    <3>1. FirstConnection(p, q) = p.conn /\ p.conn # Blank
      BY <2>3 DEF FirstConnection
    <3> QED
      BY <1>2, <3>1 DEF Given
  <2> QED
    BY <2>1, <2>2, <2>3
<1>6. c \in Connections /\ Given(q, c)
  BY <1>4, <1>5
<1>7. r = [p EXCEPT !.provider = q, !.memory = m, !.conn = c]
  BY DEF SwitchProvider
<1>8. r \in Profile /\ r.id = p.id /\ r.provider = q /\ r.memory = m /\ r.conn = c
  <2> HIDE DEF r, m, c
  <2> QED
    BY <1>1, <1>3, <1>6, <1>7 DEF Profile
<1>9. Completed(r) = r /\ Completed(p) = p
  BY <1>1, <1>6, <1>8, CompletedIs
<1>10. ASSUME NEW e, KeptBy(p, e) PROVE KeptBy(r, e)
  <2>1. ASSUME NEW x \in DOMAIN e
        PROVE  x \in DOMAIN m \cup {q} /\ ConnectionOf(r, x) = e[x]
    <3>1. x \in DOMAIN p.memory \cup {p.provider} /\ ConnectionOf(p, x) = e[x]
      BY <1>9, <1>10, <2>1 DEF KeptBy
    <3>2. x \in DOMAIN m /\ m[x] = e[x]
      <4> HIDE DEF m
      <4> QED
        BY <1>3, <3>1 DEF ConnectionOf
    <3>3. x = q => c = e[x]
      BY <3>2
    <3> HIDE DEF r, m, c
    <3> QED
      BY <1>8, <3>2, <3>3 DEF ConnectionOf
  <2> HIDE DEF r, m
  <2> QED
    BY <1>8, <1>9, <2>1 DEF KeptBy
<1> HIDE DEF r, m, c
<1>11. /\ r \in Profile /\ r.id = p.id /\ r.provider = q
       /\ \A x \in DOMAIN r.memory : Given(x, r.memory[x])
       /\ Given(q, r.conn)
       /\ \A e : KeptBy(p, e) => KeptBy(r, e)
  BY <1>4, <1>6, <1>8, <1>10
<1> QED
  BY <1>11 DEF r

\* A handler that commits s and records it.
LEMMA EnterMatches ==
    ASSUME NEW s, Committable(s),
           \A i \in DOMAIN s.profiles :
              s.profiles[i].id \in DOMAIN entered => KeptBy(s.profiles[i], entered[s.profiles[i].id]),
           Enter(Committed(s))
    PROVE  AgreesWith(Committed(s), entered')
<1> DEFINE t == Committed(s)
           K == BuiltIn \cup s.custom
<1>1. /\ Sane(t) /\ Completes(t) /\ DOMAIN t.profiles = DOMAIN s.profiles /\ t.custom = s.custom
      /\ \A i \in DOMAIN s.profiles :
            t.profiles[i] = NormalProfile(Completed(s.profiles[i]), s.custom)
  BY CommittedSettings
<1>2. Committable(t) /\ s.custom \in SUBSET CustomProviders
  BY <1>1, ShapeOf DEF Sane
<1>3. DOMAIN entered' = IdsIn(t)
  BY DEF Enter
<1>4. ASSUME NEW i \in DOMAIN t.profiles
      PROVE  KeptBy(t.profiles[i], entered'[t.profiles[i].id])
  <2> DEFINE b  == s.profiles[i]
             p  == t.profiles[i]
             id == p.id
             still == [q \in DOMAIN entered[id] \cap K |-> entered[id][q]]
  <2>1. Loose(b, s.custom) /\ b \in Profile
    BY <1>1, <1>4 DEF Committable, Loose
  <2>2. /\ Completed(b) \in Profile /\ Completed(b).id = b.id
        /\ Completed(b).provider = b.provider /\ Completed(b).memory = b.memory
        /\ Given(b.provider, Completed(b).conn)
    BY <2>1, CompletedIs
  <2>3. Loose(Completed(b), s.custom)
    BY <2>1, <2>2 DEF Loose
  <2>4. p = NormalProfile(Completed(b), s.custom)
    BY <1>1, <1>4
  <2>5. /\ id = b.id /\ p.provider = b.provider /\ p.conn = Completed(b).conn
        /\ Sound(p, s.custom)
    <3> HIDE DEF p, t, b
    <3>1. p.id = Completed(b).id /\ p.provider = Completed(b).provider
          /\ p.conn = Completed(b).conn /\ Sound(p, s.custom)
      BY <1>2, <2>3, <2>4, NormalKeeps
    <3> QED
      BY <2>2, <3>1
  <2>6. DOMAIN p.memory = DOMAIN b.memory \cap K
        /\ \A q \in DOMAIN b.memory \cap K : p.memory[q] = b.memory[q]
    <3> HIDE DEF p, t, b
    <3>1. /\ DOMAIN p.memory = DOMAIN Completed(b).memory \cap K
          /\ \A q \in DOMAIN Completed(b).memory \cap K : p.memory[q] = Completed(b).memory[q]
      BY <2>2, <2>4, NormalMemory
    <3> QED
      BY <2>2, <3>1
  <2>7. p \in Profile /\ Completed(p) = p
    <3>1. p \in Profile
      BY <2>5 DEF Sound, Loose
    <3> HIDE DEF p, b, t
    <3> QED
      BY <2>2, <2>5, <3>1, CompletedIs
  <2>8. id \in IdsIn(t) /\ Of(t, id) = p
    <3>1. Of(t, id) = p
      BY <1>2, <1>4, OfIs
    <3>2. id \in IdsIn(t)
      BY <1>2, <1>4, IdsAre
    <3> QED
      BY <3>1, <3>2
  <2>9. CASE id \in DOMAIN entered
    <3>1. KeptBy(b, entered[id])
      BY <1>1, <1>4, <2>5, <2>9
    <3>2. \A q \in DOMAIN still : /\ q \in DOMAIN p.memory \cup {p.provider}
                                 /\ ConnectionOf(p, q) = still[q]
      <4>1. \A q \in DOMAIN entered[id] :
               /\ q \in DOMAIN b.memory \cup {b.provider}
               /\ ConnectionOf(Completed(b), q) = entered[id][q]
        BY <3>1 DEF KeptBy
      <4>2. \A q \in DOMAIN still : q \in K /\ q \in DOMAIN entered[id] /\ still[q] = entered[id][q]
        OBVIOUS
      <4> HIDE DEF still, p, b, K, id
      <4>3. TAKE q \in DOMAIN still
      <4>4. q \in DOMAIN b.memory \cup {b.provider} /\ ConnectionOf(Completed(b), q) = still[q]
        BY <4>1, <4>2
      <4>5. CASE q = p.provider
        BY <2>2, <2>5, <4>4, <4>5 DEF ConnectionOf
      <4>6. CASE q # p.provider
        <5>1. q \in DOMAIN p.memory /\ p.memory[q] = b.memory[q]
          BY <2>5, <2>6, <4>2, <4>4, <4>6
        <5> QED
          BY <2>2, <2>5, <4>4, <4>6, <5>1 DEF ConnectionOf
      <4> QED
        BY <4>5, <4>6
    <3>3. entered'[id] = IF p.provider \in DOMAIN still THEN still
                         ELSE Remember(still, p.provider, p.conn)
      <4>1. t.custom = s.custom
        BY <1>1
      <4> QED
        BY <2>8, <2>9, <4>1 DEF Enter
    <3>4. CASE p.provider \in DOMAIN still
      <4> HIDE DEF still, p, id
      <4>1. KeptBy(p, still)
        BY <2>7, <3>2 DEF KeptBy
      <4>2. entered'[id] = still
        BY <3>3, <3>4
      <4> QED
        BY <4>1, <4>2 DEF id, p
    <3>5. CASE p.provider \notin DOMAIN still
      <4> HIDE DEF still, p, id
      <4> DEFINE e == Remember(still, p.provider, p.conn)
      <4>1. /\ DOMAIN e = DOMAIN still \cup {p.provider} /\ e[p.provider] = p.conn
            /\ \A x \in DOMAIN still \ {p.provider} : e[x] = still[x]
        BY DEF Remember
      <4>2. entered'[id] = e
        BY <3>3, <3>5
      <4> HIDE DEF e
      <4>3. KeptBy(p, e)
        BY <2>7, <3>2, <3>5, <4>1 DEF KeptBy, ConnectionOf
      <4> QED
        BY <4>2, <4>3 DEF id, p
    <3> QED
      BY <3>4, <3>5
  <2>10. CASE id \notin DOMAIN entered
    <3> DEFINE e == Remember(p.memory, p.provider, p.conn)
    <3>1. entered'[id] = e
      BY <2>8, <2>10 DEF Enter
    <3> HIDE DEF p, id
    <3>2. /\ DOMAIN e = DOMAIN p.memory \cup {p.provider} /\ e[p.provider] = p.conn
          /\ \A x \in DOMAIN p.memory \ {p.provider} : e[x] = p.memory[x]
      BY DEF Remember
    <3> HIDE DEF e
    <3>3. KeptBy(p, e)
      BY <2>7, <3>2 DEF KeptBy, ConnectionOf
    <3> QED
      BY <3>1, <3>3 DEF id, p
  <2> QED
    BY <2>9, <2>10
<1> QED
  BY <1>3, <1>4 DEF AgreesWith

-----------------------------------------------------------------------------
(* Lists of profiles that handlers make. *)

SettingsOf(ps, active, custom) == [profiles |-> ps, active |-> active, custom |-> custom]

LEMMA SettingsAre ==
    ASSUME NEW s \in Settings
    PROVE  /\ s = SettingsOf(s.profiles, s.active, s.custom)
           /\ \A ps : [s EXCEPT !.profiles = ps] = SettingsOf(ps, s.active, s.custom)
           /\ \A a : [s EXCEPT !.active = a] = SettingsOf(s.profiles, a, s.custom)
           /\ \A c : [s EXCEPT !.custom = c] = SettingsOf(s.profiles, s.active, c)
           /\ \A ps, a : [s EXCEPT !.profiles = ps, !.active = a] = SettingsOf(ps, a, s.custom)
           /\ \A ps, c : [s EXCEPT !.custom = c, !.profiles = ps] = SettingsOf(ps, s.active, c)
<1>1. DOMAIN s = {"profiles", "active", "custom"}
      /\ s = [x \in {"profiles", "active", "custom"} |-> s[x]]
  BY DEF Settings
<1>2. s = SettingsOf(s.profiles, s.active, s.custom)
  BY <1>1 DEF SettingsOf
<1>3. ASSUME NEW ps PROVE [s EXCEPT !.profiles = ps] = SettingsOf(ps, s.active, s.custom)
  BY <1>1 DEF SettingsOf
<1>4. ASSUME NEW a PROVE [s EXCEPT !.active = a] = SettingsOf(s.profiles, a, s.custom)
  BY <1>1 DEF SettingsOf
<1>5. ASSUME NEW c PROVE [s EXCEPT !.custom = c] = SettingsOf(s.profiles, s.active, c)
  BY <1>1 DEF SettingsOf
<1>6. ASSUME NEW ps, NEW a
      PROVE  [s EXCEPT !.profiles = ps, !.active = a] = SettingsOf(ps, a, s.custom)
  <2>1. [s EXCEPT !.profiles = ps, !.active = a] = [SettingsOf(ps, s.active, s.custom) EXCEPT !.active = a]
    BY <1>3
  <2> QED
    BY <2>1 DEF SettingsOf
<1>7. ASSUME NEW ps, NEW c
      PROVE  [s EXCEPT !.custom = c, !.profiles = ps] = SettingsOf(ps, s.active, c)
  <2>1. [s EXCEPT !.custom = c, !.profiles = ps] = [SettingsOf(s.profiles, s.active, c) EXCEPT !.profiles = ps]
    BY <1>5
  <2> QED
    BY <2>1 DEF SettingsOf
<1> QED
  BY <1>2, <1>3, <1>4, <1>5, <1>6, <1>7

LEMMA BuildKeeps ==
    ASSUME NEW ps \in Seq(Profile), NEW active \in ProfileIds,
           NEW custom \in SUBSET CustomProviders, custom \cap BuiltIn = {}, ps # <<>>,
           Distinct(ps), \A i \in DOMAIN ps : Loose(ps[i], custom)
    PROVE  LET s == SettingsOf(ps, active, custom)
           IN  /\ Committable(s) /\ IdsIn(s) = {ps[i].id : i \in DOMAIN ps}
               /\ s.profiles = ps /\ s.active = active /\ s.custom = custom
<1> DEFINE s == SettingsOf(ps, active, custom)
<1>1. s.profiles = ps /\ s.active = active /\ s.custom = custom /\ s \in Settings
  BY DEF SettingsOf, Settings
<1> HIDE DEF s
<1>2. Committable(s)
  BY <1>1 DEF Committable
<1>3. IdsIn(s) = {ps[i].id : i \in DOMAIN ps}
  BY <1>1, <1>2, IdsAre
<1> QED
  BY <1>1, <1>2, <1>3 DEF s

LEMMA AppendIs ==
    ASSUME NEW ps \in Seq(Profile), Distinct(ps), NEW p \in Profile,
           \A i \in DOMAIN ps : ps[i].id # p.id
    PROVE  /\ Append(ps, p) \in Seq(Profile) /\ Append(ps, p) # <<>> /\ Distinct(Append(ps, p))
           /\ Len(ps) + 1 \in DOMAIN Append(ps, p)
           /\ \A i \in DOMAIN Append(ps, p) :
                 \/ i \in DOMAIN ps /\ Append(ps, p)[i] = ps[i]
                 \/ i = Len(ps) + 1 /\ Append(ps, p)[i] = p
           /\ \A i \in DOMAIN ps : i \in DOMAIN Append(ps, p)
<1> DEFINE n == Len(ps)
           new == Append(ps, p)
<1>1. /\ n \in Nat /\ DOMAIN ps = 1..n /\ new \in Seq(Profile) /\ Len(new) = n + 1
      /\ DOMAIN new = 1..(n + 1) /\ new[n + 1] = p /\ \A i \in 1..n : new[i] = ps[i]
  OBVIOUS
<1> HIDE DEF new, n
<1>2. \A i \in DOMAIN new : \/ i \in DOMAIN ps /\ new[i] = ps[i]
                            \/ i = n + 1 /\ new[i] = p
  BY <1>1
<1>3. new # <<>> /\ n + 1 \in DOMAIN new
  BY <1>1
<1>4. Distinct(new)
  BY <1>2 DEF Distinct
<1>5. \A i \in DOMAIN ps : i \in DOMAIN new
  BY <1>1
<1> QED
  BY <1>1, <1>2, <1>3, <1>4, <1>5 DEF new, n

LEMMA RemoveAtIs ==
    ASSUME NEW S, NEW ps \in Seq(S), NEW k \in DOMAIN ps
    PROVE  /\ RemoveAt(ps, k) \in Seq(S) /\ Len(ps) \in Nat \ {0} /\ Len(RemoveAt(ps, k)) = Len(ps) - 1
           /\ \A i \in 1..(Len(ps) - 1) : RemoveAt(ps, k)[i] = IF i < k THEN ps[i] ELSE ps[i + 1]
<1> DEFINE n == Len(ps)
           a == SubSeq(ps, 1, k - 1)
           b == SubSeq(ps, k + 1, n)
<1>1. n \in Nat /\ k \in 1..n /\ \A i \in 1..n : ps[i] \in S
  OBVIOUS
<1>2. /\ a \in Seq(S) /\ Len(a) = k - 1 /\ \A i \in 1..(k - 1) : a[i] = ps[i]
  <2>1. \A i \in 1..(k - 1) : ps[i] \in S
    BY <1>1
  <2>2. 1 \in Int /\ k - 1 \in Int
    BY <1>1
  <2>3. a \in Seq(S) /\ Len(a) = (IF 1 <= k - 1 THEN k - 1 - 1 + 1 ELSE 0)
        /\ \A i \in 1..(k - 1 - 1 + 1) : a[i] = ps[1 + i - 1]
    BY <2>1, <2>2, SubSeqProperties
  <2> HIDE DEF a
  <2> QED
    BY <1>1, <2>3
<1>3. /\ b \in Seq(S) /\ Len(b) = n - k /\ \A i \in 1..(n - k) : b[i] = ps[k + i]
  <2>1. \A i \in (k + 1)..n : ps[i] \in S
    BY <1>1
  <2>2. k + 1 \in Int /\ n \in Int
    BY <1>1
  <2>3. b \in Seq(S) /\ Len(b) = (IF k + 1 <= n THEN n - (k + 1) + 1 ELSE 0)
        /\ \A i \in 1..(n - (k + 1) + 1) : b[i] = ps[k + 1 + i - 1]
    BY <2>1, <2>2, SubSeqProperties
  <2> HIDE DEF b
  <2> QED
    BY <1>1, <2>3
<1> HIDE DEF a, b
<1>4. /\ a \o b \in Seq(S) /\ Len(a \o b) = Len(a) + Len(b)
      /\ \A i \in 1..(Len(a) + Len(b)) : (a \o b)[i] = IF i <= Len(a) THEN a[i] ELSE b[i - Len(a)]
  BY <1>2, <1>3, ConcatProperties
<1>5. RemoveAt(ps, k) = a \o b
  BY DEF RemoveAt, a, b
<1> DEFINE c == a \o b
<1>6. /\ c \in Seq(S) /\ Len(c) = n - 1
      /\ \A i \in 1..(n - 1) : c[i] = IF i <= k - 1 THEN a[i] ELSE b[i - (k - 1)]
  <2>1. Len(a) + Len(b) = n - 1 /\ Len(a) = k - 1
    BY <1>1, <1>2, <1>3
  <2> QED
    BY <1>4, <2>1
<1> HIDE DEF c
<1>7. ASSUME NEW i \in 1..(n - 1) PROVE c[i] = IF i < k THEN ps[i] ELSE ps[i + 1]
  <2>1. CASE i < k
    <3>1. i <= k - 1 /\ i \in 1..(k - 1)
      BY <1>1, <2>1
    <3> QED
      BY <1>2, <1>6, <2>1, <3>1
  <2>2. CASE ~(i < k)
    <3>1. i - (k - 1) \in 1..(n - k) /\ ~(i <= k - 1) /\ k + (i - (k - 1)) = i + 1
      BY <1>1, <2>2
    <3>2. c[i] = b[i - (k - 1)]
      BY <1>6, <3>1
    <3>3. b[i - (k - 1)] = ps[i + 1]
      BY <1>3, <3>1
    <3> QED
      BY <2>2, <3>2, <3>3
  <2> QED
    BY <2>1, <2>2
<1> QED
  BY <1>1, <1>4, <1>5, <1>6, <1>7 DEF c

\* new is ps with e at place k.
IsInserted(new, S, ps, k, e) ==
    /\ new \in Seq(S) /\ Len(new) = Len(ps) + 1
    /\ \A i \in 1..(Len(ps) + 1) :
          new[i] = IF i < k THEN ps[i] ELSE IF i = k THEN e ELSE ps[i - 1]

LEMMA InsertAtIs ==
    ASSUME NEW S, NEW ps \in Seq(S), NEW k \in 1..(Len(ps) + 1), NEW e \in S
    PROVE  IsInserted(InsertAt(ps, k, e), S, ps, k, e)
<1> DEFINE n == Len(ps)
           a == SubSeq(ps, 1, k - 1)
           b == SubSeq(ps, k, n)
           d == a \o <<e>>
           c == d \o b
<1>1. n \in Nat /\ k \in 1..(n + 1) /\ \A i \in 1..n : ps[i] \in S
  OBVIOUS
<1>2. /\ a \in Seq(S) /\ Len(a) = k - 1 /\ \A i \in 1..(k - 1) : a[i] = ps[i]
  <2>1. \A i \in 1..(k - 1) : ps[i] \in S
    BY <1>1
  <2>2. 1 \in Int /\ k - 1 \in Int
    BY <1>1
  <2>3. a \in Seq(S) /\ Len(a) = (IF 1 <= k - 1 THEN k - 1 - 1 + 1 ELSE 0)
        /\ \A i \in 1..(k - 1 - 1 + 1) : a[i] = ps[1 + i - 1]
    BY <2>1, <2>2, SubSeqProperties
  <2> HIDE DEF a
  <2> QED
    BY <1>1, <2>3
<1>3. /\ b \in Seq(S) /\ Len(b) = n + 1 - k /\ \A i \in 1..(n + 1 - k) : b[i] = ps[k + i - 1]
  <2>1. \A i \in k..n : ps[i] \in S
    BY <1>1
  <2>2. k \in Int /\ n \in Int
    BY <1>1
  <2>3. b \in Seq(S) /\ Len(b) = (IF k <= n THEN n - k + 1 ELSE 0)
        /\ \A i \in 1..(n - k + 1) : b[i] = ps[k + i - 1]
    BY <2>1, <2>2, SubSeqProperties
  <2> HIDE DEF b
  <2> QED
    BY <1>1, <2>3
<1> HIDE DEF a, b
<1>4. /\ d \in Seq(S) /\ Len(d) = k /\ d[k] = e /\ \A i \in 1..(k - 1) : d[i] = a[i]
  <2>1. <<e>> \in Seq(S) /\ Len(<<e>>) = 1 /\ <<e>>[1] = e
    OBVIOUS
  <2>2. /\ d \in Seq(S) /\ Len(d) = Len(a) + 1
        /\ \A i \in 1..(Len(a) + 1) : d[i] = IF i <= Len(a) THEN a[i] ELSE <<e>>[i - Len(a)]
    BY <1>2, <2>1, ConcatProperties
  <2> HIDE DEF d
  <2>3. Len(d) = k /\ k \in 1..(Len(a) + 1) /\ ~(k <= Len(a)) /\ k - Len(a) = 1
    <3>1. Len(d) = Len(a) + 1 /\ Len(a) = k - 1 /\ k \in Nat /\ k >= 1
      BY <1>1, <1>2, <2>2
    <3> QED
      BY <3>1
  <2>4. d[k] = e
    BY <2>1, <2>2, <2>3
  <2>5. \A i \in 1..(k - 1) : d[i] = a[i]
    BY <1>1, <1>2, <2>2
  <2> QED
    BY <2>2, <2>3, <2>4, <2>5
<1> HIDE DEF d
<1>5. /\ c \in Seq(S) /\ Len(c) = Len(d) + Len(b)
      /\ \A i \in 1..(Len(d) + Len(b)) : c[i] = IF i <= Len(d) THEN d[i] ELSE b[i - Len(d)]
  BY <1>3, <1>4, ConcatProperties
<1>6. InsertAt(ps, k, e) = c
  BY DEF InsertAt, a, b, d
<1> HIDE DEF c
<1>7. Len(c) = n + 1
  BY <1>1, <1>3, <1>4, <1>5
<1>8. ASSUME NEW i \in 1..(n + 1)
      PROVE  c[i] = IF i < k THEN ps[i] ELSE IF i = k THEN e ELSE ps[i - 1]
  <2>1. i \in 1..(Len(d) + Len(b))
    BY <1>5, <1>7
  <2>2. CASE i < k
    <3>1. i \in 1..(k - 1) /\ i <= Len(d)
      BY <1>1, <1>4, <2>2
    <3> QED
      BY <1>2, <1>4, <1>5, <2>1, <2>2, <3>1
  <2>3. CASE i = k
    <3>1. i <= Len(d) /\ ~(i < k)
      BY <1>1, <1>4, <2>3
    <3>2. c[i] = d[k]
      BY <1>5, <2>1, <2>3, <3>1
    <3> QED
      BY <1>4, <2>3, <3>1, <3>2
  <2>4. CASE i > k
    <3>1. i - k \in 1..(n + 1 - k) /\ ~(i <= Len(d)) /\ k + (i - k) - 1 = i - 1
      BY <1>1, <1>4, <2>4
    <3>2. c[i] = b[i - k]
      BY <1>4, <1>5, <2>1, <3>1
    <3>3. b[i - k] = ps[i - 1]
      BY <1>3, <3>1
    <3> QED
      BY <1>1, <2>4, <3>2, <3>3
  <2> QED
    BY <1>1, <2>2, <2>3, <2>4
<1> QED
  BY <1>5, <1>6, <1>7, <1>8 DEF IsInserted

\* A profile moved to another place.
LEMMA MoveIs ==
    ASSUME NEW ps \in Seq(Profile), Distinct(ps), NEW i \in DOMAIN ps, NEW j \in DOMAIN ps
    PROVE  LET new == InsertAt(RemoveAt(ps, i), j, ps[i])
           IN  /\ new \in Seq(Profile) /\ DOMAIN new = DOMAIN ps /\ Distinct(new)
               /\ \A x \in DOMAIN new : \E y \in DOMAIN ps : new[x] = ps[y]
               /\ \A y \in DOMAIN ps : \E x \in DOMAIN new : new[x] = ps[y]
<1> DEFINE n == Len(ps)
           r == RemoveAt(ps, i)
           new == InsertAt(r, j, ps[i])
           from(x) == IF x = j THEN i
                      ELSE LET y == IF x < j THEN x ELSE x - 1 IN IF y < i THEN y ELSE y + 1
           to(y)   == IF y = i THEN j
                      ELSE LET x == IF y < i THEN y ELSE y - 1 IN IF x < j THEN x ELSE x + 1
<1>1. n \in Nat \ {0} /\ DOMAIN ps = 1..n /\ i \in 1..n /\ j \in 1..n
      /\ r \in Seq(Profile) /\ Len(r) = n - 1 /\ ps[i] \in Profile
      /\ \A x \in 1..(n - 1) : r[x] = IF x < i THEN ps[x] ELSE ps[x + 1]
  BY RemoveAtIs
<1> HIDE DEF r
<1>2. j \in 1..(Len(r) + 1)
  BY <1>1
<1>3. /\ new \in Seq(Profile) /\ Len(new) = Len(r) + 1
      /\ \A x \in 1..(Len(r) + 1) :
            new[x] = IF x < j THEN r[x] ELSE IF x = j THEN ps[i] ELSE r[x - 1]
  <2> DEFINE e == ps[i]
  <2>1. r \in Seq(Profile) /\ e \in Profile
    BY <1>1
  <2> HIDE DEF e
  <2>2. IsInserted(InsertAt(r, j, e), Profile, r, j, e)
    BY <2>1, <1>2, InsertAtIs
  <2> QED
    BY <2>2 DEF e, IsInserted
<1> HIDE DEF new
<1>4. Len(new) = n /\ DOMAIN new = 1..n
  BY <1>1, <1>3
<1>5. ASSUME NEW x \in 1..n PROVE from(x) \in 1..n /\ new[x] = ps[from(x)]
  <2>1. x \in 1..(Len(r) + 1)
    BY <1>1
  <2>2. CASE x = j
    BY <1>1, <1>3, <2>1, <2>2
  <2>3. CASE x < j
    <3>1. x \in 1..(n - 1) /\ new[x] = r[x]
      BY <1>1, <1>3, <2>1, <2>3
    <3> QED
      BY <1>1, <2>3, <3>1
  <2>4. CASE x > j
    <3>1. x - 1 \in 1..(n - 1) /\ new[x] = r[x - 1]
      BY <1>1, <1>3, <2>1, <2>4
    <3> QED
      BY <1>1, <2>4, <3>1
  <2> QED
    BY <1>1, <2>2, <2>3, <2>4
<1>6. \A x, y \in 1..n : from(x) = from(y) => x = y
  BY <1>1
<1>7. \A y \in 1..n : to(y) \in 1..n /\ from(to(y)) = y
  BY <1>1
<1> HIDE DEF from, to
<1>8. Distinct(new)
  <2>1. SUFFICES ASSUME NEW x \in 1..n, NEW y \in 1..n, new[x].id = new[y].id PROVE x = y
    BY <1>4 DEF Distinct
  <2>2. from(x) \in 1..n /\ from(y) \in 1..n /\ ps[from(x)].id = ps[from(y)].id
    BY <1>5, <2>1
  <2>3. from(x) = from(y)
    BY <1>1, <2>2 DEF Distinct
  <2> QED
    BY <1>6, <2>3
<1>9. \A x \in DOMAIN new : \E y \in DOMAIN ps : new[x] = ps[y]
  BY <1>1, <1>4, <1>5
<1>10. \A y \in DOMAIN ps : \E x \in DOMAIN new : new[x] = ps[y]
  <2>1. TAKE y \in DOMAIN ps
  <2>2. to(y) \in 1..n /\ from(to(y)) = y
    BY <1>1, <1>7
  <2>3. new[to(y)] = ps[y]
    BY <1>5, <2>2
  <2> QED
    BY <1>4, <2>2, <2>3
<1>11. DOMAIN new = DOMAIN ps
  BY <1>1, <1>4
<1> QED
  BY <1>3, <1>8, <1>9, <1>10, <1>11 DEF new, r

\* A profile taken out.
LEMMA WithoutIs ==
    ASSUME NEW ps \in Seq(Profile), Distinct(ps), NEW k \in DOMAIN ps
    PROVE  LET new == RemoveAt(ps, k)
           IN  /\ new \in Seq(Profile) /\ Distinct(new) /\ (Len(ps) > 1 => new # <<>>)
               /\ \A x \in DOMAIN new : \E y \in DOMAIN ps \ {k} : new[x] = ps[y]
               /\ \A y \in DOMAIN ps \ {k} : \E x \in DOMAIN new : new[x] = ps[y]
<1> DEFINE n == Len(ps)
           new == RemoveAt(ps, k)
           from(x) == IF x < k THEN x ELSE x + 1
           to(y) == IF y < k THEN y ELSE y - 1
<1>1. n \in Nat \ {0} /\ DOMAIN ps = 1..n /\ k \in 1..n
      /\ new \in Seq(Profile) /\ Len(new) = n - 1
      /\ \A x \in 1..(n - 1) : new[x] = IF x < k THEN ps[x] ELSE ps[x + 1]
  BY RemoveAtIs
<1> HIDE DEF new
<1>2. DOMAIN new = 1..(n - 1)
  BY <1>1
<1>3. \A x \in 1..(n - 1) : from(x) \in 1..n /\ from(x) # k /\ new[x] = ps[from(x)]
  BY <1>1
<1>4. \A x, y \in 1..(n - 1) : from(x) = from(y) => x = y
  BY <1>1
<1>5. \A y \in 1..n \ {k} : to(y) \in 1..(n - 1) /\ from(to(y)) = y
  BY <1>1
<1> HIDE DEF from, to
<1>6. Distinct(new)
  <2>1. SUFFICES ASSUME NEW x \in 1..(n - 1), NEW y \in 1..(n - 1), new[x].id = new[y].id
                 PROVE  x = y
    BY <1>2 DEF Distinct
  <2>2. from(x) = from(y)
    BY <1>1, <1>3, <2>1 DEF Distinct
  <2> QED
    BY <1>4, <2>2
<1>7. \A x \in DOMAIN new : \E y \in DOMAIN ps \ {k} : new[x] = ps[y]
  BY <1>1, <1>2, <1>3
<1>8. \A y \in DOMAIN ps \ {k} : \E x \in DOMAIN new : new[x] = ps[y]
  <2>1. TAKE y \in DOMAIN ps \ {k}
  <2>2. to(y) \in 1..(n - 1) /\ new[to(y)] = ps[y]
    BY <1>1, <1>3, <1>5
  <2> QED
    BY <1>2, <2>2
<1>9. n > 1 => new # <<>>
  BY <1>1
<1> QED
  BY <1>1, <1>6, <1>7, <1>8, <1>9 DEF new

-----------------------------------------------------------------------------
(* What an import leaves, before and after normalising. *)

\* A profile an import may leave: one that is kept, or a new one.
KeptOrNew(p, custom, fresh, old) ==
    /\ Sound(p, custom) /\ Given(p.provider, p.conn) /\ p.id <= lastId + 1
    /\ IF p.id \in fresh \/ p.id \notin DOMAIN old THEN p.memory = NoMemory /\ p.conn # Blank
       ELSE KeptBy(p, old[p.id])
Imported(s, fresh, old) ==
    /\ Committable(s)
    /\ \A k \in DOMAIN s.profiles : KeptOrNew(s.profiles[k], s.custom, fresh, old)

\* The settings that imports start from.
Grounded(s, old) == Sane(s) /\ Completes(s) /\ Numbered(s, lastId) /\ AgreesWith(s, old)

Bounded == lastId \in ProfileIds /\ lastId < MaxProfiles

LEMMA ImportBuilt ==
    ASSUME NEW ps \in Seq(Profile), NEW active \in ProfileIds,
           NEW custom \in SUBSET CustomProviders, custom \cap BuiltIn = {}, ps # <<>>,
           Distinct(ps), NEW fresh, NEW old,
           \A k \in DOMAIN ps : KeptOrNew(ps[k], custom, fresh, old)
    PROVE  Imported(SettingsOf(ps, active, custom), fresh, old)
<1> DEFINE s == SettingsOf(ps, active, custom)
<1>1. \A k \in DOMAIN ps : Loose(ps[k], custom)
  BY DEF KeptOrNew, Sound
<1>2. Committable(s) /\ s.profiles = ps /\ s.custom = custom
  BY <1>1, BuildKeeps
<1> HIDE DEF s
<1>3. Imported(s, fresh, old)
  BY <1>2 DEF Imported
<1> QED
  BY <1>3 DEF s

LEMMA OldProfile ==
    ASSUME NEW s, NEW old, Grounded(s, old), lastId \in Nat, NEW custom, s.custom \subseteq custom,
           NEW fresh, NEW k \in DOMAIN s.profiles, s.profiles[k].id \notin fresh
    PROVE  KeptOrNew(s.profiles[k], custom, fresh, old)
<1> DEFINE p == s.profiles[k]
<1>1. Committable(s) /\ Sound(p, s.custom) /\ Given(p.provider, p.conn) /\ p.id <= lastId
      /\ KeptBy(p, old[p.id]) /\ DOMAIN old = IdsIn(s)
  BY DEF Grounded, Sane, Completes, Numbered, AgreesWith
<1>2. p.id \in DOMAIN old
  BY <1>1, IdsAre
<1>3. p \in Profile /\ p.id \in Nat
  BY <1>1, ProfileParts DEF Sound, Loose, ProfileIds
<1>4. p.id <= lastId + 1
  BY <1>1, <1>3
<1>5. Sound(p, custom)
  BY <1>1 DEF Sound, Loose
<1> QED
  BY <1>1, <1>2, <1>4, <1>5 DEF KeptOrNew

LEMMA NewIs ==
    ASSUME NEW id \in ProfileIds, NEW q \in ProviderIds, NEW c \in Connections
    PROVE  LET p == NewProfile(id, q, c)
           IN  /\ p \in Profile /\ p.id = id /\ p.provider = q /\ p.conn = c
               /\ p.memory = NoMemory /\ DOMAIN p.memory = {}
<1>1. NoMemory \in [{} -> Connections] /\ DOMAIN NoMemory = {}
  BY DEF NoMemory
<1>2. NoMemory \in Memories
  BY <1>1, MemoryParts
<1> QED
  BY <1>1, <1>2 DEF NewProfile, Profile

LEMMA NewImport ==
    ASSUME GoodImports, NEW i \in Imports, NEW id \in ProfileIds, id <= lastId + 1,
           NEW fresh, NEW old, id \in fresh \/ id \notin DOMAIN old,
           NEW custom, i.provider \in BuiltIn \cup custom
    PROVE  /\ NewProfile(id, i.provider, i.conn) \in Profile
           /\ NewProfile(id, i.provider, i.conn).id = id
           /\ KeptOrNew(NewProfile(id, i.provider, i.conn), custom, fresh, old)
<1> DEFINE p == NewProfile(id, i.provider, i.conn)
<1>1. i.provider \in ProviderIds /\ i.conn \in Connections /\ i.conn # Blank
  BY DEF GoodImports, Connections
<1>2. /\ p \in Profile /\ p.id = id /\ p.provider = i.provider /\ p.conn = i.conn
      /\ p.memory = NoMemory /\ DOMAIN p.memory = {}
  BY <1>1, NewIs
<1> HIDE DEF p
<1>3. Sound(p, custom) /\ Given(p.provider, p.conn)
  BY <1>1, <1>2 DEF Sound, Loose, Given
<1>4. KeptOrNew(p, custom, fresh, old)
  BY <1>1, <1>2, <1>3 DEF KeptOrNew
<1> QED
  BY <1>2, <1>4 DEF p

\* With the provider of an import added, the custom ones are still apart.
LEMMA WithCustom ==
    ASSUME GoodImports, NEW i \in Imports, NEW c \in SUBSET CustomProviders, c \cap BuiltIn = {}
    PROVE  LET d == c \cup ({i.provider} \ BuiltIn)
           IN  /\ d \in SUBSET CustomProviders /\ d \cap BuiltIn = {} /\ c \subseteq d
               /\ i.provider \in BuiltIn \cup d
  BY DEF GoodImports, ProviderIds

LEMMA GroundedParts ==
    ASSUME NEW s, NEW old, Grounded(s, old), Bounded
    PROVE  /\ Committable(s) /\ s \in Settings /\ s.profiles \in Seq(Profile) /\ s.profiles # <<>>
           /\ s.active \in ProfileIds /\ s.custom \in SUBSET CustomProviders
           /\ s.custom \cap BuiltIn = {} /\ Distinct(s.profiles)
           /\ DOMAIN old = IdsIn(s) /\ lastId \in Nat /\ lastId + 1 \in ProfileIds
           /\ lastId + 1 \notin DOMAIN old
           /\ \A k \in DOMAIN s.profiles : s.profiles[k].id # lastId + 1
<1>1. Committable(s) /\ DOMAIN old = IdsIn(s) /\ Numbered(s, lastId)
  BY DEF Grounded, Sane, AgreesWith
<1>2. lastId \in Nat /\ lastId + 1 \in ProfileIds
  BY WebProfilesAssumption DEF Bounded, ProfileIds
<1>3. \A k \in DOMAIN s.profiles : s.profiles[k].id # lastId + 1
  <2> TAKE k \in DOMAIN s.profiles
  <2>1. s.profiles[k] \in Profile
    BY <1>1, ShapeOf
  <2>2. s.profiles[k].id \in Nat /\ s.profiles[k].id <= lastId
    BY <1>1, <2>1, ProfileParts DEF ProfileIds, Numbered
  <2> QED
    BY <1>2, <2>2
<1>4. lastId + 1 \notin DOMAIN old
  BY <1>1, <1>3, IdsAre
<1> QED
  BY <1>1, <1>2, <1>3, <1>4, ShapeOf DEF Committable

LEMMA AddedIs ==
    ASSUME GoodImports, NEW i \in Imports, NEW s, NEW old, Grounded(s, old), Bounded
    PROVE  Imported(Added(s, i, lastId + 1), {}, old)
<1> DEFINE id  == lastId + 1
           new == NewProfile(id, i.provider, i.conn)
           custom == s.custom \cup ({i.provider} \ BuiltIn)
           ps  == IF Equivalents(s, i) # {} THEN s.profiles ELSE Append(s.profiles, new)
<1>1. /\ s \in Settings /\ s.profiles \in Seq(Profile) /\ s.profiles # <<>>
      /\ s.active \in ProfileIds /\ s.custom \in SUBSET CustomProviders
      /\ s.custom \cap BuiltIn = {} /\ Distinct(s.profiles)
      /\ lastId \in Nat /\ id \in ProfileIds /\ id \notin DOMAIN old
      /\ \A k \in DOMAIN s.profiles : s.profiles[k].id # id
  BY GroundedParts
<1>2. /\ custom \in SUBSET CustomProviders /\ custom \cap BuiltIn = {}
      /\ s.custom \subseteq custom /\ i.provider \in BuiltIn \cup custom
  BY <1>1, WithCustom
<1> HIDE DEF custom
<1>3. new \in Profile /\ new.id = id /\ KeptOrNew(new, custom, {}, old)
  <2>1. id <= lastId + 1
    BY <1>1
  <2> QED
    BY <1>1, <1>2, <2>1, NewImport
<1>4. \A k \in DOMAIN s.profiles : KeptOrNew(s.profiles[k], custom, {}, old)
  BY <1>1, <1>2, OldProfile
<1> HIDE DEF new, id
<1>5. /\ ps \in Seq(Profile) /\ ps # <<>> /\ Distinct(ps)
      /\ \A k \in DOMAIN ps : KeptOrNew(ps[k], custom, {}, old)
  <2>1. CASE Equivalents(s, i) # {}
    BY <1>1, <1>4, <2>1
  <2>2. CASE Equivalents(s, i) = {}
    <3>1. ps = Append(s.profiles, new)
      BY <2>2
    <3>2. \A k \in DOMAIN s.profiles : s.profiles[k].id # new.id
      BY <1>1, <1>3
    <3> HIDE DEF ps
    <3>3. ps \in Seq(Profile) /\ ps # <<>> /\ Distinct(ps)
          /\ \A k \in DOMAIN ps : \/ k \in DOMAIN s.profiles /\ ps[k] = s.profiles[k]
                                  \/ ps[k] = new
      BY <1>1, <1>3, <3>1, <3>2, AppendIs
    <3> QED
      BY <1>3, <1>4, <3>3
  <2> QED
    BY <2>1, <2>2
<1>6. Added(s, i, lastId + 1) = SettingsOf(ps, s.active, custom)
  <2>1. Added(s, i, lastId + 1) = [s EXCEPT !.custom = custom, !.profiles = ps]
    BY DEF Added, custom, new, id
  <2> HIDE DEF ps
  <2>2. \A x, c : [s EXCEPT !.custom = c, !.profiles = x] = SettingsOf(x, s.active, c)
    BY <1>1, SettingsAre
  <2>3. [s EXCEPT !.custom = custom, !.profiles = ps] = SettingsOf(ps, s.active, custom)
    BY <2>2
  <2> QED
    BY <2>1, <2>3
<1> HIDE DEF ps
<1> QED
  BY <1>1, <1>2, <1>5, <1>6, ImportBuilt

LEMMA OneProfile ==
    ASSUME NEW p \in Profile
    PROVE  /\ <<p>> \in Seq(Profile) /\ <<p>> # <<>> /\ Distinct(<<p>>)
           /\ DOMAIN <<p>> = {1} /\ <<p>>[1] = p
<1>1. <<p>> \in Seq(Profile) /\ Len(<<p>>) = 1 /\ <<p>> # <<>> /\ <<p>>[1] = p
  OBVIOUS
<1>2. DOMAIN <<p>> = {1}
  BY <1>1
<1> QED
  BY <1>1, <1>2 DEF Distinct

LEMMA FirstIdIs == FirstId \in ProfileIds /\ FirstId = 1
  BY WebProfilesAssumption DEF FirstId, ProfileIds

LEMMA MergedIs ==
    ASSUME GoodImports, NEW i \in Imports, NEW s, NEW old, Grounded(s, old), Bounded
    PROVE  Imported(Merged(s, i, lastId + 1), Replaced(s), old)
<1>1. CASE ~OnlyDefault(s)
  <2>1. Replaced(s) = {} /\ Merged(s, i, lastId + 1) = Added(s, i, lastId + 1)
    BY <1>1 DEF Replaced, Merged
  <2> QED
    BY <2>1, AddedIs
<1>2. CASE OnlyDefault(s)
  <2> DEFINE new == NewProfile(FirstId, i.provider, i.conn)
             custom == {i.provider} \ BuiltIn
  <2>1. Replaced(s) = {FirstId} /\ Merged(s, i, lastId + 1) = SettingsOf(<<new>>, FirstId, custom)
    BY <1>2 DEF Replaced, Merged, SettingsOf
  <2>2. /\ custom \in SUBSET CustomProviders /\ custom \cap BuiltIn = {}
        /\ i.provider \in BuiltIn \cup custom
    BY DEF GoodImports, ProviderIds
  <2>3. FirstId \in ProfileIds /\ FirstId <= lastId + 1
    BY FirstIdIs DEF Bounded, ProfileIds
  <2> HIDE DEF custom
  <2>4. new \in Profile /\ KeptOrNew(new, custom, {FirstId}, old)
    BY <2>2, <2>3, NewImport
  <2> HIDE DEF new
  <2>5. <<new>> \in Seq(Profile) /\ <<new>> # <<>> /\ Distinct(<<new>>)
        /\ \A k \in DOMAIN <<new>> : KeptOrNew(<<new>>[k], custom, {FirstId}, old)
    BY <2>4, OneProfile
  <2> DEFINE ps == <<new>>
  <2> HIDE DEF ps
  <2>6. Imported(SettingsOf(ps, FirstId, custom), {FirstId}, old)
    BY <2>2, <2>3, <2>5, ImportBuilt DEF ps
  <2> QED
    BY <2>1, <2>6 DEF ps
<1> QED
  BY <1>1, <1>2

LEMMA ActivatedIs ==
    ASSUME NEW s, NEW fresh, NEW old, Imported(s, fresh, old), NEW i
    PROVE  Imported(WithImportActive(s, i), fresh, old)
<1>1. Committable(s) /\ s \in Settings
      /\ \A k \in DOMAIN s.profiles : KeptOrNew(s.profiles[k], s.custom, fresh, old)
  BY ShapeOf DEF Imported
<1>2. CASE Equivalents(s, i) = {}
  BY <1>2 DEF WithImportActive
<1>3. CASE Equivalents(s, i) # {}
  <2> DEFINE a == CHOOSE id \in Equivalents(s, i) : TRUE
  <2>1. a \in IdsIn(s)
    BY <1>3 DEF Equivalents
  <2>2. a \in ProfileIds
    BY <1>1, <2>1, IdsAre, ShapeOf, ProfileParts
  <2>3. WithImportActive(s, i) = [s EXCEPT !.active = a]
    BY <1>3 DEF WithImportActive, Activated
  <2> HIDE DEF a
  <2>4. WithImportActive(s, i) = SettingsOf(s.profiles, a, s.custom)
    BY <1>1, <2>3, SettingsAre
  <2>5. /\ s.profiles \in Seq(Profile) /\ s.profiles # <<>> /\ Distinct(s.profiles)
        /\ s.custom \in SUBSET CustomProviders /\ s.custom \cap BuiltIn = {}
    BY <1>1, ShapeOf DEF Committable
  <2> QED
    BY <1>1, <2>2, <2>4, <2>5, ImportBuilt
<1> QED
  BY <1>2, <1>3

\* The settings an import leaves.
LEMMA ImportNumbered ==
    ASSUME NEW s, NEW fresh, NEW old, Imported(s, fresh, old), Bounded, NumberImport(Normal(s))
    PROVE  LET t == Normal(s)
           IN  /\ Sane(t) /\ Completes(t) /\ Numbered(t, lastId')
               /\ lastId' \in ProfileIds /\ lastId <= lastId'
               /\ \A k \in DOMAIN t.profiles : KeptOrNew(t.profiles[k], t.custom, fresh, old)
<1> DEFINE t == Normal(s)
<1>1. Committable(s) /\ \A k \in DOMAIN s.profiles : KeptOrNew(s.profiles[k], s.custom, fresh, old)
  BY DEF Imported
<1>2. s.custom \in SUBSET CustomProviders
  BY <1>1, ShapeOf
<1>3. /\ Sane(t) /\ DOMAIN t.profiles = DOMAIN s.profiles /\ t.custom = s.custom
      /\ \A k \in DOMAIN s.profiles : t.profiles[k] = NormalProfile(s.profiles[k], s.custom)
  BY <1>1, NormalSettings
<1>4. \A k \in DOMAIN t.profiles : t.profiles[k] = s.profiles[k]
  <2> TAKE k \in DOMAIN t.profiles
  <2>1. Sound(s.profiles[k], s.custom)
    BY <1>1, <1>3 DEF KeptOrNew
  <2> QED
    BY <1>2, <1>3, <2>1, NormalOfSound
<1>5. lastId' = IF lastId + 1 \in IdsIn(t) THEN lastId + 1 ELSE lastId
  BY DEF NumberImport
<1> HIDE DEF t
<1>6. Committable(t) /\ \A k \in DOMAIN t.profiles : KeptOrNew(t.profiles[k], t.custom, fresh, old)
  BY <1>1, <1>3, <1>4 DEF Sane
<1>7. Completes(t)
  BY <1>6 DEF Completes, KeptOrNew
<1>8. lastId \in Nat /\ lastId + 1 \in ProfileIds /\ lastId' \in ProfileIds /\ lastId <= lastId'
  BY <1>5, WebProfilesAssumption DEF Bounded, ProfileIds
<1>9. Numbered(t, lastId')
  <2> SUFFICES ASSUME NEW k \in DOMAIN t.profiles PROVE t.profiles[k].id <= lastId'
    BY DEF Numbered
  <2>1. t.profiles[k].id <= lastId + 1 /\ t.profiles[k].id \in IdsIn(t) /\ t.profiles[k] \in Profile
    BY <1>6, IdsAre, ShapeOf DEF KeptOrNew
  <2>2. t.profiles[k].id \in Nat
    BY <2>1, ProfileParts DEF ProfileIds
  <2> QED
    BY <1>5, <1>8, <2>1, <2>2
<1> QED
  BY <1>3, <1>6, <1>7, <1>8, <1>9 DEF t

\* What EnterImport records agrees with them.
LEMMA ImportLeaves ==
    ASSUME NEW s, NEW fresh, NEW old, Imported(s, fresh, old), Bounded,
           EnterImport(Normal(s), fresh, old), NumberImport(Normal(s))
    PROVE  LET t == Normal(s)
           IN  /\ Sane(t) /\ Completes(t) /\ Numbered(t, lastId') /\ AgreesWith(t, entered')
               /\ lastId' \in ProfileIds /\ lastId <= lastId'
<1> DEFINE t == Normal(s)
<1>1. /\ Sane(t) /\ Completes(t) /\ Numbered(t, lastId')
      /\ lastId' \in ProfileIds /\ lastId <= lastId'
      /\ \A k \in DOMAIN t.profiles : KeptOrNew(t.profiles[k], t.custom, fresh, old)
  BY ImportNumbered
<1>2. Committable(t)
  BY <1>1 DEF Sane
<1>3. /\ DOMAIN entered' = IdsIn(t)
      /\ \A id \in IdsIn(t) : entered'[id] =
            IF id \in fresh \/ id \notin DOMAIN old
            THEN Remember(NoMemory, Of(t, id).provider, Of(t, id).conn) ELSE old[id]
  BY DEF EnterImport, t
<1> HIDE DEF t
<1>4. ASSUME NEW k \in DOMAIN t.profiles
      PROVE  KeptBy(t.profiles[k], entered'[t.profiles[k].id])
  <2> DEFINE p == t.profiles[k]
  <2>1. KeptOrNew(p, t.custom, fresh, old) /\ p \in Profile /\ p.id \in IdsIn(t) /\ Of(t, p.id) = p
    BY <1>1, <1>2, IdsAre, OfIs DEF KeptOrNew, Sound, Loose
  <2>2. Completed(p) = p
    BY <2>1, CompletedIs DEF KeptOrNew
  <2> HIDE DEF p
  <2>3. CASE p.id \in fresh \/ p.id \notin DOMAIN old
    <3> DEFINE e == Remember(NoMemory, p.provider, p.conn)
    <3>1. entered'[p.id] = e
      BY <1>3, <2>1, <2>3
    <3>2. DOMAIN e = {p.provider} /\ e[p.provider] = p.conn
      BY DEF Remember, NoMemory
    <3> HIDE DEF e
    <3>3. KeptBy(p, e)
      BY <2>2, <3>2 DEF KeptBy, ConnectionOf
    <3> QED
      BY <3>1, <3>3 DEF p
  <2>4. CASE ~(p.id \in fresh \/ p.id \notin DOMAIN old)
    <3>1. entered'[p.id] = old[p.id] /\ KeptBy(p, old[p.id])
      BY <1>3, <2>1, <2>4 DEF KeptOrNew
    <3> QED
      BY <3>1 DEF p
  <2> QED
    BY <2>3, <2>4
<1>5. AgreesWith(t, entered')
  BY <1>3, <1>4 DEF AgreesWith
<1> QED
  BY <1>1, <1>5 DEF t

-----------------------------------------------------------------------------
(* The invariant, and what the handlers share. *)

\* Settings that anything may start from.
Ready(s) == Sane(s) /\ Numbered(s, lastId) /\ Completes(s)

\* The draft agrees with what was entered, and is complete unless a field has
\* the focus.
DraftInv ==
    /\ Sane(draft) /\ Numbered(draft, lastId) /\ AgreesWith(draft, entered)
    /\ ~typing => Completes(draft)

\* The settings and the draft of a click may be others, but are as good; while
\* the window is closed the draft is what the settings are.
WindowInv ==
    /\ Ready(settings) /\ Ready(prompt.seen)
    /\ ~showing => ~typing /\ settings = draft

ProfilesInv == lastId \in ProfileIds /\ DraftInv /\ WindowInv

LEMMA BelowIds ==
    ASSUME NEW s, Committable(s), NEW n
    PROVE  Numbered(s, n) <=> \A id \in IdsIn(s) : id <= n
  BY IdsAre DEF Numbered

\* The settings of a first visit.
LEMMA DefaultsReady ==
    ASSUME lastId \in ProfileIds
    PROVE  /\ Ready(DefaultSettings) /\ NoPrompt.seen = DefaultSettings
           /\ IdsIn(DefaultSettings) = {FirstId}
           /\ Of(DefaultSettings, FirstId).provider = "openai"
           /\ Of(DefaultSettings, FirstId).conn = Standard["openai"]
           /\ \A e : (/\ DOMAIN e = {FirstId} /\ DOMAIN e[FirstId] = {"openai"}
                      /\ e[FirstId]["openai"] = Standard["openai"]) => AgreesWith(DefaultSettings, e)
<1> DEFINE new == NewProfile(FirstId, "openai", Standard["openai"])
           p   == Pristine(FirstId)
           c   == {}
           ps  == <<p>>
<1>1. Standard["openai"] \in Connections /\ "openai" \in ProviderIds /\ "openai" \in BuiltIn
  BY DEF Connections, BuiltIn, ProviderIds
<1>2. FirstId \in ProfileIds /\ FirstId = 1 /\ lastId \in Nat /\ lastId >= 1
  BY FirstIdIs DEF ProfileIds
<1>3. /\ new \in Profile /\ new.id = FirstId /\ new.provider = "openai"
      /\ new.conn = Standard["openai"] /\ new.memory = NoMemory /\ DOMAIN new.memory = {}
  BY <1>1, <1>2, NewIs
<1>4. p \in Profile /\ p.id = FirstId /\ p.provider = "openai" /\ p.conn = Standard["openai"]
      /\ p.memory = NoMemory /\ DOMAIN p.memory = {}
  <2>1. p = [new EXCEPT !.unnamed = FirstId # FirstId]
    BY DEF Pristine
  <2> HIDE DEF new, p
  <2> QED
    BY <1>3, <2>1 DEF Profile
<1> HIDE DEF p, new
<1>5. Sound(p, c) /\ Loose(p, c) /\ Given(p.provider, p.conn)
  BY <1>1, <1>4 DEF Sound, Loose, Given, StandardOf
<1>6. ps \in Seq(Profile) /\ ps # <<>> /\ Distinct(ps) /\ DOMAIN ps = {1} /\ ps[1] = p
  BY <1>4, OneProfile
<1>7. /\ c \in SUBSET CustomProviders /\ c \cap BuiltIn = {}
      /\ \A i \in {1} : Loose(p, c) /\ Sound(p, c)
  BY <1>5
<1> DEFINE s == SettingsOf(ps, FirstId, c)
<1>8. DefaultSettings = s
  BY DEF DefaultSettings, SettingsOf, p
<1> HIDE DEF ps, c
<1>9. /\ Committable(s) /\ IdsIn(s) = {ps[i].id : i \in DOMAIN ps}
      /\ s.profiles = ps /\ s.active = FirstId /\ s.custom = c
  <2>1. \A i \in DOMAIN ps : Loose(ps[i], c)
    BY <1>6, <1>7
  <2> QED
    BY <1>2, <1>6, <1>7, <2>1, BuildKeeps
<1> HIDE DEF s
<1>10. IdsIn(s) = {FirstId} /\ Of(s, FirstId) = p
  <2>1. IdsIn(s) = {FirstId}
    BY <1>4, <1>6, <1>9
  <2>2. Of(s, s.profiles[1].id) = s.profiles[1]
    BY <1>6, <1>9, OfIs
  <2> QED
    BY <1>4, <1>6, <1>9, <2>1, <2>2
<1>11. Sane(s) /\ Completes(s) /\ Numbered(s, lastId)
  BY <1>2, <1>4, <1>5, <1>6, <1>9, <1>10 DEF Sane, Completes, Numbered
<1>12. ASSUME NEW e, DOMAIN e = {FirstId}, DOMAIN e[FirstId] = {"openai"},
              e[FirstId]["openai"] = Standard["openai"]
       PROVE  AgreesWith(s, e)
  <2>1. Completed(p) = p
    BY <1>4, <1>5, CompletedIs
  <2>2. KeptBy(p, e[FirstId])
    BY <1>4, <1>12, <2>1 DEF KeptBy, ConnectionOf
  <2> QED
    BY <1>4, <1>6, <1>9, <1>10, <1>12, <2>2 DEF AgreesWith
<1> QED
  BY <1>4, <1>8, <1>10, <1>11, <1>12 DEF Ready, NoPrompt

\* What is ready stays so, and a prompt that opens or ends has seen such.
LEMMA ReadyStays ==
    ASSUME ProfilesInv, lastId' \in ProfileIds, lastId <= lastId', NEW s, Ready(s)
    PROVE  Sane(s) /\ Numbered(s, lastId') /\ Completes(s)
<1>1. lastId \in Nat /\ lastId' \in Nat /\ Sane(s) /\ Numbered(s, lastId) /\ Completes(s)
  BY DEF ProfilesInv, ProfileIds, Ready
<1>2. Committable(s)
  BY <1>1 DEF Sane
<1>3. ASSUME NEW i \in DOMAIN s.profiles PROVE s.profiles[i].id <= lastId'
  <2>1. s.profiles[i].id \in Nat
    BY <1>2, ShapeOf, ProfileParts DEF ProfileIds
  <2>2. s.profiles[i].id <= lastId
    BY <1>1 DEF Numbered
  <2> QED
    BY <1>1, <2>1, <2>2
<1> QED
  BY <1>1, <1>3 DEF Numbered

LEMMA PromptReady ==
    ASSUME ProfilesInv, lastId' \in ProfileIds, lastId <= lastId',
           \/ prompt' = prompt
           \/ prompt' = NoPrompt
           \/ prompt'.seen = draft /\ ~typing
    PROVE  Ready(prompt.seen)'
<1>1. Ready(prompt.seen) /\ (~typing => Ready(draft)) /\ Ready(NoPrompt.seen)
  <2>1. lastId \in ProfileIds
    BY DEF ProfilesInv
  <2> QED
    BY <2>1, DefaultsReady DEF ProfilesInv, WindowInv, DraftInv, Ready
<1>2. Ready(prompt'.seen)
  BY <1>1
<1>3. Sane(prompt'.seen) /\ Numbered(prompt'.seen, lastId') /\ Completes(prompt'.seen)
  <2> DEFINE s == prompt'.seen
  <2>1. Ready(s)
    BY <1>2
  <2> HIDE DEF s
  <2>2. Sane(s) /\ Numbered(s, lastId') /\ Completes(s)
    BY <2>1, ReadyStays
  <2> QED
    BY <2>2 DEF s
<1> QED
  BY <1>3 DEF Ready

\* A handler that leaves t in the settings and in the draft.
LEMMA CommitLeaves ==
    ASSUME ProfilesInv, lastId' \in ProfileIds, lastId <= lastId',
           NEW t, settings' = t, draft' = t, ~typing',
           Sane(t), Completes(t), Numbered(t, lastId'), AgreesWith(t, entered'),
           \/ prompt' = prompt
           \/ prompt' = NoPrompt
           \/ prompt'.seen = draft /\ ~typing
    PROVE  ProfilesInv'
<1>1. Ready(prompt.seen)'
  BY PromptReady
<1>2. DraftInv'
  BY DEF DraftInv
<1>3. WindowInv'
  BY <1>1 DEF WindowInv, Ready
<1> QED
  BY <1>2, <1>3 DEF ProfilesInv

\* A commit of s, when entered already agrees with it.
LEMMA CommitSame ==
    ASSUME ProfilesInv, NEW s, Sane(s), AgreesWith(s, entered'), Numbered(s, lastId),
           CommitSettings(s), lastId' = lastId, prompt' = prompt \/ prompt' = NoPrompt
    PROVE  ProfilesInv'
<1> DEFINE t == Committed(s)
<1>1. Sane(t) /\ Completes(t) /\ IdsIn(t) = IdsIn(s) /\ Committable(s)
  BY CommittedSettings DEF Sane
<1>2. AgreesWith(t, entered') /\ Committable(t)
  BY <1>1, CommitMatches DEF Sane
<1>3. Numbered(t, lastId)
  BY <1>1, <1>2, BelowIds
<1>4. settings' = t /\ draft' = t /\ typing' = FALSE
  BY DEF CommitSettings
<1>5. lastId \in ProfileIds /\ lastId' \in ProfileIds /\ lastId <= lastId'
  BY DEF ProfilesInv, ProfileIds
<1> HIDE DEF t
<1> QED
  BY <1>1, <1>2, <1>3, <1>4, <1>5, CommitLeaves

\* A handler that commits other profiles and records them.
WindowCommit(s) ==
    /\ InWindow /\ CommitSettings(s) /\ Enter(Committed(s)) /\ prompt' = prompt

Changed(p, custom) ==
    /\ Loose(p, custom) /\ p.id <= lastId'
    /\ p.id \in DOMAIN entered => KeptBy(p, entered[p.id])

LEMMA ListCommit ==
    ASSUME ProfilesInv, lastId' \in ProfileIds, lastId <= lastId',
           NEW ps \in Seq(Profile), NEW active \in ProfileIds,
           NEW custom \in SUBSET CustomProviders, custom \cap BuiltIn = {}, ps # <<>>,
           Distinct(ps), \A i \in DOMAIN ps : Changed(ps[i], custom),
           WindowCommit(SettingsOf(ps, active, custom))
    PROVE  ProfilesInv'
<1> DEFINE s == SettingsOf(ps, active, custom)
           t == Committed(s)
<1>1. \A i \in DOMAIN ps : Loose(ps[i], custom)
  BY DEF Changed
<1>2. Committable(s) /\ s.profiles = ps /\ s.custom = custom
  BY <1>1, BuildKeeps
<1>3. /\ settings' = t /\ draft' = t /\ typing' = FALSE /\ Enter(t) /\ prompt' = prompt
  BY DEF WindowCommit, CommitSettings
<1> HIDE DEF s
<1>4. Sane(t) /\ Completes(t) /\ IdsIn(t) = IdsIn(s)
  BY <1>2, CommittedSettings
<1>5. \A i \in DOMAIN s.profiles :
         s.profiles[i].id \in DOMAIN entered => KeptBy(s.profiles[i], entered[s.profiles[i].id])
  BY <1>2 DEF Changed
<1>6. AgreesWith(t, entered')
  BY <1>2, <1>3, <1>5, EnterMatches
<1>7. Numbered(s, lastId')
  BY <1>2 DEF Numbered, Changed
<1>8. Numbered(t, lastId')
  BY <1>2, <1>4, <1>7, BelowIds DEF Sane
<1> HIDE DEF t
<1> QED
  BY <1>3, <1>4, <1>6, <1>8, CommitLeaves

\* What the invariant says of the draft, for a handler of the window.
LEMMA DraftParts ==
    ASSUME ProfilesInv
    PROVE  /\ Committable(draft) /\ Sane(draft) /\ draft \in Settings
           /\ draft.profiles \in Seq(Profile) /\ draft.profiles # <<>> /\ Distinct(draft.profiles)
           /\ draft.active \in ProfileIds /\ draft.active \in IdsIn(draft)
           /\ draft.custom \in SUBSET CustomProviders /\ draft.custom \cap BuiltIn = {}
           /\ AgreesWith(draft, entered) /\ Numbered(draft, lastId) /\ lastId \in Nat
           /\ \A i \in DOMAIN draft.profiles :
                 /\ draft.profiles[i] \in Profile /\ draft.profiles[i].id \in Nat
                 /\ draft.profiles[i].id <= lastId
                 /\ Sound(draft.profiles[i], draft.custom) /\ Loose(draft.profiles[i], draft.custom)
                 /\ KeptBy(draft.profiles[i], entered[draft.profiles[i].id])
                 /\ draft.profiles[i].id \in DOMAIN entered
                 /\ ~typing => Given(draft.profiles[i].provider, draft.profiles[i].conn)
<1>1. Sane(draft) /\ Numbered(draft, lastId) /\ AgreesWith(draft, entered) /\ (~typing => Completes(draft))
  BY DEF ProfilesInv, DraftInv
<1>2. Committable(draft) /\ draft.active \in IdsIn(draft)
      /\ \A i \in DOMAIN draft.profiles : Sound(draft.profiles[i], draft.custom)
  BY <1>1 DEF Sane
<1>3. lastId \in Nat
  BY DEF ProfilesInv, ProfileIds
<1>4. ASSUME NEW i \in DOMAIN draft.profiles
      PROVE  /\ draft.profiles[i] \in Profile /\ draft.profiles[i].id \in Nat
             /\ draft.profiles[i].id <= lastId
             /\ Sound(draft.profiles[i], draft.custom) /\ Loose(draft.profiles[i], draft.custom)
             /\ KeptBy(draft.profiles[i], entered[draft.profiles[i].id])
             /\ draft.profiles[i].id \in DOMAIN entered
             /\ ~typing => Given(draft.profiles[i].provider, draft.profiles[i].conn)
  <2>1. draft.profiles[i] \in Profile /\ Loose(draft.profiles[i], draft.custom)
    BY <1>2 DEF Sound, Loose
  <2>2. draft.profiles[i].id \in Nat
    BY <2>1, ProfileParts DEF ProfileIds
  <2>3. draft.profiles[i].id \in DOMAIN entered
    BY <1>1, <1>2, IdsAre DEF AgreesWith
  <2> QED
    BY <1>1, <1>2, <2>1, <2>2, <2>3 DEF Numbered, AgreesWith, Completes
<1> QED
  BY <1>1, <1>2, <1>3, <1>4, ShapeOf DEF Committable

\* A profile of the draft that a handler leaves alone.
LEMMA SameProfile ==
    ASSUME ProfilesInv, NEW i \in DOMAIN draft.profiles, lastId' \in Nat, lastId <= lastId',
           NEW custom, draft.profiles[i].provider \in BuiltIn \cup custom
    PROVE  Changed(draft.profiles[i], custom)
<1> DEFINE p == draft.profiles[i]
<1>1. /\ p \in Profile /\ p.id \in Nat /\ p.id <= lastId /\ lastId \in Nat
      /\ Loose(p, draft.custom) /\ KeptBy(p, entered[p.id])
  BY DraftParts
<1> HIDE DEF p
<1>2. p.id <= lastId'
  BY <1>1
<1>3. p.provider \in BuiltIn \cup custom
  BY DEF p
<1>4. Loose(p, custom)
  BY <1>1, <1>3 DEF Loose
<1>5. Changed(p, custom)
  BY <1>1, <1>2, <1>4 DEF Changed
<1> QED
  BY <1>5 DEF p

\* The active profile of the draft.
LEMMA ActiveIs ==
    ASSUME ProfilesInv
    PROVE  \E k \in DOMAIN draft.profiles :
              draft.profiles[k] = ActiveOf(draft) /\ ActiveOf(draft).id = draft.active
<1>1. Committable(draft) /\ draft.active \in IdsIn(draft)
  BY DraftParts
<1> QED
  BY <1>1, IdsAre DEF ActiveOf

\* A profile put in the place of the one with its id.
LEMMA WithProfileIs ==
    ASSUME NEW s, Committable(s), NEW p \in Profile
    PROVE  LET t == WithProfile(s, p)
           IN  /\ t = SettingsOf(t.profiles, s.active, s.custom)
               /\ t.profiles \in Seq(Profile) /\ t.profiles # <<>> /\ Distinct(t.profiles)
               /\ DOMAIN t.profiles = DOMAIN s.profiles
               /\ \A i \in DOMAIN s.profiles :
                     /\ t.profiles[i].id = s.profiles[i].id
                     /\ t.profiles[i] = IF s.profiles[i].id = p.id THEN p ELSE s.profiles[i]
<1> DEFINE t == WithProfile(s, p)
           ps == [i \in DOMAIN s.profiles |-> IF s.profiles[i].id = p.id THEN p ELSE s.profiles[i]]
<1>1. /\ s \in Settings /\ s.profiles \in Seq(Profile) /\ s.profiles # <<>>
      /\ Distinct(s.profiles) /\ DOMAIN s.profiles = 1..Len(s.profiles) /\ Len(s.profiles) \in Nat
      /\ 1 \in DOMAIN s.profiles
      /\ \A i \in DOMAIN s.profiles : s.profiles[i] \in Profile
  BY ShapeOf DEF Committable
<1>2. /\ DOMAIN ps = DOMAIN s.profiles
      /\ \A i \in DOMAIN s.profiles :
            /\ ps[i] = IF s.profiles[i].id = p.id THEN p ELSE s.profiles[i]
            /\ ps[i].id = s.profiles[i].id /\ ps[i] \in Profile
  BY <1>1
<1>3. ps \in Seq(Profile)
  <2>1. DOMAIN ps = 1..Len(s.profiles) /\ Len(s.profiles) \in Nat
        /\ \A i \in 1..Len(s.profiles) : ps[i] \in Profile
    BY <1>1, <1>2
  <2>2. ps = [i \in 1..Len(s.profiles) |-> ps[i]]
    BY <1>1
  <2> HIDE DEF ps
  <2> QED
    BY <2>1, <2>2, FunIsSeq
<1>4. t = [s EXCEPT !.profiles = ps]
  BY DEF WithProfile
<1> HIDE DEF ps, t
<1>5. ps # <<>> /\ Distinct(ps)
  BY <1>1, <1>2 DEF Distinct
<1>6. \A x : [s EXCEPT !.profiles = x] = SettingsOf(x, s.active, s.custom)
  BY <1>1, SettingsAre
<1>7. t = SettingsOf(ps, s.active, s.custom)
  BY <1>4, <1>6
<1>8. t.profiles = ps
  BY <1>7 DEF SettingsOf
<1>9. /\ t = SettingsOf(t.profiles, s.active, s.custom)
      /\ t.profiles \in Seq(Profile) /\ t.profiles # <<>> /\ Distinct(t.profiles)
      /\ DOMAIN t.profiles = DOMAIN s.profiles
      /\ \A i \in DOMAIN s.profiles :
            /\ t.profiles[i].id = s.profiles[i].id
            /\ t.profiles[i] = IF s.profiles[i].id = p.id THEN p ELSE s.profiles[i]
  BY <1>2, <1>3, <1>5, <1>7, <1>8
<1> QED
  BY <1>9 DEF t

\* An import that ends in the settings and in the draft.
LEMMA ImportEnds ==
    ASSUME ProfilesInv, NEW s, NEW fresh, NEW old, Imported(s, fresh, old), Bounded,
           EnterImport(Normal(s), fresh, old), NumberImport(Normal(s)),
           settings' = Normal(s), draft' = Normal(s), ~typing',
           prompt' = prompt \/ prompt' = NoPrompt
    PROVE  ProfilesInv'
<1> DEFINE t == Normal(s)
<1>1. /\ Sane(t) /\ Completes(t) /\ Numbered(t, lastId') /\ AgreesWith(t, entered')
      /\ lastId' \in ProfileIds /\ lastId <= lastId'
  BY ImportLeaves
<1>2. settings' = t /\ draft' = t
  OBVIOUS
<1> HIDE DEF t
<1> QED
  BY <1>1, <1>2, CommitLeaves

-----------------------------------------------------------------------------
(* One lemma per handler. *)

LEMMA ProfilesInitially == ASSUME ProfilesInit PROVE ProfilesInv
<1>1. /\ lastId = FirstId /\ ~typing /\ settings = DefaultSettings /\ draft = DefaultSettings
      /\ prompt = NoPrompt
      /\ entered = [id \in {FirstId} |-> [q \in {"openai"} |-> Standard["openai"]]]
  BY DEF ProfilesInit
<1>2. lastId \in ProfileIds
  BY <1>1, FirstIdIs
<1>3. Ready(DefaultSettings) /\ NoPrompt.seen = DefaultSettings
  BY <1>2, DefaultsReady
<1>4. DOMAIN entered = {FirstId} /\ DOMAIN entered[FirstId] = {"openai"}
      /\ entered[FirstId]["openai"] = Standard["openai"]
  BY <1>1
<1>5. AgreesWith(DefaultSettings, entered)
  BY <1>2, <1>4, DefaultsReady
<1> QED
  BY <1>1, <1>2, <1>3, <1>5 DEF ProfilesInv, DraftInv, WindowInv, Ready

\* The record of settings that overwrite the draft agrees with them.
LEMMA RecordedAgrees ==
    ASSUME ProfilesInv, NEW s, Ready(s)
    PROVE  AgreesWith(s, Recorded(s))
<1>1. Sane(s) /\ Committable(s) /\ Completes(s)
  BY DEF Ready, Sane
<1>2. Committable(draft) /\ AgreesWith(draft, entered)
  BY DraftParts
<1> DEFINE r == Recorded(s)
<1>3. /\ DOMAIN r = IdsIn(s)
      /\ \A id \in IdsIn(s) : r[id] =
            IF id \in IdsIn(draft) /\ Of(draft, id) = Of(s, id) THEN entered[id]
            ELSE Remember(Of(s, id).memory, Of(s, id).provider, Of(s, id).conn)
  BY DEF Recorded
<1> HIDE DEF r
<1>4. ASSUME NEW k \in DOMAIN s.profiles PROVE KeptBy(s.profiles[k], r[s.profiles[k].id])
  <2> DEFINE p == s.profiles[k]
  <2>1. p.id \in IdsIn(s) /\ Of(s, p.id) = p /\ p \in Profile
    BY <1>1, IdsAre, OfIs, ShapeOf
  <2>2. CASE p.id \in IdsIn(draft) /\ Of(draft, p.id) = p
    <3>1. PICK i \in DOMAIN draft.profiles :
             draft.profiles[i].id = p.id /\ draft.profiles[i] = Of(draft, p.id)
      BY <1>2, <2>2, IdsAre
    <3>2. KeptBy(p, entered[p.id])
      BY <1>2, <2>2, <3>1 DEF AgreesWith
    <3> QED
      BY <1>3, <2>1, <2>2, <3>2
  <2>3. CASE ~(p.id \in IdsIn(draft) /\ Of(draft, p.id) = p)
    <3> DEFINE m == Remember(p.memory, p.provider, p.conn)
    <3>1. r[p.id] = m
      BY <1>3, <2>1, <2>3
    <3>2. /\ DOMAIN m = DOMAIN p.memory \cup {p.provider} /\ m[p.provider] = p.conn
          /\ \A x \in DOMAIN p.memory \ {p.provider} : m[x] = p.memory[x]
      BY DEF Remember
    <3>3. Given(p.provider, p.conn) /\ p.provider \in BuiltIn \cup s.custom
      BY <1>1 DEF Completes, Sane, Sound, Loose
    <3>4. Completed(p) = p
      BY <2>1, <3>3, CompletedIs
    <3> HIDE DEF m, p
    <3>5. KeptBy(p, m)
      BY <3>2, <3>4 DEF KeptBy, ConnectionOf
    <3> QED
      BY <3>1, <3>5 DEF p
  <2> QED
    BY <2>2, <2>3
<1>5. AgreesWith(s, r)
  BY <1>3, <1>4 DEF AgreesWith
<1> QED
  BY <1>5 DEF r

\* An import meets settings it can start from.
LEMMA StartImport ==
    ASSUME ProfilesInv, lastId < MaxProfiles, NEW s, Ready(s)
    PROVE  Grounded(s, Recorded(s)) /\ Bounded
  BY RecordedAgrees DEF ProfilesInv, Ready, Grounded, Bounded

LEMMA OpenLinkKeeps ==
    ASSUME ProfilesInv, GoodImports, NEW i \in Imports, NEW single, OpenLink(i, single)
    PROVE  ProfilesInv'
<1> DEFINE merged == IF single THEN Added(settings, i, lastId + 1) ELSE Merged(settings, i, lastId + 1)
           fresh  == IF single THEN {} ELSE Replaced(settings)
           s      == WithImportActive(merged, i)
           old    == Recorded(settings)
<1>1. /\ ~showing /\ lastId < MaxProfiles /\ settings' = Normal(s) /\ draft' = Normal(s)
      /\ EnterImport(Normal(s), fresh, old) /\ NumberImport(Normal(s))
      /\ typing' = typing /\ prompt' = prompt
  BY DEF OpenLink
<1>2. ~typing' /\ Ready(settings)
  BY <1>1 DEF ProfilesInv, WindowInv
<1>3. Grounded(settings, old) /\ Bounded
  BY <1>1, <1>2, StartImport
<1> HIDE DEF old
<1>4. Imported(merged, fresh, old)
  BY <1>3, AddedIs, MergedIs
<1> HIDE DEF merged, fresh
<1>5. Imported(s, fresh, old)
  BY <1>4, ActivatedIs
<1> HIDE DEF s
<1> QED
  BY <1>1, <1>2, <1>3, <1>5, ImportEnds

\* An import into an open window leaves the draft, and the record, alone.
LEMMA ConfiguredKeeps ==
    ASSUME ProfilesInv, GoodImports, NEW i \in Imports, ConfiguredArrives(i)
    PROVE  ProfilesInv'
<1> DEFINE s   == Merged(settings, i, lastId + 1)
           old == Recorded(settings)
<1>1. /\ lastId < MaxProfiles /\ settings' = Normal(s) /\ NumberImport(Normal(s))
      /\ \/ showing /\ draft' = draft /\ entered' = entered
         \/ ~showing /\ draft' = Normal(s) /\ EnterImport(Normal(s), Replaced(settings), old)
      /\ showing' = showing /\ typing' = typing /\ prompt' = prompt
  BY DEF ConfiguredArrives
<1>2. Ready(settings)
  BY DEF ProfilesInv, WindowInv
<1>3. Grounded(settings, old) /\ Bounded
  BY <1>1, <1>2, StartImport
<1> HIDE DEF old
<1>4. Imported(s, Replaced(settings), old)
  BY <1>3, MergedIs
<1> HIDE DEF s
<1>5. CASE ~showing
  <2>1. ~typing'
    BY <1>1, <1>5 DEF ProfilesInv, WindowInv
  <2>2. draft' = Normal(s) /\ EnterImport(Normal(s), Replaced(settings), old)
    BY <1>1, <1>5
  <2> QED
    BY <1>1, <1>3, <1>4, <2>1, <2>2, ImportEnds
<1>6. CASE showing
  <2> DEFINE t == Normal(s)
  <2>1. Sane(t) /\ Completes(t) /\ Numbered(t, lastId') /\ lastId' \in ProfileIds /\ lastId <= lastId'
    BY <1>1, <1>3, <1>4, ImportNumbered
  <2>2. settings' = t /\ draft' = draft /\ entered' = entered
    BY <1>1, <1>6
  <2> HIDE DEF t
  <2>3. Ready(prompt.seen)'
    BY <1>1, <2>1, PromptReady
  <2>4. Numbered(draft, lastId')
    <3>1. lastId \in Nat /\ lastId' \in Nat
      BY <2>1 DEF ProfilesInv, ProfileIds
    <3> QED
      BY <2>1, <3>1, DraftParts DEF Numbered
  <2>5. DraftInv'
    BY <1>1, <2>2, <2>4 DEF ProfilesInv, DraftInv
  <2>6. WindowInv'
    BY <1>1, <1>6, <2>1, <2>2, <2>3 DEF WindowInv, Ready
  <2> QED
    BY <2>1, <2>5, <2>6 DEF ProfilesInv
<1> QED
  BY <1>5, <1>6

LEMMA ImportFileKeeps ==
    ASSUME ProfilesInv, GoodImports, NEW i \in Imports, ImportFile(i)
    PROVE  ProfilesInv'
<1> DEFINE s   == Merged(settings, i, lastId + 1)
           old == Recorded(settings)
<1>1. /\ ~typing /\ lastId < MaxProfiles /\ settings' = Normal(s) /\ draft' = Normal(s)
      /\ EnterImport(Normal(s), Replaced(settings), old) /\ NumberImport(Normal(s))
      /\ typing' = typing /\ prompt' = prompt
  BY DEF ImportFile, InWindow
<1>2. ~typing' /\ Ready(settings)
  BY <1>1 DEF ProfilesInv, WindowInv
<1>3. Grounded(settings, old) /\ Bounded
  BY <1>1, <1>2, StartImport
<1> HIDE DEF old
<1>4. Imported(s, Replaced(settings), old)
  BY <1>3, MergedIs
<1> HIDE DEF s
<1> QED
  BY <1>1, <1>2, <1>3, <1>4, ImportEnds

LEMMA ClearConfigKeeps == ASSUME ProfilesInv, ClearConfig PROVE ProfilesInv'
<1> DEFINE s == DefaultSettings
<1>1. /\ ~typing' /\ settings' = s /\ draft' = s /\ EnterImport(s, {FirstId}, entered)
      /\ prompt' = prompt /\ lastId' = lastId
  BY DEF ClearConfig, InWindow
<1>2. lastId \in ProfileIds /\ lastId' \in ProfileIds /\ lastId <= lastId'
  BY <1>1 DEF ProfilesInv, ProfileIds
<1>3. /\ Ready(s) /\ IdsIn(s) = {FirstId}
      /\ Of(s, FirstId).provider = "openai" /\ Of(s, FirstId).conn = Standard["openai"]
  BY <1>2, DefaultsReady
<1> HIDE DEF s
<1>4. DOMAIN entered' = {FirstId} /\ entered'[FirstId] = Remember(NoMemory, "openai", Standard["openai"])
  BY <1>1, <1>3 DEF EnterImport
<1>5. DOMAIN entered'[FirstId] = {"openai"} /\ entered'[FirstId]["openai"] = Standard["openai"]
  BY <1>4 DEF Remember, NoMemory
<1>6. AgreesWith(s, entered')
  BY <1>2, <1>4, <1>5, DefaultsReady DEF s
<1> QED
  BY <1>1, <1>2, <1>3, <1>6, CommitLeaves DEF Ready

LEMMA PastedKeeps ==
    ASSUME ProfilesInv, GoodImports, NEW i \in Imports, Pasted(i)
    PROVE  ProfilesInv'
<1> DEFINE was    == prompt.seen
           merged == Merged(was, i, lastId + 1)
           over   == ~OnlyDefault(was) /\ Equivalents(was, i) = {} /\ IsPristine(ActiveOf(was))
           new    == NewProfile(was.active, i.provider, i.conn)
           u      == [WithProfile(was, new) EXCEPT !.custom = merged.custom]
           s      == IF over THEN u ELSE WithImportActive(merged, i)
           fresh  == IF over THEN {was.active} ELSE Replaced(was)
           old    == Recorded(was)
<1>1. /\ prompt' = NoPrompt /\ lastId < MaxProfiles
      /\ settings' = Normal(s) /\ draft' = Normal(s) /\ ~typing'
      /\ EnterImport(Normal(s), fresh, old) /\ NumberImport(Normal(s))
  BY DEF Pasted
<1>2. Ready(was)
  BY DEF ProfilesInv, WindowInv
<1> HIDE DEF was
<1>3. Grounded(was, old) /\ Bounded
  BY <1>1, <1>2, StartImport
<1> HIDE DEF old
<1>4. CASE ~over
  <2>1. Imported(merged, Replaced(was), old)
    BY <1>3, MergedIs
  <2> HIDE DEF merged
  <2>2. Imported(WithImportActive(merged, i), Replaced(was), old)
    BY <2>1, ActivatedIs
  <2>3. Imported(s, fresh, old)
    BY <1>4, <2>2
  <2> HIDE DEF s, fresh, over
  <2> QED
    BY <1>1, <1>3, <2>3, ImportEnds
<1>5. CASE over
  <2> DEFINE custom == was.custom \cup ({i.provider} \ BuiltIn)
             ps == WithProfile(was, new).profiles
  <2>1. /\ Committable(was) /\ was \in Settings /\ was.active \in ProfileIds
        /\ was.custom \in SUBSET CustomProviders /\ was.custom \cap BuiltIn = {}
        /\ lastId \in Nat
    BY <1>3, GroundedParts
  <2>2. /\ custom \in SUBSET CustomProviders /\ custom \cap BuiltIn = {}
        /\ was.custom \subseteq custom /\ i.provider \in BuiltIn \cup custom
    BY <1>3, <2>1, WithCustom
  <2>3. merged.custom = custom
    <3>1. merged = Added(was, i, lastId + 1)
      BY <1>5 DEF Merged
    <3>2. DOMAIN was = {"profiles", "active", "custom"}
      BY <2>1 DEF Settings
    <3> QED
      BY <3>1, <3>2 DEF Added
  <2> HIDE DEF custom, merged
  <2>4. was.active \in IdsIn(was) /\ was.active <= lastId
    <3>1. was.active \in IdsIn(was) /\ Numbered(was, lastId)
      BY <1>3 DEF Grounded, Sane
    <3> QED
      BY <2>1, <3>1, BelowIds
  <2>5. new \in Profile /\ new.id = was.active /\ KeptOrNew(new, custom, {was.active}, old)
    <3>1. was.active <= lastId + 1
      BY <2>1, <2>4 DEF ProfileIds
    <3> QED
      BY <1>3, <2>1, <2>2, <3>1, NewImport
  <2> HIDE DEF new
  <2>6. /\ WithProfile(was, new) = SettingsOf(ps, was.active, was.custom)
        /\ ps \in Seq(Profile) /\ ps # <<>> /\ Distinct(ps) /\ DOMAIN ps = DOMAIN was.profiles
        /\ \A k \in DOMAIN was.profiles :
              ps[k] = IF was.profiles[k].id = new.id THEN new ELSE was.profiles[k]
    BY <2>1, <2>5, WithProfileIs
  <2>7. u = SettingsOf(ps, was.active, custom)
    <3> HIDE DEF ps
    <3>1. u = [SettingsOf(ps, was.active, was.custom) EXCEPT !.custom = custom]
      BY <2>3, <2>6
    <3> QED
      BY <3>1 DEF SettingsOf
  <2> HIDE DEF ps
  <2>8. \A k \in DOMAIN ps : KeptOrNew(ps[k], custom, {was.active}, old)
    <3> TAKE k \in DOMAIN ps
    <3>1. CASE was.profiles[k].id = new.id
      BY <2>5, <2>6, <3>1
    <3>2. CASE was.profiles[k].id # new.id
      <4>1. was.profiles[k].id \notin {was.active} /\ k \in DOMAIN was.profiles
        BY <2>5, <2>6, <3>2
      <4>2. KeptOrNew(was.profiles[k], custom, {was.active}, old)
        BY <1>3, <2>1, <2>2, <4>1, OldProfile
      <4> QED
        BY <2>6, <3>2, <4>1, <4>2
    <3> QED
      BY <3>1, <3>2
  <2>9. Imported(SettingsOf(ps, was.active, custom), {was.active}, old)
    BY <2>1, <2>2, <2>6, <2>8, ImportBuilt
  <2>10. Imported(s, fresh, old)
    BY <1>5, <2>7, <2>9
  <2> HIDE DEF s, fresh, over
  <2> QED
    BY <1>1, <1>3, <2>10, ImportEnds
<1> QED
  BY <1>4, <1>5

LEMMA ActivatedParts ==
    ASSUME NEW s, Sane(s), NEW id \in IdsIn(s)
    PROVE  LET t == Activated(s, id)
           IN  /\ Sane(t) /\ t.profiles = s.profiles /\ t.custom = s.custom
               /\ \A e : AgreesWith(s, e) => AgreesWith(t, e)
               /\ \A n : Numbered(s, n) => Numbered(t, n)
               /\ Completes(s) => Completes(t)
<1> DEFINE t == Activated(s, id)
<1>1. Committable(s) /\ s \in Settings /\ \A i \in DOMAIN s.profiles : Sound(s.profiles[i], s.custom)
  BY DEF Sane, Committable
<1>2. id \in ProfileIds
  BY <1>1, IdsAre, ShapeOf, ProfileParts
<1>3. t = [s EXCEPT !.active = id]
  BY DEF Activated
<1> HIDE DEF t
<1>4. t \in Settings /\ t.profiles = s.profiles /\ t.custom = s.custom /\ t.active = id
  BY <1>1, <1>2, <1>3 DEF Settings
<1>5. IdsIn(t) = IdsIn(s)
  BY <1>4 DEF IdsIn
<1>6. Sane(t)
  BY <1>1, <1>4, <1>5 DEF Sane, Committable
<1>7. /\ \A e : AgreesWith(s, e) => AgreesWith(t, e)
      /\ \A n : Numbered(s, n) => Numbered(t, n)
      /\ Completes(s) => Completes(t)
  BY <1>4, <1>5 DEF AgreesWith, Numbered, Completes
<1> QED
  BY <1>4, <1>6, <1>7 DEF t

\* A handler that leaves settings, draft, record and numbers alone.
LEMMA QuietKeeps ==
    ASSUME ProfilesInv, settings' = settings, draft' = draft, showing' = showing, typing' = typing,
           lastId' = lastId, entered' = entered,
           \/ prompt' = prompt
           \/ prompt' = NoPrompt
           \/ prompt'.seen = draft /\ ~typing
    PROVE  ProfilesInv'
<1>1. lastId' \in ProfileIds /\ lastId <= lastId'
  BY DEF ProfilesInv, ProfileIds
<1>2. Ready(prompt.seen)'
  BY <1>1, PromptReady
<1>3. DraftInv'
  BY DEF ProfilesInv, DraftInv
<1>4. WindowInv'
  BY <1>2 DEF ProfilesInv, WindowInv, Ready
<1> QED
  BY <1>1, <1>3, <1>4 DEF ProfilesInv

LEMMA OthersKeep ==
    ASSUME ProfilesInv,
           \/ ConfiguredFails \/ PromptRefused
           \/ \E id \in ProfileIds : ReuseProfile(id)
           \/ \E kind \in PromptKinds : AskBrowser(kind)
    PROVE  ProfilesInv'
<1>1. CASE ConfiguredFails \/ PromptRefused
  BY <1>1, QuietKeeps DEF ConfiguredFails, PromptRefused
<1>2. ASSUME NEW id \in ProfileIds, ReuseProfile(id) PROVE ProfilesInv'
  BY <1>2, QuietKeeps DEF ReuseProfile
<1>3. ASSUME NEW kind \in PromptKinds, AskBrowser(kind) PROVE ProfilesInv'
  <2>1. /\ settings' = settings /\ draft' = draft /\ showing' = showing /\ typing' = typing
        /\ lastId' = lastId /\ entered' = entered /\ prompt'.seen = draft /\ ~typing
    BY <1>3 DEF AskBrowser, InWindow
  <2> QED
    BY <2>1, QuietKeeps
<1> QED
  BY <1>1, <1>2, <1>3

LEMMA OpenWindowKeeps == ASSUME ProfilesInv, OpenWindow PROVE ProfilesInv'
<1>1. /\ ~showing /\ showing'
      /\ draft' = IF reusedId \in IdsIn(settings) THEN Activated(settings, reusedId) ELSE settings
      /\ settings' = settings /\ typing' = typing /\ prompt' = prompt /\ lastId' = lastId
      /\ entered' = entered
  BY DEF OpenWindow
<1>2. Ready(settings) /\ AgreesWith(settings, entered)
  BY <1>1 DEF ProfilesInv, WindowInv, DraftInv
<1>3. Sane(draft') /\ Numbered(draft', lastId) /\ AgreesWith(draft', entered) /\ Completes(draft')
  BY <1>1, <1>2, ActivatedParts DEF Ready
<1>4. DraftInv'
  BY <1>1, <1>3 DEF DraftInv
<1>5. WindowInv'
  BY <1>1 DEF ProfilesInv, WindowInv, Ready
<1> QED
  BY <1>1, <1>4, <1>5 DEF ProfilesInv

LEMMA CommitDraftKeeps ==
    ASSUME ProfilesInv, CloseWindow \/ BlurField
    PROVE  ProfilesInv'
<1>1. CommitSettings(draft) /\ entered' = entered /\ lastId' = lastId /\ prompt' = prompt
  BY DEF CloseWindow, BlurField
<1>2. Sane(draft) /\ AgreesWith(draft, entered') /\ Numbered(draft, lastId)
  BY <1>1, DraftParts
<1> QED
  BY <1>1, <1>2, CommitSame

\* The answer of the browser commits the draft of its click.
LEMMA PermissionKeeps == ASSUME ProfilesInv, PermissionGiven PROVE ProfilesInv'
<1> DEFINE s == prompt.seen
<1>1. CommitSettings(s) /\ entered' = Recorded(s) /\ lastId' = lastId /\ prompt' = NoPrompt
  BY DEF PermissionGiven
<1>2. Ready(s)
  BY DEF ProfilesInv, WindowInv
<1> HIDE DEF s
<1>3. Sane(s) /\ Numbered(s, lastId) /\ AgreesWith(s, entered')
  BY <1>1, <1>2, RecordedAgrees DEF Ready
<1> QED
  BY <1>1, <1>3, CommitSame

LEMMA ChooseProfileKeeps ==
    ASSUME ProfilesInv, NEW id \in ProfileIds, ChooseProfile(id)
    PROVE  ProfilesInv'
<1> DEFINE t == Activated(draft, id)
<1>1. /\ id \in IdsIn(draft) /\ CommitSettings(t) /\ prompt' = prompt /\ lastId' = lastId
      /\ entered' = entered
  BY DEF ChooseProfile
<1>2. Sane(draft) /\ AgreesWith(draft, entered) /\ Numbered(draft, lastId)
  BY DraftParts
<1>3. Sane(t) /\ AgreesWith(t, entered') /\ Numbered(t, lastId)
  BY <1>1, <1>2, ActivatedParts
<1> HIDE DEF t
<1> QED
  BY <1>1, <1>3, CommitSame

LEMMA TypeKeeps ==
    ASSUME ProfilesInv, NEW conn \in TypedConnections, TypeConnection(conn)
    PROVE  ProfilesInv'
<1> DEFINE act == ActiveOf(draft)
           p   == [act EXCEPT !.conn = conn]
           t   == WithProfile(draft, p)
           e   == Remember(entered[p.id], p.provider, Completed(p).conn)
<1>1. /\ showing /\ typing' = TRUE /\ draft' = t /\ settings' = settings
      /\ entered' = [entered EXCEPT ![p.id] = e]
      /\ showing' = showing /\ prompt' = prompt /\ lastId' = lastId
  BY DEF TypeConnection
<1>2. PICK k \in DOMAIN draft.profiles : draft.profiles[k] = act /\ act.id = draft.active
  BY <1>1, ActiveIs
<1>3. /\ Committable(draft) /\ Sane(draft) /\ AgreesWith(draft, entered) /\ Numbered(draft, lastId)
      /\ draft.active \in ProfileIds /\ draft.active \in IdsIn(draft)
      /\ draft.custom \in SUBSET CustomProviders /\ draft.custom \cap BuiltIn = {}
      /\ act \in Profile /\ Sound(act, draft.custom) /\ KeptBy(act, entered[act.id])
      /\ act.id \in DOMAIN entered
  BY <1>1, <1>2, DraftParts
<1>4. conn \in Connections
  BY DEF Connections
<1> HIDE DEF act
<1>5. /\ p \in Profile /\ p.id = act.id /\ p.provider = act.provider /\ p.memory = act.memory
      /\ p.conn = conn
  BY <1>3, <1>4 DEF Profile
<1> HIDE DEF p
<1>6. Sound(p, draft.custom)
  BY <1>3, <1>5 DEF Sound, Loose
<1>7. KeptBy(p, e)
  <2>1. /\ Completed(p).provider = p.provider /\ Completed(p).memory = p.memory
        /\ Completed(act).provider = act.provider /\ Completed(act).memory = act.memory
    BY <1>3, <1>5, CompletedIs
  <2>2. /\ DOMAIN e = DOMAIN entered[p.id] \cup {p.provider} /\ e[p.provider] = Completed(p).conn
        /\ \A x \in DOMAIN entered[p.id] \ {p.provider} : e[x] = entered[p.id][x]
    BY DEF Remember
  <2> HIDE DEF e
  <2>3. \A x \in DOMAIN entered[p.id] :
           x \in DOMAIN p.memory \cup {p.provider} /\ ConnectionOf(Completed(act), x) = entered[p.id][x]
    BY <1>3, <1>5 DEF KeptBy
  <2> QED
    BY <1>5, <2>1, <2>2, <2>3 DEF KeptBy, ConnectionOf
<1> HIDE DEF e
<1>8. /\ t = SettingsOf(t.profiles, draft.active, draft.custom)
      /\ t.profiles \in Seq(Profile) /\ t.profiles # <<>> /\ Distinct(t.profiles)
      /\ DOMAIN t.profiles = DOMAIN draft.profiles
      /\ \A i \in DOMAIN draft.profiles :
            /\ t.profiles[i].id = draft.profiles[i].id
            /\ t.profiles[i] = IF draft.profiles[i].id = p.id THEN p ELSE draft.profiles[i]
  BY <1>3, <1>5, WithProfileIs
<1> DEFINE ps == t.profiles
<1>9. t = SettingsOf(ps, draft.active, draft.custom)
  BY <1>8
<1> HIDE DEF t
<1>10. \A i \in DOMAIN ps : Sound(ps[i], draft.custom) /\ Loose(ps[i], draft.custom)
  BY <1>3, <1>6, <1>8 DEF Sane, Sound
<1>11. Committable(t) /\ t.custom = draft.custom /\ t.active = draft.active
  BY <1>3, <1>8, <1>9, <1>10, BuildKeeps
<1>12. IdsIn(t) = IdsIn(draft)
  <2>1. IdsIn(t) = {t.profiles[i].id : i \in DOMAIN t.profiles}
        /\ IdsIn(draft) = {draft.profiles[i].id : i \in DOMAIN draft.profiles}
    BY <1>3, <1>11, IdsAre
  <2> QED
    BY <1>8, <2>1
<1>13. Sane(t)
  BY <1>3, <1>10, <1>11, <1>12 DEF Sane
<1>14. Numbered(t, lastId)
  BY <1>3, <1>11, <1>12, BelowIds
<1>15. AgreesWith(t, entered')
  <2>1. DOMAIN entered' = IdsIn(t)
    BY <1>1, <1>3, <1>12 DEF AgreesWith
  <2>2. ASSUME NEW i \in DOMAIN t.profiles PROVE KeptBy(t.profiles[i], entered'[t.profiles[i].id])
    <3>1. i \in DOMAIN draft.profiles /\ t.profiles[i].id \in DOMAIN entered
      BY <1>3, <1>8, <1>11, <1>12, IdsAre DEF AgreesWith
    <3>2. CASE draft.profiles[i].id = p.id
      <4>1. t.profiles[i] = p /\ entered'[p.id] = e
        BY <1>1, <1>3, <1>5, <1>8, <3>1, <3>2
      <4> QED
        BY <1>7, <4>1
    <3>3. CASE draft.profiles[i].id # p.id
      <4>1. /\ t.profiles[i] = draft.profiles[i]
            /\ entered'[t.profiles[i].id] = entered[draft.profiles[i].id]
        BY <1>1, <1>8, <3>1, <3>3
      <4> QED
        BY <1>3, <3>1, <4>1 DEF AgreesWith
    <3> QED
      BY <3>2, <3>3
  <2> QED
    BY <2>1, <2>2 DEF AgreesWith
<1>16. DraftInv'
  BY <1>1, <1>13, <1>14, <1>15 DEF DraftInv
<1>17. WindowInv'
  BY <1>1 DEF ProfilesInv, WindowInv, Ready
<1> QED
  BY <1>1, <1>16, <1>17 DEF ProfilesInv

LEMMA ChooseProviderKeeps ==
    ASSUME ProfilesInv, NEW q \in ProviderIds, ChooseProvider(q)
    PROVE  ProfilesInv'
<1> DEFINE act == ActiveOf(draft)
           r   == SwitchProvider(act, q)
           w   == WithProfile(draft, r)
           ps  == w.profiles
           custom == draft.custom \cup ({q} \ BuiltIn)
           s   == [w EXCEPT !.custom = @ \cup ({q} \ BuiltIn)]
<1>1. /\ q # act.provider /\ lastId' = lastId /\ showing /\ ~typing /\ WindowCommit(s)
  BY DEF ChooseProvider, Commits, WindowCommit, InWindow
<1>2. PICK k \in DOMAIN draft.profiles : draft.profiles[k] = act /\ act.id = draft.active
  BY <1>1, ActiveIs
<1>3. /\ Committable(draft) /\ draft.active \in ProfileIds
      /\ draft.custom \in SUBSET CustomProviders /\ draft.custom \cap BuiltIn = {}
      /\ act \in Profile /\ Loose(act, draft.custom) /\ KeptBy(act, entered[act.id])
      /\ Given(act.provider, act.conn) /\ act.id <= lastId /\ lastId \in Nat
  BY <1>1, <1>2, DraftParts
<1> HIDE DEF act
<1>4. /\ r \in Profile /\ r.id = act.id /\ r.provider = q
      /\ \A x \in DOMAIN r.memory : Given(x, r.memory[x])
      /\ KeptBy(r, entered[act.id])
  BY <1>1, <1>3, SwitchKeeps
<1> HIDE DEF r
<1>5. custom \in SUBSET CustomProviders /\ custom \cap BuiltIn = {} /\ draft.custom \subseteq custom
      /\ q \in BuiltIn \cup custom
  BY <1>3 DEF ProviderIds
<1>6. /\ w = SettingsOf(ps, draft.active, draft.custom)
      /\ ps \in Seq(Profile) /\ ps # <<>> /\ Distinct(ps) /\ DOMAIN ps = DOMAIN draft.profiles
      /\ \A i \in DOMAIN draft.profiles :
            ps[i] = IF draft.profiles[i].id = r.id THEN r ELSE draft.profiles[i]
  BY <1>3, <1>4, WithProfileIs
<1>7. s = SettingsOf(ps, draft.active, custom)
  <2> HIDE DEF w, ps
  <2>1. s = [SettingsOf(ps, draft.active, draft.custom) EXCEPT !.custom = custom]
    <3>1. w.custom = draft.custom
      BY <1>6 DEF SettingsOf
    <3> QED
      BY <1>6, <3>1
  <2> HIDE DEF custom, s
  <2> QED
    BY <2>1 DEF SettingsOf
<1> HIDE DEF w, ps, s, custom
<1>8. Changed(r, custom)
  BY <1>1, <1>3, <1>4, <1>5 DEF Changed, Loose
<1>9. \A i \in DOMAIN ps : Changed(ps[i], custom)
  <2> TAKE i \in DOMAIN ps
  <2>1. i \in DOMAIN draft.profiles
    BY <1>6
  <2>2. draft.profiles[i].provider \in BuiltIn \cup custom
    BY <1>1, <1>5, <2>1, DraftParts DEF Loose
  <2>3. Changed(draft.profiles[i], custom)
    BY <1>1, <1>3, <2>1, <2>2, SameProfile
  <2> QED
    BY <1>6, <1>8, <2>1, <2>3
<1>10. lastId' \in ProfileIds /\ lastId <= lastId'
  BY <1>1, <1>3 DEF ProfilesInv
<1>11. WindowCommit(SettingsOf(ps, draft.active, custom))
  BY <1>1, <1>7
<1> QED
  BY <1>3, <1>5, <1>6, <1>9, <1>10, <1>11, ListCommit

LEMMA DeleteProviderKeeps ==
    ASSUME ProfilesInv, NEW q \in ProviderIds, DeleteProvider(q)
    PROVE  ProfilesInv'
<1> DEFINE old(i) == draft.profiles[i]
           new(i) == IF old(i).provider = q THEN SwitchProvider(old(i), "openai") ELSE old(i)
           ps  == [i \in DOMAIN draft.profiles |-> new(i)]
           custom == draft.custom \ {q}
           s   == [draft EXCEPT !.custom = custom, !.profiles = ps]
<1>1. /\ q \in draft.custom /\ lastId' = lastId /\ showing /\ ~typing /\ WindowCommit(s)
  BY DEF DeleteProvider, Commits, WindowCommit, InWindow
<1>2. /\ Committable(draft) /\ draft \in Settings /\ draft.active \in ProfileIds
      /\ draft.custom \in SUBSET CustomProviders /\ draft.custom \cap BuiltIn = {}
      /\ lastId \in Nat /\ lastId' \in Nat /\ lastId <= lastId'
      /\ draft.profiles # <<>> /\ Distinct(draft.profiles)
  BY <1>1, DraftParts
<1>3. custom \in SUBSET CustomProviders /\ custom \cap BuiltIn = {}
      /\ "openai" \in BuiltIn /\ "openai" \in ProviderIds /\ q \notin BuiltIn
  BY <1>1, <1>2 DEF BuiltIn, ProviderIds
<1>4. ASSUME NEW i \in DOMAIN draft.profiles
      PROVE  new(i) \in Profile /\ new(i).id = old(i).id /\ Changed(new(i), custom)
  <2>1. /\ old(i) \in Profile /\ old(i).id <= lastId
        /\ Loose(old(i), draft.custom)
        /\ KeptBy(old(i), entered[old(i).id])
        /\ Given(old(i).provider, old(i).conn)
    BY <1>1, DraftParts
  <2>2. CASE old(i).provider = q
    <3> DEFINE r == SwitchProvider(old(i), "openai")
    <3>1. /\ r \in Profile /\ r.id = old(i).id /\ r.provider = "openai"
          /\ \A x \in DOMAIN r.memory : Given(x, r.memory[x])
          /\ KeptBy(r, entered[old(i).id])
      <4> DEFINE o == old(i)
      <4>1. /\ "openai" # o.provider /\ Loose(o, draft.custom) /\ Given(o.provider, o.conn)
            /\ KeptBy(o, entered[o.id])
        BY <1>3, <2>1, <2>2
      <4> HIDE DEF o
      <4>2. /\ SwitchProvider(o, "openai") \in Profile /\ SwitchProvider(o, "openai").id = o.id
            /\ SwitchProvider(o, "openai").provider = "openai"
            /\ \A x \in DOMAIN SwitchProvider(o, "openai").memory :
                  Given(x, SwitchProvider(o, "openai").memory[x])
            /\ KeptBy(SwitchProvider(o, "openai"), entered[o.id])
        BY <1>2, <1>3, <4>1, SwitchKeeps
      <4> QED
        BY <4>2 DEF o
    <3>2. new(i) = r
      BY <2>2
    <3> HIDE DEF r, new, custom
    <3>3. Changed(r, custom)
      BY <1>1, <1>3, <2>1, <3>1 DEF Changed, Loose
    <3> QED
      BY <3>1, <3>2, <3>3
  <2>3. CASE old(i).provider # q
    <3>1. old(i).provider \in BuiltIn \cup custom
      BY <2>1, <2>3 DEF Loose
    <3> HIDE DEF custom
    <3>2. Changed(old(i), custom)
      BY <1>1, <1>2, <3>1, SameProfile
    <3>3. new(i) = old(i)
      BY <2>3
    <3> HIDE DEF new
    <3> QED
      BY <2>1, <3>2, <3>3
  <2> QED
    BY <2>2, <2>3
<1> HIDE DEF new, old
<1>5. /\ DOMAIN draft.profiles = 1..Len(draft.profiles) /\ Len(draft.profiles) \in Nat
      /\ 1 \in DOMAIN draft.profiles
  BY <1>2, ShapeOf
<1>6. DOMAIN ps = DOMAIN draft.profiles /\ \A i \in DOMAIN draft.profiles : ps[i] = new(i)
  OBVIOUS
<1>7. ps \in Seq(Profile)
  <2>1. DOMAIN ps = 1..Len(draft.profiles) /\ \A i \in 1..Len(draft.profiles) : ps[i] \in Profile
    BY <1>4, <1>5, <1>6
  <2>2. ps = [i \in 1..Len(draft.profiles) |-> ps[i]]
    BY <1>5
  <2> HIDE DEF ps
  <2> QED
    BY <1>5, <2>1, <2>2, FunIsSeq
<1> HIDE DEF ps, custom
<1>8. ps # <<>>
  BY <1>5, <1>6
<1>9. Distinct(ps)
  BY <1>2, <1>4, <1>6 DEF Distinct, old
<1>10. s = SettingsOf(ps, draft.active, custom)
  <2>1. \A x, c : [draft EXCEPT !.custom = c, !.profiles = x] = SettingsOf(x, draft.active, c)
    BY <1>2, SettingsAre
  <2> QED
    BY <2>1
<1> HIDE DEF s
<1>11. \A i \in DOMAIN ps : Changed(ps[i], custom)
  BY <1>4, <1>6
<1>12. lastId' \in ProfileIds
  BY <1>1 DEF ProfilesInv
<1>13. WindowCommit(SettingsOf(ps, draft.active, custom))
  BY <1>1, <1>10
<1> QED
  BY <1>2, <1>3, <1>7, <1>8, <1>9, <1>11, <1>12, <1>13, ListCommit

LEMMA MoveProfileKeeps ==
    ASSUME ProfilesInv, NEW i, NEW j, MoveProfile(i, j)
    PROVE  ProfilesInv'
<1> DEFINE ps == InsertAt(RemoveAt(draft.profiles, i), j, draft.profiles[i])
           s  == [draft EXCEPT !.profiles = ps]
<1>1. /\ i \in DOMAIN draft.profiles /\ j \in DOMAIN draft.profiles
      /\ lastId' = lastId /\ showing /\ WindowCommit(s)
  BY DEF MoveProfile, Commits, WindowCommit, InWindow
<1>2. /\ draft \in Settings /\ draft.profiles \in Seq(Profile) /\ draft.profiles # <<>>
      /\ Distinct(draft.profiles) /\ draft.active \in ProfileIds
      /\ draft.custom \in SUBSET CustomProviders /\ draft.custom \cap BuiltIn = {}
      /\ lastId \in Nat /\ lastId' \in Nat /\ lastId <= lastId'
  BY <1>1, DraftParts
<1>3. /\ ps \in Seq(Profile) /\ DOMAIN ps = DOMAIN draft.profiles /\ Distinct(ps)
      /\ \A x \in DOMAIN ps : \E y \in DOMAIN draft.profiles : ps[x] = draft.profiles[y]
  BY <1>1, <1>2, MoveIs
<1> HIDE DEF ps
<1>4. ps # <<>>
  BY <1>1, <1>3
<1>5. \A y \in DOMAIN draft.profiles : Changed(draft.profiles[y], draft.custom)
  <2> TAKE y \in DOMAIN draft.profiles
  <2>1. draft.profiles[y].provider \in BuiltIn \cup draft.custom
    BY <1>1, DraftParts DEF Loose
  <2> QED
    BY <1>1, <1>2, <2>1, SameProfile
<1>6. \A x \in DOMAIN ps : Changed(ps[x], draft.custom)
  BY <1>3, <1>5
<1>7. s = SettingsOf(ps, draft.active, draft.custom)
  <2>1. \A x : [draft EXCEPT !.profiles = x] = SettingsOf(x, draft.active, draft.custom)
    BY <1>2, SettingsAre
  <2> QED
    BY <2>1
<1> HIDE DEF s
<1>8. lastId' \in ProfileIds
  BY <1>1 DEF ProfilesInv
<1>9. WindowCommit(SettingsOf(ps, draft.active, draft.custom))
  BY <1>1, <1>7
<1> QED
  BY <1>2, <1>3, <1>4, <1>6, <1>8, <1>9, ListCommit

LEMMA DeleteProfileKeeps ==
    ASSUME ProfilesInv, NEW id \in ProfileIds, DeleteProfile(id)
    PROVE  ProfilesInv'
<1> DEFINE k  == IndexOf(draft, id)
           ps == RemoveAt(draft.profiles, k)
           a  == IF draft.active = id THEN ps[1].id ELSE draft.active
           s  == [draft EXCEPT !.profiles = ps, !.active = a]
<1>1. /\ id \in IdsIn(draft) /\ Len(draft.profiles) > 1
      /\ lastId' = lastId /\ showing /\ WindowCommit(s)
  BY DEF DeleteProfile, WindowCommit, InWindow
<1>2. /\ draft \in Settings /\ draft.profiles \in Seq(Profile) /\ draft.profiles # <<>>
      /\ Distinct(draft.profiles) /\ draft.active \in ProfileIds
      /\ draft.custom \in SUBSET CustomProviders /\ draft.custom \cap BuiltIn = {}
      /\ lastId \in Nat /\ lastId' \in Nat /\ lastId <= lastId' /\ Committable(draft)
  BY <1>1, DraftParts
<1>3. k \in DOMAIN draft.profiles
  <2>1. \E x \in 1..Len(draft.profiles) : draft.profiles[x].id = id
    BY <1>1 DEF IdsIn
  <2>2. k \in 1..Len(draft.profiles)
    BY <2>1 DEF IndexOf
  <2> QED
    BY <1>2, <2>2
<1> HIDE DEF k
<1>4. /\ ps \in Seq(Profile) /\ Distinct(ps) /\ ps # <<>>
      /\ \A x \in DOMAIN ps : \E y \in DOMAIN draft.profiles : ps[x] = draft.profiles[y]
  <2>1. /\ ps \in Seq(Profile) /\ Distinct(ps) /\ (Len(draft.profiles) > 1 => ps # <<>>)
        /\ \A x \in DOMAIN ps : \E y \in DOMAIN draft.profiles \ {k} : ps[x] = draft.profiles[y]
    BY <1>2, <1>3, WithoutIs
  <2> QED
    BY <1>1, <2>1
<1> HIDE DEF ps
<1>5. \A y \in DOMAIN draft.profiles : Changed(draft.profiles[y], draft.custom)
  <2> TAKE y \in DOMAIN draft.profiles
  <2>1. draft.profiles[y].provider \in BuiltIn \cup draft.custom
    BY <1>1, DraftParts DEF Loose
  <2> QED
    BY <1>1, <1>2, <2>1, SameProfile
<1>6. \A x \in DOMAIN ps : Changed(ps[x], draft.custom)
  BY <1>4, <1>5
<1>7. a \in ProfileIds
  <2>1. 1 \in DOMAIN ps /\ ps[1] \in Profile
    BY <1>4
  <2> QED
    BY <1>2, <2>1, ProfileParts
<1> HIDE DEF a
<1>8. s = SettingsOf(ps, a, draft.custom)
  <2>1. \A x, y : [draft EXCEPT !.profiles = x, !.active = y] = SettingsOf(x, y, draft.custom)
    BY <1>2, SettingsAre
  <2> QED
    BY <2>1
<1> HIDE DEF s
<1>9. lastId' \in ProfileIds
  BY <1>1 DEF ProfilesInv
<1>10. WindowCommit(SettingsOf(ps, a, draft.custom))
  BY <1>1, <1>8
<1> QED
  BY <1>2, <1>4, <1>6, <1>7, <1>9, <1>10, ListCommit

LEMMA AddProfileKeeps ==
    ASSUME ProfilesInv, NEW copied \in BOOLEAN, AddProfile(copied)
    PROVE  ProfilesInv'
<1> DEFINE id  == lastId + 1
           act == ActiveOf(draft)
           p   == IF copied THEN [act EXCEPT !.id = id, !.unnamed = FALSE] ELSE Pristine(id)
           ps  == Append(draft.profiles, p)
           s   == [draft EXCEPT !.profiles = ps, !.active = id]
<1>1. /\ lastId < MaxProfiles /\ lastId' = id /\ showing /\ WindowCommit(s)
  BY DEF AddProfile, WindowCommit, InWindow
<1>2. PICK k \in DOMAIN draft.profiles : draft.profiles[k] = act
  BY <1>1, ActiveIs
<1>3. /\ draft \in Settings /\ draft.profiles \in Seq(Profile) /\ draft.profiles # <<>>
      /\ Distinct(draft.profiles) /\ draft.active \in ProfileIds
      /\ draft.custom \in SUBSET CustomProviders /\ draft.custom \cap BuiltIn = {}
      /\ lastId \in Nat /\ act \in Profile /\ Loose(act, draft.custom) /\ AgreesWith(draft, entered)
      /\ \A y \in DOMAIN draft.profiles : draft.profiles[y].id # id
      /\ Committable(draft)
  BY <1>1, <1>2, DraftParts
<1>4. lastId \in ProfileIds /\ id \in ProfileIds /\ lastId' \in Nat /\ lastId <= lastId'
  BY <1>1, <1>3, WebProfilesAssumption DEF ProfilesInv, ProfileIds
<1>5. id \notin DOMAIN entered
  BY <1>3, IdsAre DEF AgreesWith
<1> HIDE DEF act
<1>6. p \in Profile /\ p.id = id /\ Loose(p, draft.custom)
  <2>1. CASE copied
    <3> DEFINE r == [act EXCEPT !.id = id, !.unnamed = FALSE]
    <3>1. r \in Profile /\ r.id = id /\ r.provider = act.provider /\ r.memory = act.memory
      BY <1>3, <1>4 DEF Profile
    <3> HIDE DEF r
    <3>2. Loose(r, draft.custom)
      BY <1>3, <3>1 DEF Loose
    <3> QED
      BY <2>1, <3>1, <3>2 DEF r
  <2>2. CASE ~copied
    <3> DEFINE n == NewProfile(id, "openai", Standard["openai"])
               r == [n EXCEPT !.unnamed = id # FirstId]
    <3>1. Standard["openai"] \in Connections /\ "openai" \in ProviderIds /\ "openai" \in BuiltIn
      BY DEF Connections, BuiltIn, ProviderIds
    <3>2. /\ n \in Profile /\ n.id = id /\ n.provider = "openai"
          /\ n.memory = NoMemory /\ DOMAIN n.memory = {}
      BY <1>4, <3>1, NewIs
    <3>3. p = r
      BY <2>2 DEF Pristine
    <3> HIDE DEF n, p
    <3>4. r \in Profile /\ r.id = id /\ r.provider = "openai" /\ DOMAIN r.memory = {}
      BY <3>2 DEF Profile
    <3> HIDE DEF r
    <3>5. Loose(r, draft.custom)
      BY <3>1, <3>4 DEF Loose
    <3> QED
      BY <3>3, <3>4, <3>5
  <2> QED
    BY <2>1, <2>2
<1> HIDE DEF p
<1>7. Changed(p, draft.custom)
  BY <1>1, <1>4, <1>5, <1>6 DEF Changed
<1>8. /\ ps \in Seq(Profile) /\ ps # <<>> /\ Distinct(ps)
      /\ \A x \in DOMAIN ps : \/ x \in DOMAIN draft.profiles /\ ps[x] = draft.profiles[x]
                              \/ ps[x] = p
  <2>1. \A y \in DOMAIN draft.profiles : draft.profiles[y].id # p.id
    BY <1>3, <1>6
  <2> QED
    BY <1>3, <1>6, <2>1, AppendIs
<1> HIDE DEF ps
<1>9. \A y \in DOMAIN draft.profiles : Changed(draft.profiles[y], draft.custom)
  <2> TAKE y \in DOMAIN draft.profiles
  <2>1. draft.profiles[y].provider \in BuiltIn \cup draft.custom
    BY <1>1, DraftParts DEF Loose
  <2> QED
    BY <1>1, <1>4, <2>1, SameProfile
<1>10. \A x \in DOMAIN ps : Changed(ps[x], draft.custom)
  BY <1>7, <1>8, <1>9
<1>11. s = SettingsOf(ps, id, draft.custom)
  <2>1. \A x, y : [draft EXCEPT !.profiles = x, !.active = y] = SettingsOf(x, y, draft.custom)
    BY <1>3, SettingsAre
  <2> QED
    BY <2>1
<1>12. lastId' \in ProfileIds /\ WindowCommit(SettingsOf(ps, id, draft.custom))
  BY <1>1, <1>4, <1>11
<1> HIDE DEF s, id
<1> QED
  BY <1>3, <1>4, <1>8, <1>10, <1>12, ListCommit

-----------------------------------------------------------------------------
(* The theorem. *)

LEMMA ProfilesNextKeeps == ASSUME ProfilesInv, GoodImports, ProfilesNext PROVE ProfilesInv'
<1>1. ASSUME NEW i \in Imports,
             OpenLink(i, TRUE) \/ OpenLink(i, FALSE) \/ ConfiguredArrives(i)
             \/ ImportFile(i) \/ Pasted(i)
      PROVE  ProfilesInv'
  <2>1. CASE OpenLink(i, TRUE)
    BY <2>1, OpenLinkKeeps
  <2>2. CASE OpenLink(i, FALSE)
    BY <2>2, OpenLinkKeeps
  <2> QED
    BY <1>1, <2>1, <2>2, ConfiguredKeeps, ImportFileKeeps, PastedKeeps
<1>2. ASSUME NEW id \in ProfileIds, ReuseProfile(id) \/ ChooseProfile(id) \/ DeleteProfile(id)
      PROVE  ProfilesInv'
  BY <1>2, OthersKeep, ChooseProfileKeeps, DeleteProfileKeeps
<1>3. CASE ConfiguredFails \/ ClearConfig \/ OpenWindow \/ CloseWindow \/ BlurField
  BY <1>3, OthersKeep, ClearConfigKeeps, OpenWindowKeeps, CommitDraftKeeps
<1>4. ASSUME NEW conn \in TypedConnections, TypeConnection(conn) PROVE ProfilesInv'
  BY <1>4, TypeKeeps
<1>5. ASSUME NEW q \in ProviderIds, ChooseProvider(q) \/ DeleteProvider(q) PROVE ProfilesInv'
  BY <1>5, ChooseProviderKeeps, DeleteProviderKeeps
<1>6. ASSUME NEW copied \in BOOLEAN, AddProfile(copied) PROVE ProfilesInv'
  BY <1>6, AddProfileKeeps
<1>7. ASSUME NEW i \in ProfileIds, NEW j \in ProfileIds, MoveProfile(i, j) PROVE ProfilesInv'
  BY <1>7, MoveProfileKeeps
<1>8. ASSUME NEW kind \in PromptKinds, AskBrowser(kind) PROVE ProfilesInv'
  BY <1>8, OthersKeep
<1>9. CASE PermissionGiven \/ PromptRefused
  BY <1>9, PermissionKeeps, OthersKeep
<1> QED
  BY <1>1, <1>2, <1>3, <1>4, <1>5, <1>6, <1>7, <1>8, <1>9 DEF ProfilesNext

LEMMA ProfilesStay == ASSUME ProfilesInv, UNCHANGED profileVars PROVE ProfilesInv'
  BY QuietKeeps DEF profileVars

LEMMA InvKeeps == ProfilesInv => ProfilesAreKept
<1> SUFFICES ASSUME ProfilesInv, ~showing PROVE
        /\ DOMAIN entered = IdsIn(settings)
        /\ Cardinality(IdsIn(settings)) = Len(settings.profiles)
        /\ \A id \in IdsIn(settings) :
            /\ Of(settings, id).provider \in BuiltIn \cup settings.custom
            /\ \A q \in DOMAIN entered[id] :
                /\ q \in DOMAIN Of(settings, id).memory \cup {Of(settings, id).provider}
                /\ ConnectionOf(Of(settings, id), q) = entered[id][q]
  BY DEF ProfilesAreKept
<1>1. Sane(settings) /\ AgreesWith(settings, entered) /\ Completes(settings)
  BY DEF ProfilesInv, DraftInv, WindowInv, Ready
<1>2. Committable(settings)
  BY <1>1 DEF Sane
<1>3. Cardinality(IdsIn(settings)) = Len(settings.profiles) /\ DOMAIN entered = IdsIn(settings)
  BY <1>1, <1>2, IdsCounted DEF AgreesWith
<1>4. ASSUME NEW id \in IdsIn(settings)
      PROVE  /\ Of(settings, id).provider \in BuiltIn \cup settings.custom
             /\ \A q \in DOMAIN entered[id] :
                 /\ q \in DOMAIN Of(settings, id).memory \cup {Of(settings, id).provider}
                 /\ ConnectionOf(Of(settings, id), q) = entered[id][q]
  <2>1. PICK i \in DOMAIN settings.profiles :
           settings.profiles[i].id = id /\ settings.profiles[i] = Of(settings, id)
    BY <1>2, IdsAre
  <2> DEFINE p == Of(settings, id)
  <2>2. Sound(p, settings.custom) /\ Given(p.provider, p.conn) /\ KeptBy(p, entered[id])
    BY <1>1, <2>1 DEF Sane, Completes, AgreesWith
  <2>3. p \in Profile /\ p.provider \in BuiltIn \cup settings.custom
    BY <2>2 DEF Sound, Loose
  <2>4. Completed(p) = p
    BY <2>2, <2>3, CompletedIs
  <2> QED
    BY <2>2, <2>3, <2>4 DEF KeptBy
<1> QED
  BY <1>3, <1>4

\* While the window is closed the store holds exactly the profiles that were
\* made or imported and not deleted, and each gives for every provider what
\* was last entered there, for any providers, connections and imports and in
\* any order of edits, imports and answers of the browser: the draft that a
\* late answer commits costs what was done since its click to the profiles
\* it differs in, and an import that comes into an open window is lost, but
\* nothing else is.  Imports carry a connection and a provider that exists.
THEOREM KeptHolds == GoodImports => (ProfilesSpec => []ProfilesAreKept)
<1> SUFFICES ASSUME GoodImports PROVE ProfilesSpec => []ProfilesAreKept
  OBVIOUS
<1>1. ProfilesInit => ProfilesInv
  BY ProfilesInitially
<1>2. ProfilesInv /\ [ProfilesNext]_profileVars => ProfilesInv'
  BY ProfilesNextKeeps, ProfilesStay
<1>3. ProfilesInv => ProfilesAreKept
  BY InvKeeps
<1> QED
  BY <1>1, <1>2, <1>3, PTL DEF ProfilesSpec

-----------------------------------------------------------------------------
(* The types.  ProfilesInv describes the settings, the draft and the draft   *)
(* a prompt has seen; the rest is ProfilesTyped.                             *)

TypedSettings(s) ==
    /\ \A i \in DOMAIN s.profiles : s.profiles[i] \in Profile
    /\ s.active \in IdsIn(s) /\ s.custom \subseteq CustomProviders

TypedEntries(e) == \A id \in DOMAIN e : e[id] \in Memories

ProfilesTyped ==
    /\ showing \in BOOLEAN /\ typing \in BOOLEAN /\ reusedId \in {0} \cup ProfileIds
    /\ prompt.kind \in PromptKinds \cup {"none"}
    /\ configured \in {"none", "awaited", "merged", "failed"}
    /\ edits \in 0 .. MaxEdits /\ TypedEntries(entered)

LEMMA SaneTyped == ASSUME NEW s, Sane(s) PROVE TypedSettings(s)
<1>1. Committable(s) /\ s.active \in IdsIn(s)
  BY DEF Sane
<1> QED
  BY <1>1, ShapeOf DEF TypedSettings

LEMMA SaneProfile == ASSUME NEW s, Sane(s), NEW id \in IdsIn(s) PROVE Of(s, id) \in Profile
<1>1. Committable(s)
  BY DEF Sane
<1>2. PICK i \in DOMAIN s.profiles : s.profiles[i] = Of(s, id)
  BY <1>1, IdsAre
<1> QED
  BY <1>1, <1>2, ShapeOf

LEMMA NothingRemembered == NoMemory \in Memories
<1>1. NoMemory \in [{} -> Connections]
  BY DEF NoMemory
<1>2. {} \in SUBSET ProviderIds
  OBVIOUS
<1> QED
  BY <1>1, <1>2, MemoryParts

\* Enter and EnterImport record memories.
LEMMA EnterTyped ==
    ASSUME NEW s, Sane(s), TypedEntries(entered), Enter(s)
    PROVE  TypedEntries(entered')
<1>1. DOMAIN entered' = IdsIn(s)
  BY DEF Enter
<1>2. ASSUME NEW id \in IdsIn(s) PROVE entered'[id] \in Memories
  <2> DEFINE p == Of(s, id)
             m == entered[id]
             known == DOMAIN m \cap (BuiltIn \cup s.custom)
             left == [q \in known |-> m[q]]
  <2>1. p \in Profile
    BY <1>2, SaneProfile
  <2>2. p.provider \in ProviderIds /\ p.conn \in Connections /\ p.memory \in Memories
    BY <2>1, ProfileParts
  <2>3. CASE id \in DOMAIN entered
    <3>1. m \in Memories
      BY <2>3 DEF TypedEntries
    <3>2. PICK all \in SUBSET ProviderIds : m \in [all -> Connections]
      BY <3>1, MemoryParts
    <3>3. known \in SUBSET ProviderIds /\ left \in [known -> Connections]
      BY <3>2
    <3>4. left \in Memories
      BY <3>3, MemoryParts
    <3>5. entered'[id] = left \/ entered'[id] = Remember(left, p.provider, p.conn)
      BY <1>2, <2>3 DEF Enter
    <3> HIDE DEF left, p
    <3> QED
      BY <2>2, <3>4, <3>5, RememberType
  <2>4. CASE id \notin DOMAIN entered
    <3>1. entered'[id] = Remember(p.memory, p.provider, p.conn)
      BY <1>2, <2>4 DEF Enter
    <3> HIDE DEF p
    <3> QED
      BY <2>2, <3>1, RememberType
  <2> QED
    BY <2>3, <2>4
<1> QED
  BY <1>1, <1>2 DEF TypedEntries

LEMMA EnterImportTyped ==
    ASSUME NEW s, Sane(s), NEW old, TypedEntries(old), NEW fresh, EnterImport(s, fresh, old)
    PROVE  TypedEntries(entered')
<1>1. DOMAIN entered' = IdsIn(s)
  BY DEF EnterImport
<1>2. ASSUME NEW id \in IdsIn(s) PROVE entered'[id] \in Memories
  <2> DEFINE p == Of(s, id)
  <2>1. p \in Profile
    BY <1>2, SaneProfile
  <2>2. p.provider \in ProviderIds /\ p.conn \in Connections
    BY <2>1, ProfileParts
  <2>3. \/ entered'[id] = Remember(NoMemory, p.provider, p.conn)
        \/ id \in DOMAIN old /\ entered'[id] = old[id]
    BY <1>2 DEF EnterImport
  <2> HIDE DEF p
  <2>4. CASE entered'[id] = Remember(NoMemory, p.provider, p.conn)
    BY <2>2, <2>4, NothingRemembered, RememberType
  <2>5. CASE id \in DOMAIN old /\ entered'[id] = old[id]
    BY <2>5 DEF TypedEntries
  <2> QED
    BY <2>3, <2>4, <2>5
<1> QED
  BY <1>1, <1>2 DEF TypedEntries

LEMMA RecordedTyped ==
    ASSUME NEW s, Sane(s), TypedEntries(entered), DOMAIN entered = IdsIn(draft)
    PROVE  TypedEntries(Recorded(s))
<1> DEFINE r == Recorded(s)
<1>1. DOMAIN r = IdsIn(s)
  BY DEF Recorded
<1>2. ASSUME NEW id \in IdsIn(s) PROVE r[id] \in Memories
  <2> DEFINE p == Of(s, id)
  <2>1. p \in Profile
    BY <1>2, SaneProfile
  <2>2. p.provider \in ProviderIds /\ p.conn \in Connections /\ p.memory \in Memories
    BY <2>1, ProfileParts
  <2>3. \/ id \in IdsIn(draft) /\ r[id] = entered[id]
        \/ r[id] = Remember(p.memory, p.provider, p.conn)
    BY <1>2 DEF Recorded
  <2> HIDE DEF p, r
  <2>4. CASE id \in IdsIn(draft) /\ r[id] = entered[id]
    BY <2>4 DEF TypedEntries
  <2>5. CASE r[id] = Remember(p.memory, p.provider, p.conn)
    BY <2>2, <2>5, RememberType
  <2> QED
    BY <2>3, <2>4, <2>5
<1> HIDE DEF r
<1>3. TypedEntries(r)
  BY <1>1, <1>2 DEF TypedEntries
<1> QED
  BY <1>3 DEF r

\* What a handler does to the record, and to the rest.
Records ==
    \/ entered' = entered
    \/ Enter(draft')
    \/ entered' = Recorded(prompt.seen)
    \/ \E fresh : \/ EnterImport(draft', fresh, Recorded(settings))
                  \/ EnterImport(draft', fresh, Recorded(prompt.seen))
                  \/ EnterImport(draft', fresh, entered)

Counts ==
    /\ edits' = edits \/ Edit
    /\ reusedId' \in {0, reusedId} \cup ProfileIds
    /\ configured' \in {configured, "merged", "failed"}
    /\ prompt'.kind \in PromptKinds \cup {"none", prompt.kind}
    /\ showing' \in {TRUE, FALSE, showing} /\ typing' \in {TRUE, FALSE, typing}

LEMMA EditTyped == ASSUME edits \in 0 .. MaxEdits, Edit PROVE edits' \in 0 .. MaxEdits
<1>1. MaxEdits \in Nat
  BY WebProfilesAssumption
<1> QED
  BY <1>1 DEF Edit

\* Such a handler keeps the types when it keeps ProfilesInv.
LEMMA RecordsTyped ==
    ASSUME ProfilesInv, ProfilesInv', ProfilesTyped, Counts, Records \/ TypedEntries(entered')
    PROVE  ProfilesTyped'
<1>1. Sane(draft') /\ Sane(settings) /\ Sane(prompt.seen) /\ DOMAIN entered = IdsIn(draft)
  BY DEF ProfilesInv, DraftInv, WindowInv, Ready, AgreesWith
<1>2. TypedEntries(entered)
  BY DEF ProfilesTyped
<1>3. TypedEntries(Recorded(settings)) /\ TypedEntries(Recorded(prompt.seen))
  BY <1>1, <1>2, RecordedTyped
<1>4. TypedEntries(entered')
  <2>1. CASE entered' = entered \/ entered' = Recorded(prompt.seen)
    BY <1>2, <1>3, <2>1
  <2>2. CASE Enter(draft')
    BY <1>1, <1>2, <2>2, EnterTyped
  <2>3. ASSUME NEW fresh, NEW old, TypedEntries(old), EnterImport(draft', fresh, old)
        PROVE  TypedEntries(entered')
    BY <1>1, <2>3, EnterImportTyped
  <2>4. CASE \E fresh : \/ EnterImport(draft', fresh, Recorded(settings))
                        \/ EnterImport(draft', fresh, Recorded(prompt.seen))
                        \/ EnterImport(draft', fresh, entered)
    <3>1. PICK fresh : \/ EnterImport(draft', fresh, Recorded(settings))
                       \/ EnterImport(draft', fresh, Recorded(prompt.seen))
                       \/ EnterImport(draft', fresh, entered)
      BY <2>4
    <3> QED
      BY <1>2, <1>3, <2>3, <3>1
  <2> QED
    BY <2>1, <2>2, <2>4 DEF Records
<1>5. edits' \in 0 .. MaxEdits
  BY EditTyped DEF Counts, ProfilesTyped
<1>6. /\ reusedId' \in {0} \cup ProfileIds
      /\ prompt'.kind \in PromptKinds \cup {"none"}
      /\ configured' \in {"none", "awaited", "merged", "failed"}
      /\ showing' \in BOOLEAN /\ typing' \in BOOLEAN
  BY DEF Counts, ProfilesTyped
<1> QED
  BY <1>4, <1>5, <1>6 DEF ProfilesTyped

-----------------------------------------------------------------------------
(* The handlers *)

LEMMA CommitsRecord ==
    ASSUME NEW s, Commits(s), lastId' = lastId
    PROVE  Counts /\ Records
<1>1. /\ prompt' = prompt /\ Edit /\ typing' = FALSE
      /\ showing' = showing /\ configured' = configured /\ draft' = Committed(s)
      /\ Enter(Committed(s))
      /\ reusedId' = 0 \/ reusedId' = reusedId
  BY DEF Commits, CommitSettings, ForgetsReused
<1> QED
  BY <1>1 DEF Counts, Records

LEMMA ImportsRecord ==
    ASSUME NEW i, OpenLink(i, TRUE) \/ OpenLink(i, FALSE) \/ ImportFile(i) \/ Pasted(i)
                  \/ ConfiguredArrives(i)
    PROVE  Counts /\ Records
<1>1. /\ (edits' = edits \/ Edit) /\ typing' \in {FALSE, typing}
      /\ showing' = showing /\ configured' \in {configured, "merged"}
      /\ prompt' = prompt \/ prompt' = NoPrompt
      /\ reusedId' = 0 \/ reusedId' = reusedId
  <2>1. CASE OpenLink(i, TRUE) \/ OpenLink(i, FALSE)
    BY <2>1 DEF OpenLink, ForgetsReused
  <2>2. CASE ImportFile(i)
    BY <2>2 DEF ImportFile, ForgetsReused
  <2>3. CASE Pasted(i)
    BY <2>3, Zenon DEF Pasted, ForgetsReused
  <2>4. CASE ConfiguredArrives(i)
    BY <2>4 DEF ConfiguredArrives, ForgetsReused
  <2> QED
    BY <2>1, <2>2, <2>3, <2>4
<1>2. Records
  <2>1. ASSUME NEW single \in BOOLEAN, OpenLink(i, single) PROVE Records
    <3> DEFINE merged == IF single THEN Added(settings, i, lastId + 1)
                         ELSE Merged(settings, i, lastId + 1)
               s == Normal(WithImportActive(merged, i))
    <3>1. draft' = s /\ EnterImport(s, IF single THEN {} ELSE Replaced(settings), Recorded(settings))
      BY <2>1, Zenon DEF OpenLink
    <3> HIDE DEF s
    <3> QED
      BY <3>1, Zenon DEF Records
  <2>2. ASSUME ImportFile(i) PROVE Records
    <3> DEFINE s == Normal(Merged(settings, i, lastId + 1))
    <3>1. draft' = s /\ EnterImport(s, Replaced(settings), Recorded(settings))
      BY <2>2, Zenon DEF ImportFile
    <3> HIDE DEF s
    <3> QED
      BY <3>1, Zenon DEF Records
  <2>3. ASSUME ConfiguredArrives(i) PROVE Records
    <3> DEFINE s == Normal(Merged(settings, i, lastId + 1))
    <3>1. \/ entered' = entered
          \/ draft' = s /\ EnterImport(s, Replaced(settings), Recorded(settings))
      BY <2>3, Zenon DEF ConfiguredArrives
    <3> HIDE DEF s
    <3> QED
      BY <3>1, Zenon DEF Records
  <2>4. ASSUME Pasted(i) PROVE Records
    <3> DEFINE was == prompt.seen
               merged == Merged(was, i, lastId + 1)
               over == ~OnlyDefault(was) /\ Equivalents(was, i) = {} /\ IsPristine(ActiveOf(was))
               s == Normal(
                    IF over THEN [WithProfile(was, NewProfile(was.active, i.provider, i.conn))
                                  EXCEPT !.custom = merged.custom]
                    ELSE WithImportActive(merged, i))
    <3>1. draft' = s
          /\ EnterImport(s, IF over THEN {was.active} ELSE Replaced(was), Recorded(was))
      BY <2>4, Zenon DEF Pasted
    <3> HIDE DEF s, over
    <3> QED
      BY <3>1, Zenon DEF Records
  <2> QED
    BY <2>1, <2>2, <2>3, <2>4
<1>3. prompt'.kind \in {"none", prompt.kind}
  BY <1>1 DEF NoPrompt
<1>4. Counts
  BY <1>1, <1>3 DEF Counts
<1> QED
  BY <1>2, <1>4

LEMMA ListHandlersRecord ==
    ASSUME NEW id \in ProfileIds, NEW copied, NEW q, NEW i, NEW j,
           \/ ReuseProfile(id) \/ ChooseProfile(id) \/ DeleteProfile(id) \/ AddProfile(copied)
           \/ ChooseProvider(q) \/ DeleteProvider(q) \/ MoveProfile(i, j)
    PROVE  Counts /\ Records
<1>1. CASE ReuseProfile(id)
  BY <1>1 DEF ReuseProfile, Counts, Records
<1>2. CASE ChooseProfile(id)
  BY <1>2 DEF ChooseProfile, CommitSettings, Counts, Records
<1>3. CASE DeleteProfile(id)
  <2> DEFINE left == RemoveAt(draft.profiles, IndexOf(draft, id))
             s    == [draft EXCEPT !.profiles = left,
                                   !.active = IF @ = id THEN left[1].id ELSE @]
  <2>1. /\ CommitSettings(s) /\ Enter(Committed(s))
        /\ Edit /\ reusedId' = (IF id = reusedId THEN 0 ELSE reusedId)
        /\ UNCHANGED <<showing, prompt, configured>>
    BY <1>3, Zenon DEF DeleteProfile
  <2> HIDE DEF s
  <2> QED
    BY <2>1 DEF CommitSettings, Counts, Records
<1>4. CASE AddProfile(copied)
  <2> DEFINE p == IF copied THEN [ActiveOf(draft) EXCEPT !.id = lastId + 1, !.unnamed = FALSE]
                  ELSE Pristine(lastId + 1)
             s == [draft EXCEPT !.profiles = Append(@, p), !.active = lastId + 1]
  <2>1. /\ CommitSettings(s) /\ Enter(Committed(s)) /\ Edit /\ reusedId' = 0
        /\ UNCHANGED <<showing, prompt, configured>>
    BY <1>4, Zenon DEF AddProfile
  <2> HIDE DEF s
  <2> QED
    BY <2>1 DEF CommitSettings, Counts, Records
<1>5. CASE ChooseProvider(q)
  BY <1>5, CommitsRecord DEF ChooseProvider
<1>6. CASE DeleteProvider(q)
  BY <1>6, CommitsRecord DEF DeleteProvider
<1>7. CASE MoveProfile(i, j)
  BY <1>7, CommitsRecord DEF MoveProfile
<1> QED
  BY <1>1, <1>2, <1>3, <1>4, <1>5, <1>6, <1>7

LEMMA ClearRecords == ASSUME ClearConfig PROVE Counts /\ Records
  BY DEF ClearConfig, ForgetsReused, Counts, Records

LEMMA WindowHandlersRecord ==
    ASSUME NEW kind \in PromptKinds,
           \/ ConfiguredFails \/ OpenWindow \/ CloseWindow \/ BlurField
           \/ AskBrowser(kind) \/ PermissionGiven \/ PromptRefused
    PROVE  Counts /\ Records
<1>0. NoPrompt.kind = "none"
  BY DEF NoPrompt
<1>1. CASE ConfiguredFails
  BY <1>1 DEF ConfiguredFails, Counts, Records
<1>2. CASE OpenWindow
  BY <1>2 DEF OpenWindow, Counts, Records
<1>3. CASE CloseWindow
  BY <1>3 DEF CloseWindow, CommitSettings, ForgetsReused, Counts, Records
<1>4. CASE BlurField
  BY <1>4 DEF BlurField, CommitSettings, ForgetsReused, Counts, Records
<1>5. CASE AskBrowser(kind)
  BY <1>5 DEF AskBrowser, Counts, Records
<1>6. CASE PermissionGiven
  BY <1>0, <1>6 DEF PermissionGiven, CommitSettings, ForgetsReused, Counts, Records
<1>7. CASE PromptRefused
  BY <1>0, <1>7 DEF PromptRefused, Counts, Records
<1> QED
  BY <1>1, <1>2, <1>3, <1>4, <1>5, <1>6, <1>7

\* What is typed is entered for the provider of the active profile.
LEMMA TypingRecords ==
    ASSUME ProfilesInv, ProfilesTyped, NEW conn \in TypedConnections, TypeConnection(conn)
    PROVE  Counts /\ TypedEntries(entered')
<1> DEFINE a == ActiveOf(draft)
           p == [a EXCEPT !.conn = conn]
<1>1. Sane(draft)
  BY DEF ProfilesInv, DraftInv
<1>2. a \in Profile
  BY <1>1, SaneProfile DEF ActiveOf, Sane
<1>3. conn \in Connections
  BY DEF Connections
<1>4. p \in Profile
  <2> HIDE DEF a
  <2> QED
    BY <1>2, <1>3 DEF Profile
<1>5. entered' = [entered EXCEPT ![p.id] = Remember(@, p.provider, Completed(p).conn)]
  BY DEF TypeConnection
<1> HIDE DEF p
<1>6. p.provider \in ProviderIds /\ Completed(p).conn \in Connections
  BY <1>4, CompletedIs, ProfileParts
<1>7. TypedEntries(entered')
  <2>1. ASSUME NEW id \in DOMAIN entered PROVE entered'[id] \in Memories
    <3>1. entered[id] \in Memories
      BY <2>1 DEF ProfilesTyped, TypedEntries
    <3>2. \/ entered'[id] = Remember(entered[id], p.provider, Completed(p).conn)
          \/ entered'[id] = entered[id]
      BY <1>5, <2>1
    <3> QED
      BY <1>6, <3>1, <3>2, RememberType
  <2>2. DOMAIN entered' = DOMAIN entered
    BY <1>5
  <2> QED
    BY <2>1, <2>2 DEF TypedEntries
<1> QED
  BY <1>7 DEF TypeConnection, Counts

LEMMA ProfilesTypedNext ==
    ASSUME ProfilesInv, ProfilesInv', ProfilesTyped, ProfilesNext
    PROVE  ProfilesTyped'
<1>1. ASSUME NEW i \in Imports, OpenLink(i, TRUE) \/ OpenLink(i, FALSE) \/ ConfiguredArrives(i)
                                \/ ImportFile(i) \/ Pasted(i)
      PROVE  ProfilesTyped'
  BY <1>1, ImportsRecord, RecordsTyped
<1>2. ASSUME NEW id \in ProfileIds, ReuseProfile(id) \/ ChooseProfile(id) \/ DeleteProfile(id)
      PROVE  ProfilesTyped'
  BY <1>2, ListHandlersRecord, RecordsTyped
<1>3. ASSUME NEW q \in ProviderIds, ChooseProvider(q) \/ DeleteProvider(q) PROVE ProfilesTyped'
  BY <1>3, FirstIdIs, ListHandlersRecord, RecordsTyped
<1>4. ASSUME NEW copied \in BOOLEAN, AddProfile(copied) PROVE ProfilesTyped'
  BY <1>4, FirstIdIs, ListHandlersRecord, RecordsTyped
<1>5. ASSUME NEW i \in ProfileIds, NEW j \in ProfileIds, MoveProfile(i, j) PROVE ProfilesTyped'
  BY <1>5, ListHandlersRecord, RecordsTyped
<1>6. ASSUME NEW conn \in TypedConnections, TypeConnection(conn) PROVE ProfilesTyped'
  BY <1>6, TypingRecords, RecordsTyped
<1>7. ASSUME NEW kind \in PromptKinds, AskBrowser(kind) PROVE ProfilesTyped'
  BY <1>7, WindowHandlersRecord, RecordsTyped
<1>8. CASE ConfiguredFails \/ OpenWindow \/ CloseWindow \/ BlurField
           \/ PermissionGiven \/ PromptRefused
  <2>1. "notify" \in PromptKinds
    BY DEF PromptKinds
  <2> QED
    BY <1>8, <2>1, WindowHandlersRecord, RecordsTyped
<1>9. CASE ClearConfig
  BY <1>9, ClearRecords, RecordsTyped
<1> QED
  BY <1>1, <1>2, <1>3, <1>4, <1>5, <1>6, <1>7, <1>8, <1>9 DEF ProfilesNext

LEMMA ProfilesTypes ==
    /\ ProfilesInit => ProfilesInv /\ ProfilesTyped
    /\ GoodImports /\ ProfilesInv /\ ProfilesTyped /\ [ProfilesNext]_profileVars
          => ProfilesInv' /\ ProfilesTyped'
    /\ ProfilesInv /\ ProfilesTyped => ProfilesTypeOK
<1>1. ASSUME ProfilesInit PROVE ProfilesInv /\ ProfilesTyped
  <2> DEFINE o == [q \in {"openai"} |-> Standard["openai"]]
  <2>1. o \in Memories
    <3>1. Standard["openai"] \in Connections /\ {"openai"} \in SUBSET ProviderIds
      BY DEF Connections, BuiltIn, ProviderIds
    <3>2. o \in [{"openai"} -> Connections]
      BY <3>1
    <3> QED
      BY <3>1, <3>2, MemoryParts
  <2>2. entered = [id \in {FirstId} |-> o]
    BY <1>1 DEF ProfilesInit
  <2> HIDE DEF o
  <2>3. TypedEntries(entered)
    BY <2>1, <2>2 DEF TypedEntries
  <2>4. edits \in 0 .. MaxEdits
    <3>1. MaxEdits \in Nat /\ edits = 0
      BY <1>1, WebProfilesAssumption DEF ProfilesInit
    <3> QED
      BY <3>1
  <2>5. ProfilesTyped
    BY <1>1, <2>3, <2>4 DEF ProfilesInit, ProfilesTyped, NoPrompt
  <2> QED
    BY <1>1, <2>5, ProfilesInitially
<1>2. ASSUME GoodImports, ProfilesInv, ProfilesTyped, ProfilesNext PROVE ProfilesInv' /\ ProfilesTyped'
  BY <1>2, ProfilesNextKeeps, ProfilesTypedNext
<1>3. ASSUME ProfilesInv, ProfilesTyped, UNCHANGED profileVars PROVE ProfilesInv' /\ ProfilesTyped'
  BY <1>3, ProfilesStay DEF profileVars, ProfilesTyped
<1>4. ASSUME ProfilesInv, ProfilesTyped PROVE ProfilesTypeOK
  <2>1. Sane(settings) /\ Sane(draft) /\ Sane(prompt.seen) /\ lastId \in ProfileIds
    BY <1>4 DEF ProfilesInv, DraftInv, WindowInv, Ready
  <2>2. TypedSettings(settings) /\ TypedSettings(draft) /\ TypedSettings(prompt.seen)
    BY <2>1, SaneTyped
  <2> QED
    BY <1>4, <2>1, <2>2 DEF ProfilesTyped, ProfilesTypeOK, TypedSettings, TypedEntries
<1> QED
  BY <1>1, <1>2, <1>3, <1>4

=============================================================================
