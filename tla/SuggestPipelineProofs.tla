------------------------ MODULE SuggestPipelineProofs ------------------------
(***************************************************************************)
(* From PATH and the corpus to the suggestion, for any corpus, PATH, query *)
(* and score.  The inventory agrees with the shell whatever installers     *)
(* change during the scan (ScanInv); the catalog is what the pages give,   *)
(* in any order (BuildInv); the list is the best of the ranking and keeps  *)
(* its warnings (SearchInv).                                               *)
(***************************************************************************)
EXTENDS SuggestPipeline, TLAPS, FiniteSetTheorems, WellFoundedInduction

USE DiscoveryAssumption

File == Dirs \X DOMAIN Files
KnownOf(key) == {Resolution(key)[i] : i \in DOMAIN Resolution(key)}
Here == DirOf[path[scanned]]
Entry(x) == <<x[1], x[2], tree[x[1]][x[2]]>>

ScanType ==
    /\ path \in Seq(DOMAIN DirOf)
    /\ Trees # {}
    /\ tree \in [Dirs -> [DOMAIN Files -> Kinds]]
    /\ scanned \in 0 .. Len(path)
    /\ seen = {DirOf[path[i]] : i \in 1 .. scanned} \ {"empty"}
    /\ DOMAIN shadowed = DOMAIN winners
    /\ \A k \in DOMAIN winners : winners[k].at \in File /\ shadowed[k] \in Seq(File)

\* The listing is of a directory that PATH names here for the first time; of a
\* file that nobody touched it says what is there.
ListingInv ==
    listing # {} =>
       /\ scanned > 0 /\ Here \in Dirs /\ DirState[Here] = "dir"
       /\ \A j \in 1 .. scanned - 1 : DirOf[path[j]] # Here
       /\ scanning /\ ~truncated
       /\ \A x \in listing : \E f \in DOMAIN Files, k \in Kinds \ {"absent"} :
             /\ x = <<Here, f, k>>
             /\ Fold(NameOf(f)) \notin touched => k = tree[Here][f]

\* The scan meets the file x before the file y.
Met(x, y) ==
    \/ x[1] = y[1] /\ x[2] < y[2]
    \/ \E i \in DOMAIN path : /\ DirOf[path[i]] = x[1]
                             /\ \A j \in 1 .. i : DirOf[path[j]] /= y[1]

\* What is known of a key is a beginning of what runs for it, in the scan's order;
\* the rest of what was met is still in the listing.
KeyInv(key) ==
    /\ KnownOf(key) \subseteq {x \in Matches(key) : x[1] \in seen}
    /\ \A i, j \in DOMAIN Resolution(key) :
          i < j => Met(Resolution(key)[i], Resolution(key)[j])
    /\ \A x \in Matches(key) \ KnownOf(key) :
          /\ \A y \in KnownOf(key) : Met(y, x)
          /\ ~truncated /\ x[1] \in seen => Entry(x) \in listing
    /\ \A z \in listing : <<z[1], z[2]>> \notin KnownOf(key)

ScanInv ==
    /\ ScanType
    /\ ListingInv
    /\ \A key \in Keys \ touched : KeyInv(key)
    /\ ~scanning => listing = {} /\ scanned = Len(path)

LEMMA NothingKnown ==
    ASSUME winners = <<>>
    PROVE  \A key : Resolution(key) = <<>> /\ KnownOf(key) = {}
BY DEF Resolution, KnownOf

LEMMA ScanInit == PipelineInit => ScanInv
<1> SUFFICES ASSUME Init PROVE ScanInv
    BY DEF PipelineInit
<1>1. ScanType
    BY DEF Init, ScanType
<1>2. ASSUME NEW key PROVE KeyInv(key)
    <2>1. Resolution(key) = <<>> /\ KnownOf(key) = {} /\ seen = {} /\ listing = {}
        BY NothingKnown DEF Init
    <2>2. QED  BY <2>1 DEF KeyInv
<1>3. QED  BY <1>1, <1>2 DEF Init, ScanInv, ListingInv

\* What the shell would find does not depend on how far the scan is.
LEMMA SameView ==
    ASSUME UNCHANGED <<windows, path, tree>>
    PROVE  /\ Keys' = Keys
           /\ \A key : Matches(key)' = Matches(key)
           /\ \A x, y : Met(x, y)' = Met(x, y)
           /\ \A x : Entry(x)' = Entry(x)
<1>1. Keys' = Keys
    BY DEF Keys, Fold, NameOf
<1>2. \A key : Matches(key)' = Matches(key)
    BY DEF Matches, Fold, NameOf, Invocable
<1>3. QED  BY <1>1, <1>2 DEF Met, Entry

LEMMA SameKnown ==
    ASSUME UNCHANGED <<winners, shadowed>>
    PROVE  \A key : Resolution(key)' = Resolution(key) /\ KnownOf(key)' = KnownOf(key)
BY DEF Resolution, KnownOf

\* The directories that were met are those of the entries done.
LEMMA SeenNext ==
    ASSUME ScanType, scanned < Len(path)
    PROVE  LET d == DirOf[path[scanned + 1]]
           IN /\ d \in Dirs \cup {"empty"}
              /\ seen \cup ({d} \ {"empty"})
                    = {DirOf[path[i]] : i \in 1 .. scanned + 1} \ {"empty"}
<1>1. scanned \in Nat /\ Len(path) \in Nat
    BY DEF ScanType
<1>2. path[scanned + 1] \in DOMAIN DirOf
    BY <1>1 DEF ScanType
<1>3. 1 .. scanned + 1 = (1 .. scanned) \cup {scanned + 1}
    BY <1>1
<1>4. QED  BY <1>1, <1>2, <1>3 DEF ScanType

LEMMA NextEntryStep == ScanInv /\ NextEntry => ScanInv'
<1> SUFFICES ASSUME ScanInv, NextEntry PROVE ScanInv'
    OBVIOUS
<1> DEFINE d == DirOf[path[scanned + 1]]
<1>1. /\ scanning /\ listing = {} /\ scanned < Len(path) /\ scanned' = scanned + 1
      /\ UNCHANGED <<windows, path, tree, touched, scanning, winners, shadowed, truncated>>
      /\ seen' = seen \cup ({d} \ {"empty"})
    BY DEF NextEntry, Skip, diskVars
<1>2. \/ Reason(d) # "none" /\ listing' = {}
      \/ Reason(d) = "none" /\ listing' = Listing(d)
    BY DEF NextEntry, Skip
<1>t. scanned \in Nat /\ Len(path) \in Nat /\ d \in Dirs \cup {"empty"}
    BY <1>1, SeenNext DEF ScanInv, ScanType
<1>3. Reason(d) # "none" => d = "empty" \/ d \in seen \/ DirState[d] # "dir" \/ truncated
    BY DEF Reason
<1>4. Reason(d) = "none" => d \in Dirs /\ d \notin seen /\ ~truncated /\ DirState[d] = "dir"
    BY <1>t DEF Reason
<1>5. ScanType'
    BY <1>1, <1>t, SeenNext DEF ScanInv, ScanType
<1>6. ListingInv'
    <2>1. CASE listing' = {}
        BY <2>1 DEF ListingInv
    <2>2. CASE Reason(d) = "none" /\ listing' = Listing(d)
        <3>1. Here' = d /\ Here' \in Dirs /\ DirState[Here'] = "dir" /\ scanned' > 0
            BY <1>1, <1>4, <1>t, <2>2 DEF Here
        <3>2. \A j \in 1 .. scanned' - 1 : DirOf[path'[j]] # Here'
            BY <1>1, <1>4, <1>t, <2>2, <3>1 DEF ScanInv, ScanType
        <3>3. \A x \in listing' : \E f \in DOMAIN Files, k \in Kinds \ {"absent"} :
                 x = <<Here', f, k>> /\ k = tree'[Here'][f]
            BY <1>1, <1>4, <2>2, <3>1 DEF Listing, ScanInv, ScanType
        <3>4. QED  BY <1>1, <1>4, <2>2, <3>1, <3>2, <3>3 DEF ListingInv
    <2>3. QED  BY <1>2, <2>1, <2>2
<1>7. ASSUME NEW key \in (Keys \ touched)' PROVE KeyInv(key)'
    <2>1. KeyInv(key)
        BY <1>1, <1>7, SameView DEF ScanInv
    <2>2. /\ Matches(key)' = Matches(key) /\ Resolution(key)' = Resolution(key)
          /\ KnownOf(key)' = KnownOf(key)
          /\ \A x, y : Met(x, y)' = Met(x, y)
          /\ \A x : Entry(x)' = Entry(x)
        BY <1>1, SameView, SameKnown
    <2>3. ASSUME NEW x \in Matches(key) \ KnownOf(key), ~truncated, x[1] \in seen'
          PROVE  Entry(x) \in listing'
        <3>1. x[1] \notin seen
            BY <1>1, <2>1, <2>3 DEF KeyInv
        <3>2. x[1] = d /\ d \in Dirs /\ DirState[d] = "dir" /\ x[2] \in DOMAIN Files
              /\ tree[d][x[2]] \in {"program", "hollow"}
            BY <1>1, <2>3, <3>1 DEF Matches
        <3>3. Reason(d) = "none"
            BY <1>3, <2>3, <3>1, <3>2
        <3>4. QED  BY <1>2, <3>2, <3>3 DEF Listing, Entry
    <2>4. ASSUME NEW z \in listing' PROVE <<z[1], z[2]>> \notin KnownOf(key)
        <3>1. z[1] = d /\ d \notin seen
            BY <1>2, <1>4, <2>4 DEF Listing
        <3>2. QED  BY <2>1, <3>1 DEF KeyInv
    <2>5. QED  BY <1>1, <2>1, <2>2, <2>3, <2>4 DEF KeyInv
<1>8. QED  BY <1>1, <1>5, <1>6, <1>7 DEF ScanInv


\* A match is known of its own key k, after all that was, and of no other.
LEMMA RecordEffect ==
    ASSUME ScanType, UNCHANGED windows, NEW f \in DOMAIN Files, NEW k, k = Fold(NameOf(f)),
           NEW at \in File, NEW kind, Record(f, at, kind)
    PROVE  /\ Resolution(k)' = Append(Resolution(k), at)
           /\ Resolution(k) \in Seq(File)
           /\ \A key : key # k => Resolution(key)' = Resolution(key)
           /\ DOMAIN shadowed' = DOMAIN winners'
           /\ \A key \in DOMAIN winners' :
                 winners'[key].at \in File /\ shadowed'[key] \in Seq(File)
<1> DEFINE w == [name |-> NameOf(f), at |-> at,
                 kind |-> IF kind = "hollow" THEN "stub" ELSE "executable"]
<1>0. w.at = at
    OBVIOUS
<1> HIDE DEF w
<1>1. CASE k \in DOMAIN winners
    <2>1. winners[k].at \in File /\ shadowed[k] \in Seq(File)
        BY <1>1 DEF ScanType
    <2>2. UNCHANGED winners /\ shadowed' = With(shadowed, k, Append(shadowed[k], at))
        BY <1>1 DEF Record
    <2>3. /\ DOMAIN shadowed' = DOMAIN shadowed /\ shadowed'[k] = Append(shadowed[k], at)
          /\ \A key \in DOMAIN winners : key # k => shadowed'[key] = shadowed[key]
        BY <1>1, <2>2 DEF ScanType, With
    <2>4. \A a \in File, s \in Seq(File) :
             /\ <<a>> \o Append(s, at) = Append(<<a>> \o s, at)
             /\ <<a>> \o s \in Seq(File) /\ Append(s, at) \in Seq(File)
        OBVIOUS
    <2>5. /\ Resolution(k) = <<winners[k].at>> \o shadowed[k]
          /\ Resolution(k)' = <<winners[k].at>> \o Append(shadowed[k], at)
        BY <1>1, <2>2, <2>3 DEF Resolution
    <2>6. \A key : key # k => Resolution(key)' = Resolution(key)
        BY <2>2, <2>3 DEF Resolution
    <2>7. /\ Resolution(k)' = Append(Resolution(k), at) /\ Resolution(k) \in Seq(File)
          /\ Append(shadowed[k], at) \in Seq(File)
        BY <2>1, <2>4, <2>5
    <2>8. \A key \in DOMAIN winners' :
             winners'[key].at \in File /\ shadowed'[key] \in Seq(File)
        BY <2>2, <2>3, <2>7 DEF ScanType
    <2>9. DOMAIN shadowed' = DOMAIN winners'
        BY <2>2, <2>3 DEF ScanType
    <2>10. QED  BY <2>6, <2>7, <2>8, <2>9
<1>2. CASE k \notin DOMAIN winners
    <2>1. winners' = With(winners, k, w) /\ shadowed' = With(shadowed, k, <<>>)
        BY <1>2 DEF Record, w
    <2>2. /\ DOMAIN winners' = DOMAIN winners \cup {k} /\ winners'[k] = w
          /\ \A key \in DOMAIN winners : winners'[key] = winners[key]
        BY <1>2, <2>1 DEF With
    <2>3. /\ DOMAIN shadowed' = DOMAIN winners \cup {k} /\ shadowed'[k] = <<>>
          /\ \A key \in DOMAIN winners : shadowed'[key] = shadowed[key]
        BY <1>2, <2>1 DEF ScanType, With
    <2>4. Resolution(k) = <<>> /\ Resolution(k)' = <<at>>
        <3>1. <<at>> \o <<>> = <<at>>
            OBVIOUS
        <3>2. QED  BY <1>0, <1>2, <2>2, <2>3, <3>1 DEF Resolution
    <2>5. \A key : key # k => Resolution(key)' = Resolution(key)
        BY <2>2, <2>3 DEF Resolution
    <2>6. <<>> \in Seq(File) /\ Append(<<>>, at) = <<at>>
        OBVIOUS
    <2>7. QED  BY <1>0, <2>2, <2>3, <2>4, <2>5, <2>6 DEF ScanType
<1>3. QED  BY <1>1, <1>2

\* In a state of the scan, what the listing says of a file.
LEMMA Listed ==
    ASSUME ScanInv, NEW x \in listing
    PROVE  /\ x[1] = Here /\ Here \in Dirs /\ x[2] \in DOMAIN Files
           /\ x = <<x[1], x[2], x[3]>> /\ x[3] \in Kinds \ {"absent"}
           /\ Fold(NameOf(x[2])) \notin touched => x[3] = tree[x[1]][x[2]]
           /\ DirState[Here] = "dir" /\ scanned > 0 /\ ~truncated
           /\ \A j \in 1 .. scanned - 1 : DirOf[path[j]] # Here
BY DEF ScanInv, ListingInv

\* The scan is cut short: what was met and is not known comes after all that is.
LEMMA CutStep ==
    ASSUME ScanInv, scanning, truncated', listing' = {},
           UNCHANGED <<windows, path, tree, touched, scanning, winners, shadowed,
                       scanned, seen>>
    PROVE  ScanInv'
<1>1. ScanType' /\ ListingInv'
    BY DEF ScanInv, ScanType, ListingInv
<1>2. ASSUME NEW key \in (Keys \ touched)' PROVE KeyInv(key)'
    <2>1. KeyInv(key)
        BY <1>2, SameView DEF ScanInv
    <2>2. QED  BY <2>1, SameView, SameKnown DEF KeyInv
<1>3. QED  BY <1>1, <1>2 DEF ScanInv

\* A file that is no match is passed over.
LEMMA PassStep ==
    ASSUME ScanInv, scanning, NEW x \in listing, listing' = listing \ {x},
           x[3] = "dir" \/ ~Invocable(x[2]) \/ ~Runs(tree[x[1]][x[2]]),
           UNCHANGED <<windows, path, tree, touched, scanning, winners, shadowed,
                       scanned, seen, truncated>>
    PROVE  ScanInv'
<1>1. ScanType'
    BY DEF ScanInv, ScanType
<1>2. ListingInv'
    <2>1. /\ \A f \in DOMAIN Files : Fold(NameOf(f))' = Fold(NameOf(f))
          /\ Here' = Here
        BY DEF Fold, NameOf, Here
    <2>2. QED  BY <2>1 DEF ScanInv, ListingInv
<1>3. ASSUME NEW key \in (Keys \ touched)' PROVE KeyInv(key)'
    <2>1. KeyInv(key) /\ key \notin touched
        BY <1>3, SameView DEF ScanInv
    <2>2. \A y \in Matches(key) : Entry(y) # x
        <3> SUFFICES ASSUME NEW y \in Matches(key), Entry(y) = x PROVE FALSE
            OBVIOUS
        <3>1. /\ y[1] = x[1] /\ y[2] = x[2] /\ x[3] = tree[x[1]][x[2]]
              /\ Invocable(x[2])
              /\ x[3] = "program" \/ (windows /\ x[3] = "hollow")
            BY DEF Entry, Matches
        <3>2. QED  BY <3>1 DEF Runs
    <2>3. QED  BY <2>1, <2>2, SameView, SameKnown DEF KeyInv
<1>4. QED  BY <1>1, <1>2, <1>3 DEF ScanInv

\* The next file comes before every match that is not known yet.
LEMMA NextIsFirst ==
    ASSUME ScanInv, NEW x \in listing, \A y \in listing : x[2] <= y[2],
           NEW key, KeyInv(key),
           NEW y \in Matches(key) \ KnownOf(key), y # <<x[1], x[2]>>
    PROVE  Met(<<x[1], x[2]>>, y)
<1>1. /\ x[1] = Here /\ x[2] \in Nat /\ scanned > 0 /\ ~truncated
      /\ \A j \in 1 .. scanned - 1 : DirOf[path[j]] # Here
    BY Listed
<1>2. y \in File /\ y = <<y[1], y[2]>> /\ y[2] \in Nat
    BY DEF Matches, File
<1>3. CASE y[1] \in seen
    <2>1. Entry(y) \in listing
        BY <1>1, <1>3 DEF KeyInv
    <2>2. y[1] = Here /\ x[2] <= y[2]
        BY <2>1, Listed DEF Entry
    <2>3. QED  BY <1>1, <1>2, <2>2 DEF Met
<1>4. CASE y[1] \notin seen
    <2>1. scanned \in DOMAIN path /\ DirOf[path[scanned]] = x[1]
        BY <1>1 DEF ScanInv, ScanType, Here
    <2>2. \A j \in 1 .. scanned : DirOf[path[j]] # y[1]
        BY <1>2, <1>4 DEF ScanInv, ScanType, File
    <2>3. QED  BY <2>1, <2>2 DEF Met
<1>5. QED  BY <1>3, <1>4

\* A match is recorded.
LEMMA MatchStep ==
    ASSUME ScanInv, scanning, NEW x \in listing, \A y \in listing : x[2] <= y[2],
           listing' = listing \ {x},
           x[3] # "dir", Invocable(x[2]), Runs(tree[x[1]][x[2]]),
           Record(x[2], <<x[1], x[2]>>, tree[x[1]][x[2]]),
           UNCHANGED <<windows, path, tree, touched, scanning, scanned, seen, truncated>>
    PROVE  ScanInv'
<1> DEFINE at == <<x[1], x[2]>>
<1>0. /\ at \in File /\ x[1] = Here /\ Here \in Dirs /\ x[2] \in DOMAIN Files
      /\ x = <<x[1], x[2], x[3]>> /\ x[3] \in Kinds \ {"absent"}
      /\ Fold(NameOf(x[2])) \notin touched => x[3] = tree[x[1]][x[2]]
      /\ DirState[Here] = "dir" /\ scanned > 0 /\ ~truncated
    BY Listed DEF File
<1>1. PICK k : k = Fold(NameOf(x[2]))
    OBVIOUS
<1>2. PICK kind : kind = tree[x[1]][x[2]]
    OBVIOUS
<1>3. ScanType
    BY DEF ScanInv
<1>4. /\ Resolution(k)' = Append(Resolution(k), at)
      /\ Resolution(k) \in Seq(File)
      /\ \A key : key # k => Resolution(key)' = Resolution(key)
      /\ DOMAIN shadowed' = DOMAIN winners'
      /\ \A key \in DOMAIN winners' :
            winners'[key].at \in File /\ shadowed'[key] \in Seq(File)
    BY <1>0, <1>1, <1>2, <1>3, RecordEffect
<1>5. ScanType'
    BY <1>3, <1>4 DEF ScanType
<1>6. ListingInv'
    <2>1. /\ \A f \in DOMAIN Files : Fold(NameOf(f))' = Fold(NameOf(f))
          /\ Here' = Here
        BY DEF Fold, NameOf, Here
    <2>2. QED  BY <2>1 DEF ScanInv, ListingInv
<1>7. ASSUME NEW key \in (Keys \ touched)' PROVE KeyInv(key)'
    <2>1. KeyInv(key) /\ key \notin touched
        BY <1>7, SameView DEF ScanInv
    <2>2. CASE key # k
        <3>1. Resolution(key)' = Resolution(key) /\ KnownOf(key)' = KnownOf(key)
            BY <1>4, <2>2 DEF KnownOf
        <3>2. \A y \in Matches(key) : Entry(y) # x
            <4> SUFFICES ASSUME NEW y \in Matches(key), Entry(y) = x PROVE FALSE
                OBVIOUS
            <4>1. y[2] = x[2] /\ Fold(NameOf(y[2])) = key
                BY DEF Entry, Matches
            <4>2. QED  BY <1>1, <2>2, <4>1
        <3>3. QED  BY <2>1, <3>1, <3>2, SameView DEF KeyInv
    <2>3. CASE key = k
        <3> DEFINE res == Resolution(key)
        <3>1. /\ res \in Seq(File) /\ Len(res) \in Nat
              /\ Resolution(key)' = Append(res, at)
            BY <1>4, <2>3
        <3> HIDE DEF res
        <3>2. /\ DOMAIN Append(res, at) = 1 .. Len(res) + 1
              /\ \A i \in 1 .. Len(res) : Append(res, at)[i] = res[i]
              /\ Append(res, at)[Len(res) + 1] = at
              /\ DOMAIN res = 1 .. Len(res)
            BY <3>1
        <3>3. KnownOf(key)' = KnownOf(key) \cup {at}
            BY <3>1, <3>2 DEF KnownOf, res
        <3>4. at \in Matches(key)
            <4>1. x[3] = tree[x[1]][x[2]]
                BY <1>0, <1>1, <2>1, <2>3
            <4>2. x[3] = "program" \/ (windows /\ x[3] = "hollow")
                BY <1>0, <4>1 DEF Runs
            <4>3. scanned \in DOMAIN path /\ DirOf[path[scanned]] = x[1]
                BY <1>0, <1>3 DEF ScanType, Here
            <4>4. QED  BY <1>0, <1>1, <2>3, <4>1, <4>2, <4>3 DEF Matches, File
        <3>5. at[1] \in seen
            <4>1. scanned \in 1 .. scanned /\ Here # "empty"
                BY <1>0, <1>3 DEF ScanType
            <4>2. QED  BY <1>0, <1>3, <4>1 DEF ScanType, Here
        <3>6. at \notin KnownOf(key)
            BY <2>1 DEF KeyInv
        <3>7. \A y \in KnownOf(key) : Met(y, at)
            BY <2>1, <3>4, <3>6 DEF KeyInv
        <3>8. \A y \in Matches(key) \ (KnownOf(key) \cup {at}) : Met(at, y)
            BY <2>1, NextIsFirst
        <3>9. \A i, j \in 1 .. Len(res) + 1 :
                 i < j => Met(Append(res, at)[i], Append(res, at)[j])
            <4> SUFFICES ASSUME NEW i \in 1 .. Len(res) + 1, NEW j \in 1 .. Len(res) + 1,
                                i < j
                         PROVE  Met(Append(res, at)[i], Append(res, at)[j])
                OBVIOUS
            <4>1. i \in 1 .. Len(res) /\ res[i] \in KnownOf(key)
                BY <3>1, <3>2 DEF KnownOf, res
            <4>2. CASE j = Len(res) + 1
                BY <3>2, <3>7, <4>1, <4>2
            <4>3. CASE j # Len(res) + 1
                <5>1. j \in 1 .. Len(res)
                    BY <3>1, <4>3
                <5>2. Met(res[i], res[j])
                    BY <2>1, <3>2, <4>1, <5>1 DEF KeyInv, res
                <5>3. QED  BY <3>2, <4>1, <5>1, <5>2
            <4>4. QED  BY <4>2, <4>3
        <3>10. \A z \in listing' : <<z[1], z[2]>> \notin KnownOf(key) \cup {at}
            <4> SUFFICES ASSUME NEW z \in listing, z # x, <<z[1], z[2]>> = at PROVE FALSE
                BY <2>1 DEF KeyInv
            <4>1. /\ z = <<z[1], z[2], z[3]>> /\ z[2] = x[2]
                  /\ Fold(NameOf(z[2])) \notin touched => z[3] = tree[z[1]][z[2]]
                BY Listed
            <4>2. QED  BY <1>0, <1>1, <2>1, <2>3, <4>1
        <3>11. \A y \in Matches(key) \ (KnownOf(key) \cup {at}) :
                  y[1] \in seen => Entry(y) \in listing'
            <4> SUFFICES ASSUME NEW y \in Matches(key) \ (KnownOf(key) \cup {at}),
                                y[1] \in seen
                         PROVE  Entry(y) \in listing'
                OBVIOUS
            <4>1. Entry(y) \in listing
                BY <1>0, <2>1 DEF KeyInv
            <4>2. Entry(y) # x
                BY DEF Entry, Matches
            <4>3. QED  BY <4>1, <4>2
        <3>12. /\ Matches(key)' = Matches(key)
               /\ \A u, v : Met(u, v)' = Met(u, v)
               /\ \A u : Entry(u)' = Entry(u)
            BY SameView
        <3>13. KnownOf(key)' \subseteq {y \in Matches(key)' : y[1] \in seen'}
            BY <2>1, <3>3, <3>4, <3>5, <3>12 DEF KeyInv
        <3>14. \A i, j \in DOMAIN Resolution(key)' :
                  i < j => Met(Resolution(key)[i], Resolution(key)[j])'
            BY <3>1, <3>2, <3>9, <3>12
        <3>15. \A y \in Matches(key)' \ KnownOf(key)' :
                  /\ \A z \in KnownOf(key)' : Met(z, y)'
                  /\ ~truncated' /\ y[1] \in seen' => Entry(y)' \in listing'
            BY <2>1, <3>3, <3>8, <3>11, <3>12 DEF KeyInv
        <3>16. QED  BY <3>3, <3>10, <3>13, <3>14, <3>15 DEF KeyInv
    <2>4. QED  BY <2>2, <2>3
<1>8. QED  BY <1>5, <1>6, <1>7 DEF ScanInv

LEMMA ExamineStep == ScanInv /\ Examine => ScanInv'
<1> SUFFICES ASSUME ScanInv, Examine PROVE ScanInv'
    OBVIOUS
<1>1. /\ scanning
      /\ UNCHANGED <<windows, path, tree, touched, scanning, scanned, seen>>
    BY DEF Examine, diskVars
<1>2. PICK x \in listing :
         /\ \A y \in listing : x[2] <= y[2]
         /\ \/ /\ truncated' /\ listing' = {}
               /\ UNCHANGED <<winners, shadowed>>
            \/ /\ listing' = listing \ {x} /\ UNCHANGED truncated
               /\ \/ /\ x[3] = "dir" \/ ~Invocable(x[2]) \/ ~Runs(tree[x[1]][x[2]])
                     /\ UNCHANGED <<winners, shadowed>>
                  \/ /\ x[3] # "dir" /\ Invocable(x[2]) /\ Runs(tree[x[1]][x[2]])
                     /\ Record(x[2], <<x[1], x[2]>>, tree[x[1]][x[2]])
    BY DEF Examine
<1>3. QED  BY <1>1, <1>2, CutStep, PassStep, MatchStep

LEMMA ReturnStep == ScanInv /\ Return => ScanInv'
<1> SUFFICES ASSUME ScanInv, Return PROVE ScanInv'
    OBVIOUS
<1>1. /\ listing = {} /\ scanned = Len(path)
      /\ UNCHANGED <<windows, path, tree, touched, winners, shadowed, scanned, seen,
                     listing, truncated>>
    BY DEF Return, scanVars, diskVars
<1>2. ScanType' /\ ListingInv'
    BY <1>1 DEF ScanInv, ScanType, ListingInv
<1>3. \A key \in (Keys \ touched)' : KeyInv(key)'
    BY <1>1, SameView, SameKnown DEF ScanInv, KeyInv
<1>4. QED  BY <1>1, <1>2, <1>3 DEF ScanInv

\* An installer's change concerns its key alone, and that one is touched.
LEMMA InstallStep == ScanInv /\ Install => ScanInv'
<1> SUFFICES ASSUME ScanInv, Install PROVE ScanInv'
    OBVIOUS
<1>1. /\ scanning
      /\ UNCHANGED <<windows, path, scanning, winners, shadowed, scanned, seen,
                     listing, truncated>>
    BY DEF Install, scanVars
<1>2. PICK d \in Dirs, f \in DOMAIN Files, kind \in {"absent", "program"} :
         /\ tree' = [tree EXCEPT ![d][f] = kind]
         /\ touched' = touched \cup {Fold(NameOf(f))}
    BY DEF Install
<1>3. /\ tree' \in [Dirs -> [DOMAIN Files -> Kinds]]
      /\ \A e \in Dirs, g \in DOMAIN Files :
            Fold(NameOf(g)) \notin touched' => tree'[e][g] = tree[e][g]
    <2>1. kind \in Kinds
        BY DEF Kinds
    <2>2. tree \in [Dirs -> [DOMAIN Files -> Kinds]]
        BY DEF ScanInv, ScanType
    <2>3. QED  BY <1>2, <2>1, <2>2
<1>4. \A g : Fold(NameOf(g))' = Fold(NameOf(g)) /\ Invocable(g)' = Invocable(g)
    BY <1>1 DEF Fold, NameOf, Invocable
<1>5. ScanType'
    BY <1>1, <1>3 DEF ScanInv, ScanType
<1>6. ListingInv'
    <2>1. Here' = Here
        BY <1>1 DEF Here
    <2>2. QED  BY <1>1, <1>2, <1>3, <1>4, <2>1 DEF ScanInv, ListingInv
<1>7. ASSUME NEW key \in (Keys \ touched)' PROVE KeyInv(key)'
    <2>1. key \in Keys \ touched /\ key \notin touched'
        BY <1>2, <1>4, <1>7 DEF Keys
    <2>2. \A x \in File : Fold(NameOf(x[2])) = key => Entry(x)' = Entry(x)
        BY <1>3, <2>1 DEF Entry, File
    <2>3. Matches(key)' = Matches(key)
        BY <1>1, <1>3, <1>4, <2>1 DEF Matches
    <2>4. /\ Resolution(key)' = Resolution(key) /\ KnownOf(key)' = KnownOf(key)
          /\ \A x, y : Met(x, y)' = Met(x, y)
        BY <1>1, SameKnown DEF Met
    <2>5. \A x \in Matches(key) : Entry(x)' = Entry(x)
        BY <2>2 DEF Matches, File
    <2>6. KeyInv(key)
        BY <2>1 DEF ScanInv
    <2>7. QED  BY <1>1, <2>3, <2>4, <2>5, <2>6 DEF KeyInv
<1>8. QED  BY <1>1, <1>5, <1>6, <1>7 DEF ScanInv

\* The locals of discover() are forgotten.
LEMMA BeginBuildStep == ScanInv /\ BeginBuild => ScanInv'
<1> SUFFICES ASSUME ScanInv, BeginBuild PROVE ScanInv'
    OBVIOUS
<1>1. /\ path' = <<>> /\ tree' = CHOOSE t \in Trees : TRUE
      /\ scanned' = 0 /\ seen' = {} /\ listing' = {}
      /\ winners' = <<>> /\ shadowed' = <<>> /\ UNCHANGED scanning
    BY DEF BeginBuild
<1>2. ScanType'
    BY <1>1 DEF ScanInv, ScanType
<1>3. ASSUME NEW key PROVE KeyInv(key)'
    <2>1. Resolution(key)' = <<>> /\ KnownOf(key)' = {}
        BY <1>1 DEF Resolution, KnownOf
    <2>2. Matches(key)' = {}
        BY <1>1 DEF Matches
    <2>3. QED  BY <1>1, <2>1, <2>2 DEF KeyInv
<1>4. QED  BY <1>1, <1>2, <1>3 DEF ScanInv, ListingInv

LEMMA ScanStep == ScanInv /\ [PipelineNext]_pipelineVars => ScanInv'
<1> SUFFICES ASSUME ScanInv, [PipelineNext]_pipelineVars PROVE ScanInv'
    OBVIOUS
<1>1. CASE Scan
    BY <1>1, NextEntryStep, ExamineStep, ReturnStep, InstallStep DEF Scan
<1>2. CASE BeginBuild
    BY <1>2, BeginBuildStep
<1>3. CASE UNCHANGED discoveryVars
    <2>1. UNCHANGED <<windows, path, tree, touched, scanning, winners, shadowed,
                      scanned, seen, listing, truncated>>
        BY <1>3 DEF discoveryVars, scanVars, diskVars
    <2>2. ScanType' /\ ListingInv'
        <3>1. Here' = Here /\ \A f : Fold(NameOf(f))' = Fold(NameOf(f))
            BY <2>1 DEF Here, Fold, NameOf
        <3>2. QED  BY <2>1, <3>1 DEF ScanInv, ScanType, ListingInv
    <2>3. \A key \in (Keys \ touched)' : KeyInv(key)'
        BY <2>1, SameView, SameKnown DEF ScanInv, KeyInv
    <2>4. QED  BY <2>1, <2>2, <2>3 DEF ScanInv
<1>4. QED
    BY <1>1, <1>2, <1>3 DEF PipelineNext, pipelineVars, ListOsDir, ReadPage, Swap,
       FinishBuild, BuildIndex, ServeNames, BeginSearch, Consider, Serve

\* The scan's order of two files of one command is the shell's, or the files
\* are twins: on POSIX a directory has no two files of one name.
LEMMA MetInOrder ==
    ASSUME NEW key, NEW x \in Matches(key), NEW y \in Matches(key), Met(x, y)
    PROVE  Before(x, y) \/ Twins(x, y)
<1>1. CASE x[1] = y[1] /\ x[2] < y[2]
    <2>1. CASE windows
        BY <1>1, <2>1 DEF Twins
    <2>2. CASE ~windows
        <3>1. /\ x[2] \in DOMAIN Files /\ y[2] \in DOMAIN Files
              /\ Files[x[2]].file = key /\ Files[y[2]].file = key
            BY <2>2 DEF Matches, Fold, NameOf
        <3>2. x[2] = y[2] /\ x[2] \in Nat
            BY <3>1, NamesAssumption
        <3>3. QED  BY <1>1, <3>2
    <2>3. QED  BY <2>1, <2>2
<1>2. CASE \E i \in DOMAIN path : /\ DirOf[path[i]] = x[1]
                                  /\ \A j \in 1 .. i : DirOf[path[j]] /= y[1]
    BY <1>2 DEF Before
<1>3. QED  BY <1>1, <1>2 DEF Met

LEMMA ScanResult == ScanInv => AgreesWithPath
<1> DEFINE Leads(x, y) == Before(x, y) \/ Twins(x, y)
<1> SUFFICES ASSUME ScanInv, ~scanning, NEW key \in Keys \ touched
             PROVE  LET found == Resolution(key)
                        known == {found[i] : i \in DOMAIN found}
                    IN /\ known \subseteq Matches(key)
                       /\ \A i, j \in DOMAIN found : i < j => Leads(found[i], found[j])
                       /\ \A x \in Matches(key) \ known :
                             truncated /\ \A y \in known : Leads(y, x)
    BY DEF AgreesWithPath
<1>1. KeyInv(key) /\ listing = {} /\ scanned = Len(path)
    BY DEF ScanInv
<1>2. \A x \in Matches(key) : x[1] \in seen
    BY <1>1 DEF ScanInv, ScanType, Matches
<1>3. \A x, y \in Matches(key) : Met(x, y) => Leads(x, y)
    BY MetInOrder
<1>4. KnownOf(key) \subseteq Matches(key)
    BY <1>1 DEF KeyInv
<1> HIDE DEF Leads
<1>5. ASSUME NEW i \in DOMAIN Resolution(key), NEW j \in DOMAIN Resolution(key), i < j
      PROVE  Leads(Resolution(key)[i], Resolution(key)[j])
    <2>1. Met(Resolution(key)[i], Resolution(key)[j])
        BY <1>1, <1>5 DEF KeyInv
    <2>2. Resolution(key)[i] \in Matches(key) /\ Resolution(key)[j] \in Matches(key)
        BY <1>4 DEF KnownOf
    <2>3. QED  BY <1>3, <2>1, <2>2
<1>6. ASSUME NEW x \in Matches(key) \ KnownOf(key)
      PROVE  truncated /\ \A y \in KnownOf(key) : Leads(y, x)
    <2>1. truncated
        BY <1>1, <1>2 DEF KeyInv
    <2>2. ASSUME NEW y \in KnownOf(key) PROVE Leads(y, x)
        <3>1. Met(y, x) /\ y \in Matches(key)
            BY <1>1, <1>4 DEF KeyInv
        <3>2. QED  BY <1>3, <3>1
    <2>3. QED  BY <2>1, <2>2
<1>7. QED  BY <1>4, <1>5, <1>6 DEF KnownOf

\* Every command that no installer touched resolves to the directory that the
\* shell takes it from, and to the shell's file, unless that directory has it
\* under two of PATHEXT's suffixes (discovery.py discover, iter_path_dirs).
THEOREM InventoryAgreesWithPath == PipelineSpec => []AgreesWithPath
<1>1. PipelineInit => ScanInv
    BY ScanInit
<1>2. ScanInv /\ [PipelineNext]_pipelineVars => ScanInv'
    BY ScanStep
<1>3. ScanInv => AgreesWithPath
    BY ScanResult
<1>4. QED  BY <1>1, <1>2, <1>3, PTL DEF PipelineSpec

HIDE DiscoveryAssumption

-----------------------------------------------------------------------------
(* What an order by rank holds: the sorted() of the build and of the search. *)

\* A non-empty set of numbers has a least member.
LEMMA LeastNatural ==
    ASSUME NEW S, S \subseteq Nat, S # {}
    PROVE  Min(S) \in S /\ \A n \in S : Min(S) <= n
<1>1. PICK x \in S : \A y \in S : ~(<<y, x>> \in OpToRel(<, Nat))
    BY NatLessThanWellFounded, WFMin, Zenon
<1>2. \A y \in S : y \in Nat /\ x \in Nat => ~(y < x)
    BY <1>1, Zenon DEF OpToRel
<1>3. \A y \in S : x <= y
    BY <1>2
<1>4. QED  BY <1>3 DEF Min

\* The image of a finite set is finite.
LEMMA ImageIsFinite ==
    ASSUME NEW f, IsFiniteSet(DOMAIN f)
    PROVE  IsFiniteSet({f[x] : x \in DOMAIN f})
<1> DEFINE T == {f[x] : x \in DOMAIN f}
           g == [x \in DOMAIN f |-> f[x]]
<1>1. g \in Surjection(DOMAIN f, T)
    BY DEF Surjection
<1>2. QED  BY <1>1, FS_Surjection

\* A sequence has finitely many places and members.
LEMMA SequenceIsFinite ==
    ASSUME NEW T, NEW s \in Seq(T)
    PROVE  IsFiniteSet(DOMAIN s) /\ IsFiniteSet(ToSet(s)) /\ ToSet(s) \subseteq T
<1>1. DOMAIN s = 1 .. Len(s) /\ Len(s) \in Nat /\ \A i \in DOMAIN s : s[i] \in T
    OBVIOUS
<1>2. IsFiniteSet(DOMAIN s)
    BY <1>1, FS_Interval
<1>3. QED  BY <1>1, <1>2, ImageIsFinite DEF ToSet

\* What stands at a place of an order is what has that rank.
LEMMA InOrderValues ==
    ASSUME NEW rank, NEW n \in DOMAIN InOrder(rank)
    PROVE  InOrder(rank)[n] \in DOMAIN rank /\ rank[InOrder(rank)[n]] = n
BY DEF InOrder

\* The rank of each member of S by how many others R puts before it.
Ranks(S, R) == [x \in S |-> 1 + Cardinality({y \in S : <<y, x>> \in R})]

\* R is a strict total order of S, as a key of Python's sorted() that is
\* different for different members.
StrictOrder(R, S) ==
    /\ \A x \in S : <<x, x>> \notin R
    /\ \A x, y, z \in S : <<x, y>> \in R /\ <<y, z>> \in R => <<x, z>> \in R
    /\ \A x, y \in S : x = y \/ <<x, y>> \in R \/ <<y, x>> \in R

\* Ranks are numbers, and finitely many.
LEMMA RankType ==
    ASSUME NEW S, NEW R, IsFiniteSet(S)
    PROVE  /\ DOMAIN Ranks(S, R) = S
           /\ \A x \in S : Ranks(S, R)[x] \in Nat \ {0}
           /\ DOMAIN InOrder(Ranks(S, R)) \subseteq Nat \ {0}
           /\ IsFiniteSet(DOMAIN InOrder(Ranks(S, R)))
<1>1. DOMAIN Ranks(S, R) = S
    BY DEF Ranks
<1>2. ASSUME NEW x \in S PROVE Ranks(S, R)[x] \in Nat \ {0}
    <2>1. {y \in S : <<y, x>> \in R} \in SUBSET S
        OBVIOUS
    <2>2. Cardinality({y \in S : <<y, x>> \in R}) \in Nat
        BY <2>1, FS_Subset, FS_CardinalityType
    <2>3. QED  BY <2>2 DEF Ranks
<1>3. QED  BY <1>1, <1>2, ImageIsFinite DEF InOrder

\* Ranks ascend along a strict total order and end at the size of the set.
LEMMA RanksAscend ==
    ASSUME NEW S, NEW R, IsFiniteSet(S), StrictOrder(R, S)
    PROVE  /\ \A x, y \in S : <<x, y>> \in R => Ranks(S, R)[x] < Ranks(S, R)[y]
           /\ \A x \in S : Ranks(S, R)[x] <= Cardinality(S)
<1> DEFINE Below(x) == {y \in S : <<y, x>> \in R}
<1>1. ASSUME NEW x \in S
      PROVE  /\ IsFiniteSet(Below(x)) /\ Cardinality(Below(x)) \in Nat
             /\ IsFiniteSet(Below(x) \cup {x})
             /\ Cardinality(Below(x) \cup {x}) = Cardinality(Below(x)) + 1
             /\ Ranks(S, R)[x] = 1 + Cardinality(Below(x))
    <2>1. Below(x) \in SUBSET S
        OBVIOUS
    <2>2. IsFiniteSet(Below(x)) /\ Cardinality(Below(x)) \in Nat
        BY <2>1, FS_Subset, FS_CardinalityType
    <2>3. x \notin Below(x)
        BY DEF StrictOrder
    <2>4. Ranks(S, R)[x] = 1 + Cardinality(Below(x))
        BY DEF Ranks
    <2> HIDE DEF Below
    <2>5. QED  BY <2>2, <2>3, <2>4, FS_AddElement
<1>2. ASSUME NEW x \in S, NEW y \in S, <<x, y>> \in R
      PROVE  Ranks(S, R)[x] < Ranks(S, R)[y]
    <2>1. Below(x) \cup {x} \in SUBSET Below(y)
        BY <1>2 DEF StrictOrder
    <2> HIDE DEF Below
    <2>2. Cardinality(Below(x) \cup {x}) <= Cardinality(Below(y))
        BY <1>1, <2>1, FS_Subset
    <2>3. Cardinality(Below(x)) + 1 <= Cardinality(Below(y))
        BY <1>1, <2>2
    <2>4. /\ Ranks(S, R)[x] = 1 + Cardinality(Below(x))
          /\ Ranks(S, R)[y] = 1 + Cardinality(Below(y))
          /\ Cardinality(Below(x)) \in Nat /\ Cardinality(Below(y)) \in Nat
        BY <1>1
    <2>5. QED  BY <2>3, <2>4
<1>3. ASSUME NEW x \in S PROVE Ranks(S, R)[x] <= Cardinality(S)
    <2>1. Below(x) \cup {x} \in SUBSET S
        OBVIOUS
    <2> HIDE DEF Below
    <2>2. Cardinality(Below(x) \cup {x}) <= Cardinality(S)
        BY <2>1, FS_Subset
    <2>3. QED  BY <1>1, <2>2
<1>4. QED  BY <1>2, <1>3

\* What sorted() promises: every member once, in ascending order.
LEMMA SortedOnce ==
    ASSUME NEW S, NEW R, IsFiniteSet(S), StrictOrder(R, S)
    PROVE  LET s == InOrder(Ranks(S, R))
           IN /\ s \in Seq(S) /\ Len(s) = Cardinality(S)
              /\ ToSet(s) = S
              /\ \A i, j \in DOMAIN s : i < j => <<s[i], s[j]>> \in R
<1> DEFINE rank == Ranks(S, R)
           s == InOrder(rank)
           N == Cardinality(S)
<1>1. /\ DOMAIN rank = S /\ \A x \in S : rank[x] \in 1 .. N
      /\ \A x, y \in S : <<x, y>> \in R => rank[x] < rank[y]
      /\ N \in Nat
    BY RankType, RanksAscend, FS_CardinalityType
<1>2. rank = [x \in S |-> rank[x]]
    BY DEF Ranks
<1>4. \A n \in DOMAIN s : s[n] \in S /\ rank[s[n]] = n
    BY <1>1, InOrderValues
<1>d. DOMAIN s = {rank[x] : x \in DOMAIN rank} /\ s = [n \in DOMAIN s |-> s[n]]
    BY DEF InOrder
<1> HIDE DEF rank, s
<1>3. ASSUME NEW x \in S, NEW y \in S, rank[x] = rank[y] PROVE x = y
    <2>1. rank[x] \in Nat /\ rank[y] \in Nat
        BY <1>1
    <2>2. ~(<<x, y>> \in R) /\ ~(<<y, x>> \in R)
        BY <1>1, <1>3, <2>1
    <2>3. QED  BY <2>2 DEF StrictOrder
<1>5. rank \in Injection(S, 1 .. N)
    <2>1. rank \in [S -> 1 .. N]
        BY <1>1, <1>2
    <2>2. \A a, b \in S : rank[a] = rank[b] => a = b
        BY <1>3
    <2>3. QED  BY <2>1, <2>2 DEF Injection, IsInjective
<1>6. IsFiniteSet(1 .. N) /\ Cardinality(1 .. N) = N
    BY <1>1, FS_Interval
<1>7. rank \in Surjection(S, 1 .. N)
    BY <1>5, <1>6, FS_Injection
<1>8. DOMAIN s = 1 .. N
    BY <1>1, <1>7, <1>d DEF Surjection
<1>9. s \in Seq(S) /\ Len(s) = N
    BY <1>1, <1>4, <1>8, <1>d
<1>10. \A x \in S : rank[x] \in DOMAIN s /\ s[rank[x]] = x
    BY <1>1, <1>3, <1>4, <1>8
<1>11. ToSet(s) = S
    BY <1>4, <1>10 DEF ToSet
<1>12. ASSUME NEW i \in DOMAIN s, NEW j \in DOMAIN s, i < j PROVE <<s[i], s[j]>> \in R
    <2>1. s[i] # s[j] /\ ~(<<s[j], s[i]>> \in R)
        BY <1>1, <1>4, <1>8, <1>12
    <2>2. QED  BY <1>4, <2>1 DEF StrictOrder
<1>13. QED  BY <1>9, <1>11, <1>12 DEF rank, s

-----------------------------------------------------------------------------
(* Findings and their groups. *)

\* The relations that the build sorts by.
Ascending(S) == {z \in S \X S : z[1] < z[2]}
InPlace(S) == {z \in S \X S : Earlier(z[1], z[2])}
BySource(S) == {z \in S \X S : z[1].source < z[2].source}

\* Ranks of the model's three kinds of sorted things are ranks of a relation.
LEMMA AscendingRanks ==
    ASSUME NEW S
    PROVE  [x \in S |-> 1 + Cardinality({y \in S : y < x})] = Ranks(S, Ascending(S))
<1>1. \A x \in S : {y \in S : y < x} = {y \in S : <<y, x>> \in Ascending(S)}
    BY DEF Ascending
<1>2. QED  BY <1>1 DEF Ranks

LEMMA PlaceRanks ==
    ASSUME NEW S
    PROVE  [x \in S |-> 1 + Cardinality({y \in S : Earlier(y, x)})] = Ranks(S, InPlace(S))
<1>1. \A x \in S : {y \in S : Earlier(y, x)} = {y \in S : <<y, x>> \in InPlace(S)}
    BY DEF InPlace
<1>2. QED  BY <1>1 DEF Ranks

LEMMA SourceRanks ==
    ASSUME NEW S
    PROVE  [x \in S |-> 1 + Cardinality({y \in S : y.source < x.source})]
              = Ranks(S, BySource(S))
<1>1. \A x \in S : {y \in S : y.source < x.source} = {y \in S : <<y, x>> \in BySource(S)}
    BY DEF BySource
<1>2. QED  BY <1>1 DEF Ranks

\* They are strict total orders: of numbers, of pairs of them, and of findings
\* by page, if no two are of one page (normalize.py:200-205, 429-431).
LEMMA StrictOrders ==
    /\ \A S \in SUBSET Nat : StrictOrder(Ascending(S), S)
    /\ \A S \in SUBSET (Nat \X Nat) : StrictOrder(InPlace(S), S)
    /\ \A S : (\A f, g \in S : f.source \in Nat /\ (f.source = g.source => f = g))
              => StrictOrder(BySource(S), S)
<1>1. ASSUME NEW S \in SUBSET Nat PROVE StrictOrder(Ascending(S), S)
    BY DEF StrictOrder, Ascending
<1>2. ASSUME NEW S \in SUBSET (Nat \X Nat) PROVE StrictOrder(InPlace(S), S)
    <2>1. \A x \in S : x = <<x[1], x[2]>> /\ x[1] \in Nat /\ x[2] \in Nat
        OBVIOUS
    <2>2. QED  BY <2>1 DEF StrictOrder, InPlace, Earlier
<1>3. ASSUME NEW S, \A f, g \in S : f.source \in Nat /\ (f.source = g.source => f = g)
      PROVE  StrictOrder(BySource(S), S)
    BY <1>3 DEF StrictOrder, BySource
<1>4. QED  BY <1>1, <1>2, <1>3

-----------------------------------------------------------------------------
(* Findings *)

\* What the extractor can report: a finding for each page that has a title.
PageFindings ==
    {ParsePage(Pages[p], p) : p \in {q \in DOMAIN Pages : Pages[q].title # <<>>}}

\* A word of the corpus.
Text == Seq(ToSet(Alphabet)) \ {<<>>}

\* A finding names its page, and its parts are of the page (tldr.py parse_page).
LEMMA FindingFields ==
    ASSUME NEW f \in PageFindings
    PROVE  /\ f.source \in DOMAIN Pages /\ f = ParsePage(Pages[f.source], f.source)
           /\ f.binary \in Text /\ f.path \in Seq(Text)
           /\ IsFiniteSet(DOMAIN f.examples) /\ DOMAIN f.examples \subseteq Nat
<1>1. PICK p \in DOMAIN Pages : Pages[p].title # <<>> /\ f = ParsePage(Pages[p], p)
    BY DEF PageFindings
<1> DEFINE lines == Pages[p].lines
           C == {n \in DOMAIN lines : lines[n].kind = "command"}
<1>2. /\ f.source = p /\ f.binary = Head(Pages[p].title) /\ f.path = Tail(Pages[p].title)
      /\ DOMAIN f.examples = DOMAIN InOrder([x \in C |-> 1 + Cardinality({y \in C : y < x})])
    BY <1>1 DEF ParsePage, Sorted
<1>3. Pages[p].title \in Seq(Text) /\ lines \in Seq(ToSet(lines))
    BY CorpusAssumption DEF Text
<1>4. IsFiniteSet(C)
    BY <1>3, SequenceIsFinite, FS_Subset
<1>5. IsFiniteSet(DOMAIN f.examples) /\ DOMAIN f.examples \subseteq Nat
    <2> HIDE DEF C
    <2>1. DOMAIN f.examples = DOMAIN InOrder(Ranks(C, Ascending(C)))
        BY <1>2, AscendingRanks
    <2>2. QED  BY <1>4, <2>1, RankType
<1>6. \A s \in Seq(Text) : s # <<>> => Head(s) \in Text /\ Tail(s) \in Seq(Text)
    OBVIOUS
<1>7. QED  BY <1>1, <1>2, <1>3, <1>5, <1>6

\* The sort of a group loses no finding and adds none.
LEMMA GroupIsNamed ==
    ASSUME NEW fs \in Seq(PageFindings), NEW name, NEW family
    PROVE  LET S == Named(fs, name, family)
           IN /\ S \subseteq PageFindings /\ IsFiniteSet(S)
              /\ Group(fs, name, family) \in Seq(S)
              /\ ToSet(Group(fs, name, family)) = S
<1> DEFINE S == Named(fs, name, family)
<1>1. S \subseteq ToSet(fs) /\ IsFiniteSet(ToSet(fs)) /\ ToSet(fs) \subseteq PageFindings
    BY SequenceIsFinite DEF Named
<1>2. IsFiniteSet(S) /\ S \subseteq PageFindings
    BY <1>1, FS_Subset
<1>3. Group(fs, name, family)
         = InOrder([x \in S |-> 1 + Cardinality({y \in S : y.source < x.source})])
    BY DEF Group, Sorted
<1> HIDE DEF S
<1>4. \A f, g \in S : f.source \in Nat /\ (f.source = g.source => f = g)
    BY <1>2, FindingFields, CorpusAssumption
<1>5. StrictOrder(BySource(S), S)
    BY <1>4, StrictOrders
<1>6. Group(fs, name, family) = InOrder(Ranks(S, BySource(S)))
    BY <1>3, SourceRanks
<1>7. Group(fs, name, family) \in Seq(S) /\ ToSet(Group(fs, name, family)) = S
    BY <1>2, <1>5, <1>6, SortedOnce
<1>8. QED  BY <1>2, <1>7 DEF S

-----------------------------------------------------------------------------
(* The catalog: its variants. *)

\* The variant that a finding is merged into.
VariantOf(fs, f) ==
    [family |-> FamilyOf(f.os),
     tool |-> MergeGroup(QualifiedName(f), Group(fs, QualifiedName(f), FamilyOf(f.os)))]

\* The catalog has the variant of each finding and nothing else
\* (normalize.py normalize, lines 382-392).
LEMMA Variants ==
    ASSUME NEW fs
    PROVE  /\ Normalize(fs) = {VariantOf(fs, f) : f \in ToSet(fs)}
           /\ \A f : VariantOf(fs, f).tool.name = QualifiedName(f)
<1>1. \A f : VariantOf(fs, f).tool.name = QualifiedName(f)
    BY DEF VariantOf, MergeGroup
<1>2. ASSUME NEW f \in ToSet(fs) PROVE VariantOf(fs, f) \in Normalize(fs)
    <2> DEFINE k == <<QualifiedName(f), FamilyOf(f.os)>>
    <2>1. k \in {<<QualifiedName(g), FamilyOf(g.os)>> : g \in ToSet(fs)}
        OBVIOUS
    <2>2. k[1] = QualifiedName(f) /\ k[2] = FamilyOf(f.os)
        OBVIOUS
    <2> HIDE DEF k
    <2>3. VariantOf(fs, f) = [family |-> k[2], tool |-> MergeGroup(k[1], Group(fs, k[1], k[2]))]
        BY <2>2 DEF VariantOf
    <2>4. QED  BY <2>1, <2>3 DEF Normalize
<1>3. ASSUME NEW v \in Normalize(fs) PROVE \E f \in ToSet(fs) : v = VariantOf(fs, f)
    <2>1. PICK k \in {<<QualifiedName(g), FamilyOf(g.os)>> : g \in ToSet(fs)} :
             v = [family |-> k[2], tool |-> MergeGroup(k[1], Group(fs, k[1], k[2]))]
        BY DEF Normalize
    <2>2. PICK f \in ToSet(fs) : k = <<QualifiedName(f), FamilyOf(f.os)>>
        OBVIOUS
    <2>3. QED  BY <2>1, <2>2 DEF VariantOf
<1>4. QED  BY <1>1, <1>2, <1>3

\* Another order of the findings of a name makes the same variants of it.
LEMMA AnyOrder ==
    ASSUME NEW fs \in Seq(PageFindings), NEW name,
           NEW order \in SetToSeqs({f \in ToSet(fs) : QualifiedName(f) = name})
    PROVE  Normalize(order) = {v \in Normalize(fs) : v.tool.name = name}
<1> DEFINE S == {f \in ToSet(fs) : QualifiedName(f) = name}
           N == Cardinality(S)
<1>1. IsFiniteSet(S) /\ N \in Nat
    BY SequenceIsFinite, FS_Subset, FS_CardinalityType
<1>2. order \in [1 .. N -> S] /\ \A i, j \in 1 .. N : i # j => order[i] # order[j]
    BY DEF SetToSeqs
<1> HIDE DEF S
<1>3. order \in Injection(1 .. N, S)
    BY <1>2 DEF Injection, IsInjective
<1>4. IsFiniteSet(1 .. N) /\ Cardinality(1 .. N) = N
    BY <1>1, FS_Interval
<1>5. order \in Surjection(1 .. N, S)
    BY <1>1, <1>3, <1>4, FS_Injection
<1>6. ToSet(order) = S
    BY <1>2, <1>5 DEF Surjection, ToSet
<1>7. ASSUME NEW f \in S PROVE VariantOf(order, f) = VariantOf(fs, f)
    <2>1. QualifiedName(f) = name
        BY DEF S
    <2>2. Named(order, name, FamilyOf(f.os)) = Named(fs, name, FamilyOf(f.os))
        BY <1>6 DEF Named, S
    <2>3. Group(order, name, FamilyOf(f.os)) = Group(fs, name, FamilyOf(f.os))
        BY <2>2 DEF Group, Sorted
    <2>4. QED  BY <2>1, <2>3 DEF VariantOf
<1>8. Normalize(order) = {VariantOf(fs, f) : f \in S}
    BY <1>6, <1>7, Variants
<1>9. {v \in Normalize(fs) : v.tool.name = name} = {VariantOf(fs, f) : f \in S}
    BY Variants DEF S
<1>10. QED  BY <1>8, <1>9

-----------------------------------------------------------------------------

\* A sorted set of numbers.
LEMMA SortedNumbers ==
    ASSUME NEW S \in SUBSET Nat, IsFiniteSet(S)
    PROVE  LET s == InOrder(Ranks(S, Ascending(S)))
           IN /\ s \in Seq(S) /\ ToSet(s) = S /\ (s = <<>> <=> S = {})
              /\ \A i, j \in DOMAIN s : i < j => s[i] < s[j]
<1> DEFINE s == InOrder(Ranks(S, Ascending(S)))
<1>1. /\ s \in Seq(S) /\ ToSet(s) = S
      /\ \A i, j \in DOMAIN s : i < j => <<s[i], s[j]>> \in Ascending(S)
    BY SortedOnce, StrictOrders
<1> HIDE DEF s
<1>2. s = <<>> <=> DOMAIN s = {}
    BY <1>1
<1>3. \A i, j \in DOMAIN s : i < j => s[i] < s[j]
    BY <1>1 DEF Ascending
<1>4. QED  BY <1>1, <1>2, <1>3 DEF s, ToSet

\* A sorted set of pairs of numbers.
LEMMA SortedPlaces ==
    ASSUME NEW S \in SUBSET (Nat \X Nat), IsFiniteSet(S)
    PROVE  LET s == InOrder(Ranks(S, InPlace(S)))
           IN /\ s \in Seq(S) /\ ToSet(s) = S /\ (s = <<>> <=> S = {})
              /\ \A i, j \in DOMAIN s : i < j => Earlier(s[i], s[j])
<1> DEFINE s == InOrder(Ranks(S, InPlace(S)))
<1>1. /\ s \in Seq(S) /\ ToSet(s) = S
      /\ \A i, j \in DOMAIN s : i < j => <<s[i], s[j]>> \in InPlace(S)
    BY SortedOnce, StrictOrders
<1> HIDE DEF s
<1>2. s = <<>> <=> DOMAIN s = {}
    BY <1>1
<1>3. \A i, j \in DOMAIN s : i < j => Earlier(s[i], s[j])
    BY <1>1 DEF InPlace
<1>4. QED  BY <1>1, <1>2, <1>3 DEF s, ToSet

\* A finite set of rows, each with a finite set of places.
LEMMA PlacesAreFinite ==
    ASSUME NEW rows, IsFiniteSet(DOMAIN rows), DOMAIN rows \subseteq Nat,
           \A n \in DOMAIN rows : IsFiniteSet(rows[n]) /\ rows[n] \subseteq Nat
    PROVE  LET S == UNION {{n} \X rows[n] : n \in DOMAIN rows}
           IN IsFiniteSet(S) /\ S \in SUBSET (Nat \X Nat)
<1> DEFINE f == [n \in DOMAIN rows |-> {n} \X rows[n]]
           S == UNION {{n} \X rows[n] : n \in DOMAIN rows}
<1>1. \A n \in DOMAIN rows : IsFiniteSet(f[n])
    BY FS_Singleton, FS_Product
<1>2. {f[n] : n \in DOMAIN f} = {{n} \X rows[n] : n \in DOMAIN rows}
    OBVIOUS
<1>3. IsFiniteSet({f[n] : n \in DOMAIN f})
    <2>1. IsFiniteSet(DOMAIN f)
        OBVIOUS
    <2> HIDE DEF f
    <2>2. QED  BY <2>1, ImageIsFinite
<1>4. IsFiniteSet(S)
    BY <1>1, <1>2, <1>3, FS_UNION
<1>5. S \in SUBSET (Nat \X Nat)
    OBVIOUS
<1>6. QED  BY <1>4, <1>5

-----------------------------------------------------------------------------
(* Names. *)

\* str.join: the characters of the words and the separator, beginning as the
\* first word does if that is something.
LEMMA JoinedText ==
    ASSUME NEW C, NEW words \in Seq(Seq(C)), NEW sep \in C
    PROVE  /\ Join(words, sep) \in Seq(C)
           /\ words # <<>> /\ words[1] # <<>> =>
                 Join(words, sep) # <<>> /\ Join(words, sep)[1] = words[1][1]
<1> DEFINE rows == [n \in DOMAIN words |-> (IF n = 1 THEN 1 ELSE 0) .. Len(words[n])]
           places == UNION {{n} \X rows[n] : n \in DOMAIN rows}
           order == InOrder(Ranks(places, InPlace(places)))
           Letter(x) == IF x[2] = 0 THEN sep ELSE words[x[1]][x[2]]
<1>1. /\ DOMAIN words = 1 .. Len(words) /\ Len(words) \in Nat
      /\ \A n \in DOMAIN words : words[n] \in Seq(C) /\ Len(words[n]) \in Nat
    OBVIOUS
<1>2. /\ IsFiniteSet(DOMAIN rows) /\ DOMAIN rows \subseteq Nat
      /\ \A n \in DOMAIN rows : IsFiniteSet(rows[n]) /\ rows[n] \subseteq Nat
    <2>1. DOMAIN rows = 1 .. Len(words) /\ IsFiniteSet(1 .. Len(words))
        BY <1>1, FS_Interval
    <2>2. ASSUME NEW n \in DOMAIN words
          PROVE  IsFiniteSet(rows[n]) /\ rows[n] \subseteq Nat
        <3>1. PICK a \in {0, 1} : rows[n] = a .. Len(words[n])
            OBVIOUS
        <3>2. a \in Int /\ Len(words[n]) \in Int
            BY <1>1, <3>1
        <3> HIDE DEF rows
        <3>3. IsFiniteSet(a .. Len(words[n]))
            BY <3>2, FS_Interval
        <3>4. a .. Len(words[n]) \subseteq Nat
            BY <3>2
        <3>5. QED  BY <3>1, <3>3, <3>4
    <2>3. DOMAIN rows = DOMAIN words
        OBVIOUS
    <2>4. QED  BY <1>1, <2>1, <2>2, <2>3
<1>3. IsFiniteSet(places) /\ places \in SUBSET (Nat \X Nat)
    <2> HIDE DEF rows
    <2>1. QED  BY <1>2, PlacesAreFinite
<1>4. places = UNION {{n} \X ((IF n = 1 THEN 1 ELSE 0) .. Len(words[n])) : n \in DOMAIN words}
    OBVIOUS
<1>5. Join(words, sep) = [k \in DOMAIN order |-> Letter(order[k])]
    <2> HIDE DEF places
    <2>1. Join(words, sep) =
             LET o == InOrder([x \in places |-> 1 + Cardinality({y \in places : Earlier(y, x)})])
             IN [k \in DOMAIN o |-> Letter(o[k])]
        BY <1>4 DEF Join, Sorted
    <2> HIDE DEF Letter
    <2>2. QED  BY <2>1, PlaceRanks
<1>6. \A x \in places : Letter(x) \in C
    <2> SUFFICES ASSUME NEW n \in DOMAIN words, NEW x \in {n} \X rows[n], x[2] # 0
                 PROVE  words[x[1]][x[2]] \in C
        OBVIOUS
    <2>1. x[1] = n /\ x[2] \in 1 .. Len(words[n])
        BY <1>1
    <2>2. QED  BY <1>1, <2>1
<1> HIDE DEF places, Letter
<1>7. /\ order \in Seq(places) /\ ToSet(order) = places /\ (order = <<>> <=> places = {})
      /\ \A i, j \in DOMAIN order : i < j => Earlier(order[i], order[j])
    BY <1>3, SortedPlaces
<1> HIDE DEF order
<1>8. Join(words, sep) \in Seq(C) /\ (Join(words, sep) = <<>> <=> order = <<>>)
    <2>1. /\ DOMAIN order = 1 .. Len(order) /\ Len(order) \in Nat
          /\ \A k \in DOMAIN order : order[k] \in places
        BY <1>7
    <2>2. /\ Join(words, sep) \in [1 .. Len(order) -> C]
          /\ Join(words, sep) \in Seq(C) /\ Len(Join(words, sep)) = Len(order)
        BY <1>5, <1>6, <2>1
    <2>3. \A t \in Seq(C) : t = <<>> <=> Len(t) = 0
        OBVIOUS
    <2>4. order = <<>> <=> Len(order) = 0
        BY <1>7
    <2>5. QED  BY <2>2, <2>3, <2>4
<1>9. ASSUME words # <<>>, words[1] # <<>>
      PROVE  places # {} /\ Join(words, sep)[1] = words[1][1]
    <2>1. 1 \in DOMAIN words /\ Len(words[1]) > 0
        BY <1>1, <1>9
    <2>2. <<1, 1>> \in {1} \X rows[1]
        BY <1>1, <2>1
    <2>3. <<1, 1>> \in places
        BY <2>1, <2>2 DEF places
    <2>4. \A x \in places : /\ x[1] \in Nat /\ x[2] \in Nat /\ x[1] >= 1
                            /\ x[1] = 1 => x[2] >= 1
        <3> SUFFICES ASSUME NEW n \in DOMAIN words, NEW x \in {n} \X rows[n]
                     PROVE  x[1] \in Nat /\ x[2] \in Nat /\ x[1] >= 1
                            /\ (x[1] = 1 => x[2] >= 1)
            BY DEF places
        <3>1. x[1] = n /\ n \in Nat /\ n >= 1
            BY <1>1
        <3>2. x[2] \in (IF n = 1 THEN 1 ELSE 0) .. Len(words[n])
            OBVIOUS
        <3>3. QED  BY <1>1, <3>1, <3>2
    <2>5. PICK k \in DOMAIN order : order[k] = <<1, 1>>
        BY <1>7, <2>3 DEF ToSet
    <2>6. 1 \in DOMAIN order /\ order[1] \in places /\ k \in Nat /\ k >= 1
        BY <1>7, <2>5
    <2>7. k = 1
        <3>1. ~Earlier(order[1], <<1, 1>>)
            BY <2>4, <2>6 DEF Earlier
        <3>2. 1 < k => Earlier(order[1], order[k])
            BY <1>7, <2>6
        <3>3. QED  BY <2>5, <2>6, <3>1, <3>2
    <2>8. Join(words, sep)[1] = Letter(<<1, 1>>)
        BY <1>5, <2>5, <2>6, <2>7
    <2>9. QED  BY <2>3, <2>8 DEF Letter
<1>10. QED  BY <1>7, <1>8, <1>9

\* The characters of a name.
NameChars == Alnum \cup {"_"}

\* What is left of a segment is made of the characters of an identifier and
\* begins with a letter or a digit (normalize.py _identifier).
LEMMA IdentifierText ==
    ASSUME NEW seg \in Text
    PROVE  Identifier(seg) \in Seq(NameChars) \ {<<>>} /\ Identifier(seg)[1] \in Alnum
<1> DEFINE kept == {i \in DOMAIN seg :
                      \/ seg[i] \in Alnum
                      \/ /\ i > 1 /\ seg[i - 1] \in Alnum
                         /\ \E j \in DOMAIN seg : j > i /\ seg[j] \in Alnum}
           order == InOrder(Ranks(kept, Ascending(kept)))
           spelled == [i \in DOMAIN seg |-> Spelling[seg[i]]]
<1>1. /\ DOMAIN seg = 1 .. Len(seg) /\ Len(seg) \in Nat \ {0}
      /\ \A i \in DOMAIN seg : seg[i] \in ToSet(Alphabet)
    BY DEF Text
<1>2. kept \in SUBSET Nat /\ IsFiniteSet(kept)
    <2>1. IsFiniteSet(DOMAIN seg)
        BY <1>1, FS_Interval
    <2>2. kept \in SUBSET (DOMAIN seg)
        OBVIOUS
    <2> HIDE DEF kept
    <2>3. QED  BY <1>1, <2>1, <2>2, FS_Subset
<1>3. Identifier(seg) =
         IF kept # {}
         THEN [k \in DOMAIN order |-> IF seg[order[k]] \in Alnum THEN seg[order[k]] ELSE "_"]
         ELSE Join(spelled, "_")
    <2>1. Identifier(seg) =
             LET o == InOrder([x \in kept |-> 1 + Cardinality({y \in kept : y < x})])
             IN IF kept # {}
                THEN [k \in DOMAIN o |-> IF seg[o[k]] \in Alnum THEN seg[o[k]] ELSE "_"]
                ELSE Join(spelled, "_")
        BY DEF Identifier, Sorted
    <2> HIDE DEF kept, spelled
    <2>2. QED  BY <2>1, AscendingRanks
<1>4. CASE kept # {}
    <2> HIDE DEF kept
    <2>1. /\ order \in Seq(kept) /\ order # <<>> /\ ToSet(order) = kept
          /\ \A i, j \in DOMAIN order : i < j => order[i] < order[j]
        BY <1>2, <1>4, SortedNumbers
    <2> HIDE DEF order
    <2>2. DOMAIN order = 1 .. Len(order) /\ Len(order) \in Nat /\ Len(order) # 0
        BY <2>1
    <2>3. Identifier(seg) = [k \in 1 .. Len(order) |->
                                IF seg[order[k]] \in Alnum THEN seg[order[k]] ELSE "_"]
        BY <1>3, <1>4, <2>2
    <2>4. Identifier(seg) \in [1 .. Len(order) -> NameChars]
        BY <2>3 DEF NameChars
    <2>5. Identifier(seg) \in Seq(NameChars) /\ Len(Identifier(seg)) # 0
        BY <2>2, <2>4
    <2>6. seg[order[1]] \in Alnum
        <3> SUFFICES ASSUME seg[order[1]] \notin Alnum PROVE FALSE
            OBVIOUS
        <3>1. order[1] \in kept /\ order[1] \in Nat /\ 1 \in DOMAIN order
            <4>1. 1 \in DOMAIN order
                BY <2>2
            <4>2. order[1] \in kept
                BY <2>1, <4>1
            <4>3. QED  BY <1>2, <4>1, <4>2
        <3>2. order[1] > 1 /\ seg[order[1] - 1] \in Alnum /\ order[1] \in DOMAIN seg
            BY <3>1 DEF kept
        <3>3. order[1] - 1 \in kept
            BY <1>1, <3>1, <3>2 DEF kept
        <3>4. PICK k \in DOMAIN order : order[k] = order[1] - 1
            BY <2>1, <3>3 DEF ToSet
        <3>5. k \in Nat /\ k >= 1
            BY <2>2
        <3>6. QED  BY <2>1, <3>1, <3>4, <3>5
    <2>7. Identifier(seg)[1] = seg[order[1]]
        <3>1. 1 \in 1 .. Len(order)
            BY <2>2
        <3>2. Identifier(seg)[1] = IF seg[order[1]] \in Alnum THEN seg[order[1]] ELSE "_"
            BY <2>3, <3>1
        <3>3. QED  BY <2>6, <3>2
    <2>8. Identifier(seg) # <<>>
        BY <2>5
    <2>9. QED  BY <2>5, <2>6, <2>7, <2>8
<1>5. CASE kept = {}
    <2>1. spelled \in Seq(Seq(NameChars)) /\ spelled # <<>> /\ spelled[1] # <<>>
        <3>1. ASSUME NEW t \in Seq(Alnum) PROVE t \in Seq(NameChars)
            <4>1. t \in [1 .. Len(t) -> Alnum] /\ Len(t) \in Nat
                OBVIOUS
            <4>2. t \in [1 .. Len(t) -> NameChars]
                BY <4>1 DEF NameChars
            <4>3. QED  BY <4>1, <4>2
        <3>2. \A i \in DOMAIN seg : spelled[i] \in Seq(NameChars) /\ spelled[i] # <<>>
            BY <1>1, <3>1, SpellingAssumption
        <3>3. DOMAIN spelled = 1 .. Len(seg) /\ 1 \in DOMAIN seg
            BY <1>1
        <3>4. spelled \in [1 .. Len(seg) -> Seq(NameChars)]
            BY <1>1, <3>2
        <3> HIDE DEF spelled
        <3>5. spelled \in Seq(Seq(NameChars)) /\ Len(spelled) = Len(seg)
            BY <1>1, <3>4
        <3>6. QED  BY <1>1, <3>2, <3>3, <3>5
    <2>2. "_" \in NameChars
        BY DEF NameChars
    <2>3. spelled[1][1] \in Alnum
        <3>1. spelled[1] \in Seq(Alnum) /\ spelled[1] # <<>>
            BY <1>1, SpellingAssumption
        <3> HIDE DEF spelled
        <3>2. QED  BY <3>1
    <2> HIDE DEF spelled, kept
    <2>4. Join(spelled, "_") \in Seq(NameChars) /\ Join(spelled, "_") # <<>>
          /\ Join(spelled, "_")[1] = spelled[1][1]
        BY <2>1, <2>2, JoinedText
    <2>5. QED  BY <1>3, <1>5, <2>3, <2>4
<1>6. QED  BY <1>4, <1>5

\* lstrip("-") leaves a word, the whole of it when it is all dashes.
LEMMA UndashedText ==
    ASSUME NEW seg \in Text
    PROVE  Undashed(seg) \in Text
<1> DEFINE rest == {i \in DOMAIN seg : seg[i] # "-"}
<1>1. DOMAIN seg = 1 .. Len(seg) /\ Len(seg) \in Nat
    BY DEF Text
<1>2. CASE rest = {}
    BY <1>2 DEF Undashed
<1>3. CASE rest # {}
    <2>1. Min(rest) \in 1 .. Len(seg)
        BY <1>1, <1>3, LeastNatural
    <2>2. Undashed(seg) = SubSeq(seg, Min(rest), Len(seg))
        BY <1>3 DEF Undashed
    <2> HIDE DEF rest
    <2>3. \A m \in 1 .. Len(seg) :
             /\ SubSeq(seg, m, Len(seg)) \in Seq(ToSet(Alphabet))
             /\ Len(SubSeq(seg, m, Len(seg))) # 0
        BY DEF Text
    <2>4. QED  BY <2>1, <2>2, <2>3 DEF Text
<1>4. QED  BY <1>2, <1>3

\* A qualified name is an identifier.
LEMMA NameText ==
    ASSUME NEW f \in PageFindings
    PROVE  QualifiedName(f) \in Seq(NameChars) \ {<<>>} /\ QualifiedName(f)[1] \in Alnum
<1> DEFINE rest == [i \in DOMAIN f.path |-> Identifier(Undashed(f.path[i]))]
           words == <<Identifier(f.binary)>> \o rest
<1>1. f.binary \in Text /\ f.path \in Seq(Text)
    BY FindingFields
<1>2. Identifier(f.binary) \in Seq(NameChars) \ {<<>>} /\ Identifier(f.binary)[1] \in Alnum
    BY <1>1, IdentifierText
<1>3. rest \in Seq(Seq(NameChars))
    <2>1. \A i \in DOMAIN f.path : Identifier(Undashed(f.path[i])) \in Seq(NameChars)
        BY <1>1, UndashedText, IdentifierText
    <2>2. QED  BY <1>1, <2>1
<1>4. QualifiedName(f) = Join(words, "_")
    BY DEF QualifiedName
<1>5. "_" \in NameChars
    BY DEF NameChars
<1> HIDE DEF rest
<1>6. words \in Seq(Seq(NameChars)) /\ words # <<>> /\ words[1] = Identifier(f.binary)
    BY <1>2, <1>3
<1> HIDE DEF words
<1>7. /\ Join(words, "_") \in Seq(NameChars) /\ Join(words, "_") # <<>>
      /\ Join(words, "_")[1] = words[1][1]
    <2>1. words[1] # <<>>
        BY <1>2, <1>6
    <2>2. QED  BY <1>5, <1>6, <2>1, JoinedText
<1>8. QED  BY <1>2, <1>4, <1>6, <1>7

\* lint.py finds no fault with the tool of any variant: it has a name made of
\* the right characters, a binary, and a flag for every option.
LEMMA VariantIsClean ==
    ASSUME NEW fs \in Seq(PageFindings), NEW f \in ToSet(fs)
    PROVE  ToolErrors(VariantOf(fs, f).tool) = {}
<1> DEFINE name == QualifiedName(f)
           group == Group(fs, name, FamilyOf(f.os))
           tool == VariantOf(fs, f).tool
<1>1. /\ tool.name = name /\ tool.binary = Head(group).binary
      /\ tool.params = MergeParams(group)
    BY DEF VariantOf, MergeGroup
<1>2. f \in Named(fs, name, FamilyOf(f.os)) /\ f \in PageFindings
    BY SequenceIsFinite DEF Named
<1>3. Head(group) \in PageFindings
    <2> HIDE DEF name
    <2>1. group \in Seq(PageFindings) /\ f \in ToSet(group)
        BY <1>2, GroupIsNamed
    <2> HIDE DEF group
    <2>2. QED  BY <2>1 DEF ToSet
<1>4. tool.binary # <<>>
    BY <1>1, <1>3, FindingFields DEF Text
<1>5. IsIdentifier(tool.name)
    <2>1. name \in Seq(NameChars) \ {<<>>} /\ name[1] \in Alnum
        BY <1>2, NameText
    <2> HIDE DEF name, tool
    <2>2. \A i \in DOMAIN name : name[i] \in Alnum \cup {"_"}
        <3>1. \A i \in DOMAIN name : name[i] \in NameChars
            BY <2>1
        <3>2. QED  BY <3>1 DEF NameChars
    <2>3. Head(name) \in Alnum /\ name # <<>>
        BY <2>1
    <2>4. QED  BY <1>1, <2>2, <2>3 DEF ToSet, IsIdentifier
<1>6. ASSUME NEW p \in tool.params, p.kind = "option"
      PROVE  p.flag # "" \/ p.short # ""
    <2> HIDE DEF group, tool
    <2>1. PICK q \in ToSet(ParamsOf(group)) :
             /\ q.kind = "option" => (q.long # "" \/ q.short # "")
             /\ p = [name |-> q.name, kind |-> q.kind, short |-> q.short,
                     flag |-> IF q.kind # "option" THEN ""
                              ELSE IF q.long # "" THEN q.long ELSE q.short,
                     enum |-> IF q.kind = "subcommand" THEN q.choices ELSE {}]
        BY <1>1, <1>6 DEF MergeParams
    <2>2. /\ p.kind = q.kind /\ p.short = q.short
          /\ p.flag = IF q.kind # "option" THEN ""
                      ELSE IF q.long # "" THEN q.long ELSE q.short
        BY <2>1
    <2>3. QED  BY <1>6, <2>1, <2>2
<1> HIDE DEF tool
<1>8. ~(\E p \in tool.params : p.kind = "option" /\ p.flag = "" /\ p.short = "")
    BY <1>6
<1>9. ToolErrors(tool) = {}
    BY <1>4, <1>5, <1>8 DEF ToolErrors
<1>10. QED  BY <1>9 DEF tool

\* Nor with the catalog: no two variants of a name and family.  What is left
\* to report is in the findings.
LEMMA OnlyLeaks ==
    ASSUME NEW fs \in Seq(PageFindings)
    PROVE  LintErrors(Normalize(fs), fs)
              = IF \E f \in ToSet(fs) : f.leaks THEN {"placeholder-leak"} ELSE {}
<1>1. \A v \in Normalize(fs) : ToolErrors(v.tool) = {}
    BY Variants, VariantIsClean
<1>2. ASSUME NEW f \in ToSet(fs), NEW g \in ToSet(fs),
             VariantOf(fs, f).tool.name = VariantOf(fs, g).tool.name,
             VariantOf(fs, f).family = VariantOf(fs, g).family
      PROVE  VariantOf(fs, f) = VariantOf(fs, g)
    BY <1>2, Variants DEF VariantOf
<1>3. PICK cat : cat = Normalize(fs)
    OBVIOUS
<1>4. UNION {ToolErrors(v.tool) : v \in cat} = {}
    BY <1>1, <1>3
<1>5. ~ \E u, v \in cat : u # v /\ u.tool.name = v.tool.name /\ u.family = v.family
    BY <1>2, <1>3, Variants
<1>6. LintErrors(cat, fs) = IF \E f \in ToSet(fs) : f.leaks THEN {"placeholder-leak"} ELSE {}
    BY <1>4, <1>5 DEF LintErrors
<1>7. QED  BY <1>3, <1>6

-----------------------------------------------------------------------------
(* Examples. *)

\* A non-empty set of places has a first one, though it may be infinite.
LEMMA FirstPlace ==
    ASSUME NEW S \in SUBSET (Nat \X Nat), S # {}
    PROVE  \E x \in S : \A y \in S : ~Earlier(y, x)
<1> DEFINE A == {x[1] : x \in S}
           a == Min(A)
           B == {x[2] : x \in {y \in S : y[1] = a}}
           b == Min(B)
<1>1. \A x \in S : x = <<x[1], x[2]>> /\ x[1] \in Nat /\ x[2] \in Nat
    OBVIOUS
<1>2. a \in A /\ \A n \in A : a <= n
    <2>1. A # {} /\ A \subseteq Nat
        BY <1>1
    <2> HIDE DEF A
    <2>2. QED  BY <2>1, LeastNatural
<1>3. b \in B /\ \A n \in B : b <= n
    <2>1. B # {} /\ B \subseteq Nat
        BY <1>1, <1>2
    <2> HIDE DEF B
    <2>2. QED  BY <2>1, LeastNatural
<1> HIDE DEF a, b
<1>4. PICK x \in S : x[1] = a /\ x[2] = b
    BY <1>3
<1>5. \A y \in S : ~Earlier(y, x)
    <2> SUFFICES ASSUME NEW y \in S, Earlier(y, x) PROVE FALSE
        OBVIOUS
    <2>1. a <= y[1] /\ (y[1] = a => b <= y[2])
        BY <1>2, <1>3
    <2>2. QED  BY <1>1, <1>4, <2>1 DEF Earlier
<1>6. QED  BY <1>5

\* _merge_examples (normalize.py:446-462): every example it keeps is a
\* finding's, and every command of a finding is kept.
LEMMA ExamplesMerged ==
    ASSUME NEW group \in Seq(PageFindings)
    PROVE  LET merged == MergeExamples(group)
           IN /\ IsFiniteSet(DOMAIN merged) /\ (DOMAIN merged = {} => merged = <<>>)
              /\ \A x \in ToSet(merged) : \E g \in ToSet(group) : x \in ToSet(g.examples)
              /\ \A g \in ToSet(group) : \A e \in ToSet(g.examples) :
                    \E x \in ToSet(merged) : x.command = e.command
<1> DEFINE rows == [n \in DOMAIN group |-> DOMAIN group[n].examples]
           places == UNION {{n} \X rows[n] : n \in DOMAIN rows}
           At(x) == group[x[1]].examples[x[2]]
           kept == {x \in places : \A y \in places :
                       At(y).command = At(x).command => ~Earlier(y, x)}
           order == InOrder(Ranks(kept, InPlace(kept)))
<1>1. IsFiniteSet(places) /\ places \in SUBSET (Nat \X Nat)
    <2>1. IsFiniteSet(DOMAIN rows) /\ DOMAIN rows \subseteq Nat
        BY SequenceIsFinite
    <2>2. \A n \in DOMAIN rows : IsFiniteSet(rows[n]) /\ rows[n] \subseteq Nat
        BY FindingFields
    <2> HIDE DEF rows
    <2>3. QED  BY <2>1, <2>2, PlacesAreFinite
<1>2. places = UNION {{n} \X DOMAIN group[n].examples : n \in DOMAIN group}
    OBVIOUS
<1>p. \A x \in places : /\ x[1] \in DOMAIN group /\ x[2] \in DOMAIN group[x[1]].examples
                        /\ x = <<x[1], x[2]>>
    OBVIOUS
<1>q. \A n \in DOMAIN group : \A i \in DOMAIN group[n].examples : <<n, i>> \in places
    <2> SUFFICES ASSUME NEW n \in DOMAIN group, NEW i \in DOMAIN group[n].examples
                 PROVE  <<n, i>> \in places
        OBVIOUS
    <2>1. <<n, i>> \in {n} \X rows[n]
        OBVIOUS
    <2>2. QED  BY <2>1
<1> HIDE DEF places
<1>3. MergeExamples(group) = [k \in DOMAIN order |-> At(order[k])]
    <2>1. MergeExamples(group) =
             LET o == InOrder([x \in kept |-> 1 + Cardinality({y \in kept : Earlier(y, x)})])
             IN [k \in DOMAIN o |-> At(o[k])]
        BY <1>2 DEF MergeExamples, Sorted
    <2> HIDE DEF At, kept
    <2>2. QED  BY <2>1, PlaceRanks
<1>4. IsFiniteSet(kept) /\ kept \in SUBSET (Nat \X Nat) /\ kept \in SUBSET places
    BY <1>1, FS_Subset
<1>5. order \in Seq(kept) /\ ToSet(order) = kept /\ IsFiniteSet(DOMAIN order)
    <2>1. order \in Seq(kept) /\ ToSet(order) = kept
        <3> HIDE DEF kept
        <3>1. QED  BY <1>4, SortedPlaces
    <2> HIDE DEF kept, order
    <2>2. QED  BY <2>1, SequenceIsFinite
<1>6. \A x \in ToSet(MergeExamples(group)) : \E y \in kept : x = At(y)
    <2> HIDE DEF At, kept, order
    <2>1. QED  BY <1>3, <1>5 DEF ToSet
<1>7. \A y \in kept : At(y) \in ToSet(MergeExamples(group))
    <2> HIDE DEF At, kept, order
    <2>1. QED  BY <1>3, <1>5 DEF ToSet
<1>8. ASSUME NEW x \in ToSet(MergeExamples(group))
      PROVE  \E g \in ToSet(group) : x \in ToSet(g.examples)
    <2>1. PICK y \in kept : x = At(y)
        BY <1>6
    <2>2. group[y[1]] \in ToSet(group) /\ x \in ToSet(group[y[1]].examples)
        BY <1>4, <1>p, <2>1 DEF ToSet
    <2>3. QED  BY <2>2
<1>9. ASSUME NEW g \in ToSet(group), NEW e \in ToSet(g.examples)
      PROVE  \E x \in ToSet(MergeExamples(group)) : x.command = e.command
    <2>1. PICK n \in DOMAIN group : g = group[n]
        BY DEF ToSet
    <2>2. PICK i \in DOMAIN group[n].examples : e = group[n].examples[i]
        BY <2>1 DEF ToSet
    <2> DEFINE same == {y \in places : At(y).command = e.command}
    <2>3. <<n, i>> \in same
        BY <1>q, <2>2
    <2>4. PICK x \in same : \A y \in same : ~Earlier(y, x)
        BY <1>1, <2>3, FirstPlace
    <2>5. x \in kept
        BY <2>4
    <2>6. QED  BY <1>7, <2>4, <2>5
<1> HIDE DEF order, At, kept
<1>10. /\ IsFiniteSet(DOMAIN MergeExamples(group))
       /\ DOMAIN MergeExamples(group) = {} => MergeExamples(group) = <<>>
    BY <1>3, <1>5
<1>11. QED  BY <1>8, <1>9, <1>10

\* The same of the variant of a finding.
LEMMA VariantExamples ==
    ASSUME NEW fs \in Seq(PageFindings), NEW f \in ToSet(fs)
    PROVE  LET tool == VariantOf(fs, f).tool
               sources == Named(fs, QualifiedName(f), FamilyOf(f.os))
           IN /\ IsFiniteSet(DOMAIN tool.examples)
              /\ DOMAIN tool.examples = {} => tool.examples = <<>>
              /\ \A x \in ToSet(tool.examples) : \E g \in sources : x \in ToSet(g.examples)
              /\ \A e \in ToSet(f.examples) :
                    \E x \in ToSet(tool.examples) : x.command = e.command
<1> DEFINE tool == VariantOf(fs, f).tool
           sources == Named(fs, QualifiedName(f), FamilyOf(f.os))
           group == Group(fs, QualifiedName(f), FamilyOf(f.os))
<1>1. tool.examples = MergeExamples(group)
    BY DEF VariantOf, MergeGroup
<1>2. f \in sources
    BY DEF Named
<1>3. group \in Seq(PageFindings) /\ ToSet(group) = sources
    BY GroupIsNamed
<1> HIDE DEF tool, sources, group
<1>4. QED  BY <1>1, <1>2, <1>3, ExamplesMerged DEF tool, sources

-----------------------------------------------------------------------------
(* The build. *)

\* The pages of the corpus that the harvest is done with.
ReadPages == {p \in corpus : p \notin queue /\ Pages[p].os \notin ToSet(osLeft)}

\* The findings are those of the pages read; a page not read yet is in the
\* queue or of a directory still to be listed, and nothing is after the last.
\* The catalog is what the findings normalize to, the index what the catalog
\* gives for its target.  A swap of the corpus ends what is known of the
\* harvest, not what is known of what is made of it.
BuildInv ==
    /\ findings \in Seq(PageFindings)
    /\ swaps \in Nat /\ corpus \subseteq DOMAIN Pages /\ queue \subseteq DOMAIN Pages
    /\ stage = "scan" => findings = <<>> /\ queue = {} /\ swaps = 0
    /\ stage = "ready" => queue = {} /\ osLeft = <<>>
    /\ stage \in {"ready", "indexed", "searching", "answered"} => catalog = Normalize(findings)
    /\ stage \in {"indexed", "searching", "answered"} =>
          index = IndexOf(catalog, index.shell, index.os)
    /\ stage \in {"harvest", "ready"} /\ swaps = 0 =>
          /\ osLeft \in Seq(ToSet(OsDirs))
          /\ \A i, j \in DOMAIN osLeft : osLeft[i] = osLeft[j] => i = j
          /\ queue \subseteq corpus
          /\ \A p \in queue : Pages[p].os \notin ToSet(osLeft)
          /\ ToSet(findings) = {ParsePage(Pages[p], p) : p \in {q \in ReadPages : Wanted(q)}}

LEMMA BuildInit == PipelineInit => BuildInv
<1> SUFFICES ASSUME PipelineInit PROVE BuildInv
    OBVIOUS
<1>1. /\ stage = "scan" /\ findings = <<>> /\ queue = {} /\ swaps = 0 /\ corpus = {}
    BY DEF PipelineInit
<1>2. <<>> \in Seq(PageFindings)
    OBVIOUS
<1>3. QED  BY <1>1, <1>2 DEF BuildInv

\* What the harvest depends on.
LEMMA SameWanted ==
    ASSUME UNCHANGED inventory
    PROVE  \A p : Wanted(p)' = Wanted(p)
BY DEF Wanted

LEMMA BeginBuildBuilds == BuildInv /\ BeginBuild => BuildInv'
<1> SUFFICES ASSUME BuildInv, BeginBuild PROVE BuildInv'
    OBVIOUS
<1>1. /\ stage = "scan" /\ stage' = "harvest" /\ corpus' \in Corpora
      /\ osLeft' = IF corpus' = {} THEN <<>> ELSE OsDirs
      /\ UNCHANGED <<findings, queue, swaps>>
    BY DEF BeginBuild
<1>2. findings = <<>> /\ queue = {} /\ swaps = 0
    BY <1>1 DEF BuildInv
<1>3. corpus' \subseteq DOMAIN Pages /\ \A p \in corpus' : Pages[p].os \in ToSet(OsDirs)
    BY <1>1, CorpusAssumption
<1>4. /\ osLeft' \in Seq(ToSet(OsDirs))
      /\ \A i, j \in DOMAIN osLeft' : osLeft'[i] = osLeft'[j] => i = j
    BY <1>1, CorpusAssumption
<1>5. ReadPages' = {}
    <2>1. corpus' # {} => osLeft' = OsDirs
        BY <1>1
    <2>2. QED  BY <1>3, <2>1 DEF ReadPages
<1>6. ToSet(findings') = {}
    BY <1>1, <1>2 DEF ToSet
<1>7. ToSet(findings') = {ParsePage(Pages[p], p) : p \in {q \in ReadPages' : Wanted(q)'}}
    BY <1>5, <1>6
<1>8. QED  BY <1>1, <1>2, <1>3, <1>4, <1>7 DEF BuildInv

LEMMA ListOsDirBuilds == BuildInv /\ ListOsDir => BuildInv'
<1> SUFFICES ASSUME BuildInv, ListOsDir PROVE BuildInv'
    OBVIOUS
<1>1. /\ stage = "harvest" /\ queue = {} /\ osLeft # <<>>
      /\ queue' = {p \in corpus : Pages[p].os = Head(osLeft)} /\ osLeft' = Tail(osLeft)
      /\ UNCHANGED <<stage, corpus, swaps, findings, inventory>>
    BY DEF ListOsDir, discoveryVars
<1>2. ASSUME swaps = 0
      PROVE  /\ osLeft' \in Seq(ToSet(OsDirs))
             /\ \A i, j \in DOMAIN osLeft' : osLeft'[i] = osLeft'[j] => i = j
             /\ queue' \subseteq corpus'
             /\ \A p \in queue' : Pages[p].os \notin ToSet(osLeft')
             /\ ToSet(findings')
                   = {ParsePage(Pages[p], p) : p \in {q \in ReadPages' : Wanted(q)'}}
    <2>1. /\ osLeft \in Seq(ToSet(OsDirs))
          /\ \A i, j \in DOMAIN osLeft : osLeft[i] = osLeft[j] => i = j
          /\ ToSet(findings) = {ParsePage(Pages[p], p) : p \in {q \in ReadPages : Wanted(q)}}
        BY <1>1, <1>2 DEF BuildInv
    <2>2. /\ Tail(osLeft) \in Seq(ToSet(OsDirs)) /\ Len(osLeft) \in Nat \ {0}
          /\ DOMAIN osLeft = 1 .. Len(osLeft) /\ Head(osLeft) = osLeft[1]
          /\ DOMAIN Tail(osLeft) = 1 .. Len(osLeft) - 1
          /\ \A i \in 1 .. Len(osLeft) - 1 : Tail(osLeft)[i] = osLeft[i + 1]
        BY <1>1, <2>1
    <2>3. \A i, j \in DOMAIN osLeft' : osLeft'[i] = osLeft'[j] => i = j
        BY <1>1, <2>1, <2>2
    <2>4. Head(osLeft) \notin ToSet(osLeft')
        BY <1>1, <2>1, <2>2 DEF ToSet
    <2>5. ToSet(osLeft) = {Head(osLeft)} \cup ToSet(osLeft')
        <3>1. ASSUME NEW i \in 1 .. Len(osLeft)
              PROVE  osLeft[i] \in {Head(osLeft)} \cup ToSet(osLeft')
            <4>1. CASE i = 1
                BY <2>2, <4>1
            <4>2. CASE i # 1
                <5>1. i - 1 \in 1 .. Len(osLeft) - 1 /\ Tail(osLeft)[i - 1] = osLeft[i]
                    BY <2>2, <4>2
                <5>2. QED  BY <1>1, <2>2, <5>1 DEF ToSet
            <4>3. QED  BY <4>1, <4>2
        <3>2. \A i \in 1 .. Len(osLeft) - 1 : Tail(osLeft)[i] \in ToSet(osLeft)
            BY <2>2 DEF ToSet
        <3>3. Head(osLeft) \in ToSet(osLeft)
            BY <2>2 DEF ToSet
        <3>4. QED  BY <1>1, <2>2, <3>1, <3>2, <3>3 DEF ToSet
    <2>6. ReadPages' = ReadPages
        BY <1>1, <2>4, <2>5 DEF ReadPages
    <2>7. QED  BY <1>1, <2>1, <2>2, <2>3, <2>4, <2>6, SameWanted
<1>3. queue' \subseteq DOMAIN Pages
    BY <1>1 DEF BuildInv
<1>4. QED  BY <1>1, <1>2, <1>3 DEF BuildInv

LEMMA ReadPageBuilds == BuildInv /\ ReadPage => BuildInv'
<1> SUFFICES ASSUME BuildInv, ReadPage PROVE BuildInv'
    OBVIOUS
<1>1. /\ stage = "harvest" /\ UNCHANGED <<stage, corpus, osLeft, swaps, inventory>>
    BY DEF ReadPage, discoveryVars
<1>2. PICK p \in queue :
         /\ queue' = queue \ {p}
         /\ findings' = IF p \in corpus /\ Wanted(p)
                        THEN Append(findings, ParsePage(Pages[p], p)) ELSE findings
    BY DEF ReadPage
<1>3. Wanted(p) => ParsePage(Pages[p], p) \in PageFindings
    BY DEF Wanted, PageFindings, BuildInv
<1>4. findings' \in Seq(PageFindings)
    BY <1>2, <1>3 DEF BuildInv
<1>5. ASSUME swaps = 0
      PROVE  ToSet(findings')
                = {ParsePage(Pages[q], q) : q \in {r \in ReadPages' : Wanted(r)'}}
    <2>1. /\ p \in corpus /\ Pages[p].os \notin ToSet(osLeft)
          /\ ToSet(findings) = {ParsePage(Pages[q], q) : q \in {r \in ReadPages : Wanted(r)}}
        BY <1>1, <1>5 DEF BuildInv
    <2>2. ReadPages' = ReadPages \cup {p}
        BY <1>1, <1>2, <2>1 DEF ReadPages
    <2>3. ToSet(findings') = ToSet(findings)
                             \cup (IF Wanted(p) THEN {ParsePage(Pages[p], p)} ELSE {})
        <3>1. \A s \in Seq(PageFindings), e \in PageFindings :
                 /\ DOMAIN Append(s, e) = DOMAIN s \cup {Len(s) + 1}
                 /\ \A i \in DOMAIN s : Append(s, e)[i] = s[i]
                 /\ Append(s, e)[Len(s) + 1] = e
            OBVIOUS
        <3>2. \A s \in Seq(PageFindings), e \in PageFindings :
                 ToSet(Append(s, e)) = ToSet(s) \cup {e}
            BY <3>1 DEF ToSet
        <3>3. QED  BY <1>2, <1>3, <2>1, <3>2 DEF BuildInv
    <2>4. QED  BY <1>1, <2>1, <2>2, <2>3, SameWanted
<1>6. QED  BY <1>1, <1>2, <1>4, <1>5 DEF BuildInv

LEMMA SwapBuilds == BuildInv /\ Swap => BuildInv'
<1> SUFFICES ASSUME BuildInv, Swap PROVE BuildInv'
    OBVIOUS
<1>1. /\ stage = "harvest" /\ UNCHANGED <<stage, queue, findings>>
      /\ swaps' = swaps + 1 /\ corpus' \in Corpora \cup {{}}
    BY DEF Swap
<1>2. corpus' \subseteq DOMAIN Pages
    BY <1>1, CorpusAssumption
<1>3. swaps' \in Nat \ {0}
    BY <1>1 DEF BuildInv
<1>4. QED  BY <1>1, <1>2, <1>3 DEF BuildInv

LEMMA FinishBuildBuilds == BuildInv /\ FinishBuild => BuildInv'
<1> SUFFICES ASSUME BuildInv, FinishBuild PROVE BuildInv'
    OBVIOUS
<1>1. /\ stage = "harvest" /\ stage' = "ready" /\ queue = {} /\ osLeft = <<>>
      /\ catalog' = Normalize(findings)
      /\ UNCHANGED <<corpus, osLeft, queue, swaps, findings, inventory>>
    BY DEF FinishBuild, discoveryVars
<1>2. ReadPages' = ReadPages
    BY <1>1 DEF ReadPages
<1>3. QED  BY <1>1, <1>2, SameWanted DEF BuildInv

LEMMA BuildIndexBuilds == BuildInv /\ BuildIndex => BuildInv'
<1> SUFFICES ASSUME BuildInv, BuildIndex PROVE BuildInv'
    OBVIOUS
<1>1. /\ stage = "ready" /\ stage' = "indexed"
      /\ UNCHANGED <<corpus, osLeft, queue, swaps, findings, catalog>>
    BY DEF BuildIndex
<1>2. PICK os, shell : index' = IndexOf(catalog, shell, os)
    BY DEF BuildIndex
<1>3. index'.shell = shell /\ index'.os = os
    BY <1>2 DEF IndexOf
<1>4. QED  BY <1>1, <1>2, <1>3 DEF BuildInv

\* Every step of the build keeps it.
LEMMA BuildStep == BuildInv /\ [PipelineNext]_pipelineVars => BuildInv'
<1> SUFFICES ASSUME BuildInv, [PipelineNext]_pipelineVars PROVE BuildInv'
    OBVIOUS
<1>1. CASE stage = "scan" /\ UNCHANGED <<stage, buildVars>>
    BY <1>1 DEF BuildInv, buildVars
<1>2. CASE UNCHANGED <<buildVars, inventory>> /\ <<stage, stage'>> \in {
             <<"harvest", "named">>, <<"indexed", "searching">>,
             <<"searching", "searching">>, <<"searching", "answered">>}
    BY <1>2 DEF BuildInv, buildVars
<1>3. CASE UNCHANGED pipelineVars
    <2>1. UNCHANGED <<stage, corpus, osLeft, queue, swaps, findings, catalog, index, inventory>>
        BY <1>3 DEF pipelineVars, discoveryVars, buildVars
    <2>2. ReadPages' = ReadPages
        BY <2>1 DEF ReadPages
    <2>3. QED  BY <2>1, <2>2, SameWanted DEF BuildInv
<1>4. CASE BeginBuild \/ ListOsDir \/ ReadPage \/ Swap \/ FinishBuild \/ BuildIndex
    BY <1>4, BeginBuildBuilds, ListOsDirBuilds, ReadPageBuilds, SwapBuilds,
       FinishBuildBuilds, BuildIndexBuilds
<1>5. QED
    BY <1>1, <1>2, <1>3, <1>4
       DEF PipelineNext, ServeNames, BeginSearch, Consider, Serve, discoveryVars

-----------------------------------------------------------------------------
(* The search: one turn of its loop. *)

\* What stands in a list `out` of tools and has its place in the ranking r
\* before place p, and what of it has the binary of the tool there.
Above(r, out, p) == {j \in ToSet(out) : \E a \in DOMAIN r : r[a] = j /\ a < p}
SameAbove(ix, r, out, p) == {j \in Above(r, out, p) : Binary(ix, j) = Binary(ix, r[p])}

\* An order of ids without repeats, over numbers that need not be consecutive.
Ranking(r) == DOMAIN r \subseteq Nat /\ \A m, n \in DOMAIN r : r[m] = r[n] => m = n

\* The loop of search() (index.py:446-490) has looked at the places P, which
\* are the first, and has the list `out`: in the order of the ranking, and a
\* tool is in it unless it is not eligible or what was before it has filled
\* its binary's share.
Looked(ix, q, installed, r, P, out) ==
    /\ P \subseteq DOMAIN r
    /\ \A p \in P : \A n \in DOMAIN r \ P : p < n
    /\ out \in Seq({r[p] : p \in P})
    /\ IsFiniteSet(ToSet(out)) /\ Cardinality(ToSet(out)) = Len(out)
    /\ \A k, m \in DOMAIN out : k < m =>
          \A a, b \in P : r[a] = out[k] /\ r[b] = out[m] => a < b
    /\ \A p \in P :
          IF r[p] \in ToSet(out)
          THEN /\ Eligible(ix, q, installed, r[p])
               /\ Cardinality(SameAbove(ix, r, out, p)) < MaxPerBinary
          ELSE Eligible(ix, q, installed, r[p]) =>
                  Cardinality(SameAbove(ix, r, out, p)) = MaxPerBinary
    /\ \A i : Cardinality(Share(ix, out, i)) <= MaxPerBinary

\* The loop starts so.
LEMMA NothingLooked ==
    ASSUME NEW ix, NEW q, NEW installed, NEW r
    PROVE  Looked(ix, q, installed, r, {}, <<>>)
<1>1. ToSet(<<>>) = {}
    BY DEF ToSet
<1>2. \A i : Share(ix, <<>>, i) = {}
    BY <1>1 DEF Share
<1>3. <<>> \in Seq({r[p] : p \in {}}) /\ Len(<<>>) = 0 /\ DOMAIN <<>> = {}
    OBVIOUS
<1>4. QED  BY <1>1, <1>2, <1>3, FS_EmptySet, LimitAssumption DEF Looked

\* Where a longer sequence lives.
LEMMA AppendedLives ==
    ASSUME NEW T, NEW s \in Seq(T), NEW e
    PROVE  Append(s, e) \in Seq(T \cup {e})
<1>1. s \in [1 .. Len(s) -> T] /\ Len(s) \in Nat
    OBVIOUS
<1>2. s \in [1 .. Len(s) -> T \cup {e}]
    BY <1>1
<1>3. s \in Seq(T \cup {e}) /\ e \in T \cup {e}
    BY <1>1, <1>2
<1>4. QED  BY <1>3

\* And the next turn keeps it.
LEMMA LooksOn ==
    ASSUME NEW ix, NEW q, NEW installed, NEW r, Ranking(r), NEW P, NEW out,
           Looked(ix, q, installed, r, P, out),
           NEW n \in DOMAIN r \ P, \A m \in DOMAIN r \ P : n <= m
    PROVE  Looked(ix, q, installed, r, P \cup {n}, Take(ix, q, installed, out, r[n]))
<1> DEFINE i == r[n]
           ok == Eligible(ix, q, installed, i)
<1>1. /\ P \subseteq DOMAIN r /\ n \in Nat /\ \A p \in P : p < n /\ p \in Nat
      /\ \A p \in P \cup {n} : \A m \in DOMAIN r \ (P \cup {n}) : p < m
    <2>1. \A p \in P : p < n /\ p \in Nat
        BY DEF Looked, Ranking
    <2>2. \A m \in DOMAIN r \ (P \cup {n}) : n < m
        BY DEF Ranking
    <2>3. QED  BY <2>1, <2>2 DEF Looked, Ranking
<1>2. out \in Seq({r[p] : p \in P}) /\ ToSet(out) \subseteq {r[p] : p \in P}
    BY SequenceIsFinite DEF Looked
<1>3. i \notin ToSet(out)
    BY <1>1, <1>2 DEF Ranking
<1>4. \A p \in P \cup {n} : r[p] = i => p = n
    BY <1>1 DEF Ranking
<1>5. SameAbove(ix, r, out, n) = Share(ix, out, i)
    BY <1>1, <1>2 DEF SameAbove, Above, Share
<1>6. /\ IsFiniteSet(Share(ix, out, i)) /\ Cardinality(Share(ix, out, i)) \in Nat
      /\ Cardinality(Share(ix, out, i)) <= MaxPerBinary
    <2>1. IsFiniteSet(Share(ix, out, i))
        BY FS_Subset DEF Looked, Share
    <2>2. QED  BY <2>1, FS_CardinalityType DEF Looked
<1>7. CASE ~(ok /\ Cardinality(Share(ix, out, i)) < MaxPerBinary)
    <2>1. Take(ix, q, installed, out, i) = out
        BY <1>7 DEF Take
    <2>2. ok => Cardinality(SameAbove(ix, r, out, n)) = MaxPerBinary
        BY <1>5, <1>6, <1>7, LimitAssumption
    <2>3. out \in Seq({r[p] : p \in P \cup {n}})
        <3>1. out \in [1 .. Len(out) -> {r[p] : p \in P}] /\ Len(out) \in Nat
            BY <1>2
        <3>2. out \in [1 .. Len(out) -> {r[p] : p \in P \cup {n}}]
            BY <3>1
        <3>3. QED  BY <3>1, <3>2
    <2>4. \A k, m \in DOMAIN out : k < m =>
             \A a, b \in P \cup {n} : r[a] = out[k] /\ r[b] = out[m] => a < b
        <3>1. \A k \in DOMAIN out : out[k] # i
            BY <1>3 DEF ToSet
        <3>2. QED  BY <3>1 DEF Looked
    <2>5. QED  BY <1>1, <1>3, <2>1, <2>2, <2>3, <2>4 DEF Looked
<1>8. CASE ok /\ Cardinality(Share(ix, out, i)) < MaxPerBinary
    <2> DEFINE new == Append(out, i)
    <2>1. Take(ix, q, installed, out, i) = new
        BY <1>8 DEF Take
    <2>2. /\ ToSet(new) = ToSet(out) \cup {i}
          /\ new \in Seq({r[p] : p \in P} \cup {i})
          /\ DOMAIN out = 1 .. Len(out) /\ Len(out) \in Nat
          /\ DOMAIN new = 1 .. Len(out) + 1 /\ Len(new) = Len(out) + 1
          /\ \A k \in DOMAIN out : new[k] = out[k]
          /\ new[Len(out) + 1] = i
        <3> HIDE DEF i
        <3>1. PICK T : T = {r[p] : p \in P}
            OBVIOUS
        <3>2. out \in Seq(T)
            BY <1>2, <3>1
        <3>3. PICK e : e = i
            OBVIOUS
        <3>4. Append(out, e) \in Seq(T \cup {e})
            BY <3>2, AppendedLives
        <3>5. /\ DOMAIN out = 1 .. Len(out) /\ Len(out) \in Nat
              /\ DOMAIN Append(out, e) = 1 .. Len(out) + 1 /\ Len(Append(out, e)) = Len(out) + 1
              /\ \A k \in DOMAIN out : Append(out, e)[k] = out[k]
              /\ Append(out, e)[Len(out) + 1] = e
            BY <3>2
        <3>6. ToSet(Append(out, e)) = ToSet(out) \cup {e}
            <4>1. DOMAIN Append(out, e) = DOMAIN out \cup {Len(out) + 1}
                BY <3>5
            <4>2. QED  BY <3>5, <4>1 DEF ToSet
        <3>7. QED  BY <3>1, <3>3, <3>4, <3>5, <3>6
    <2> HIDE DEF new, i
    <2>3. new \in Seq({r[p] : p \in P \cup {n}})
        <3>1. {r[p] : p \in P} \cup {i} = {r[p] : p \in P \cup {n}}
            BY DEF i
        <3>2. QED  BY <2>2, <3>1
    <2>4. IsFiniteSet(ToSet(new)) /\ Cardinality(ToSet(new)) = Len(new)
        <3>1. IsFiniteSet(ToSet(out)) /\ Cardinality(ToSet(out)) = Len(out)
            BY DEF Looked
        <3>2. /\ IsFiniteSet(ToSet(out) \cup {i})
              /\ Cardinality(ToSet(out) \cup {i}) = Cardinality(ToSet(out)) + 1
            BY <1>3, <3>1, FS_AddElement
        <3>3. QED  BY <2>2, <3>1, <3>2
    <2>5. \A k, m \in DOMAIN new : k < m =>
             \A a, b \in P \cup {n} : r[a] = new[k] /\ r[b] = new[m] => a < b
        <3> SUFFICES ASSUME NEW k \in DOMAIN new, NEW m \in DOMAIN new, k < m,
                            NEW a \in P \cup {n}, NEW b \in P \cup {n},
                            r[a] = new[k], r[b] = new[m]
                     PROVE  a < b
            OBVIOUS
        <3>1. k \in DOMAIN out /\ new[k] = out[k] /\ out[k] # i
            BY <1>3, <2>2 DEF ToSet
        <3>2. a \in P
            BY <3>1 DEF i
        <3>3. CASE m = Len(out) + 1
            BY <1>1, <1>4, <2>2, <3>2, <3>3
        <3>4. CASE m # Len(out) + 1
            <4>1. m \in DOMAIN out /\ new[m] = out[m] /\ out[m] # i
                BY <1>3, <2>2, <3>4 DEF ToSet
            <4>2. b \in P
                BY <4>1 DEF i
            <4>3. QED  BY <3>1, <3>2, <4>1, <4>2 DEF Looked
        <3>5. QED  BY <3>3, <3>4
    <2>6. \A p \in P \cup {n} : SameAbove(ix, r, new, p) = SameAbove(ix, r, out, p)
        <3> SUFFICES ASSUME NEW p \in P \cup {n}
                     PROVE  Above(r, new, p) = Above(r, out, p)
            BY DEF SameAbove
        <3>1. \A a \in DOMAIN r : r[a] = i => ~(a < p)
            BY <1>1 DEF Ranking, i
        <3>2. QED  BY <2>2, <3>1 DEF Above
    <2>7. ASSUME NEW j PROVE Cardinality(Share(ix, new, j)) <= MaxPerBinary
        <3>1. CASE Binary(ix, i) # Binary(ix, j)
            <4>1. Share(ix, new, j) = Share(ix, out, j)
                BY <2>2, <3>1 DEF Share
            <4>2. QED  BY <4>1 DEF Looked
        <3>2. CASE Binary(ix, i) = Binary(ix, j)
            <4>1. /\ Share(ix, new, j) = Share(ix, out, i) \cup {i}
                  /\ i \notin Share(ix, out, i)
                BY <1>3, <2>2, <3>2 DEF Share
            <4>2. Cardinality(Share(ix, new, j)) = Cardinality(Share(ix, out, i)) + 1
                BY <1>6, <4>1, FS_AddElement
            <4>3. QED  BY <1>6, <1>8, <4>2, LimitAssumption
        <3>3. QED  BY <3>1, <3>2
    <2>8. ASSUME NEW p \in P \cup {n}
          PROVE  IF r[p] \in ToSet(new)
                 THEN /\ Eligible(ix, q, installed, r[p])
                      /\ Cardinality(SameAbove(ix, r, new, p)) < MaxPerBinary
                 ELSE Eligible(ix, q, installed, r[p]) =>
                         Cardinality(SameAbove(ix, r, new, p)) = MaxPerBinary
        <3>1. CASE p = n
            BY <1>5, <1>8, <2>2, <2>6, <3>1 DEF i
        <3>2. CASE p # n
            <4>1. p \in P /\ (r[p] \in ToSet(new) <=> r[p] \in ToSet(out))
                BY <1>4, <2>2, <3>2
            <4>2. QED  BY <2>6, <4>1 DEF Looked
        <3>3. QED  BY <3>1, <3>2
    <2>9. QED  BY <1>1, <2>1, <2>3, <2>4, <2>5, <2>7, <2>8 DEF Looked, i
<1>9. QED  BY <1>7, <1>8

-----------------------------------------------------------------------------
(* What is searched. *)

\* A finite set in the order of ranks: what stands in it, and where.
LEMMA RankedSet ==
    ASSUME NEW S, NEW R, IsFiniteSet(S)
    PROVE  LET o == InOrder(Ranks(S, R))
           IN /\ DOMAIN o \subseteq Nat /\ IsFiniteSet(DOMAIN o)
              /\ \A n \in DOMAIN o : o[n] \in S
              /\ \A m, n \in DOMAIN o : o[m] = o[n] => m = n
              /\ S # {} => DOMAIN o # {}
<1>1. DOMAIN Ranks(S, R) = S
    BY RankType
<1>2. S # {} => DOMAIN InOrder(Ranks(S, R)) # {}
    BY <1>1 DEF InOrder
<1>3. QED  BY <1>1, <1>2, RankType, InOrderValues

\* ByScore lists ids of what it was given.
LEMMA ScoredIds ==
    ASSUME NEW scored, IsFiniteSet(scored)
    PROVE  LET s == ByScore(scored)
           IN /\ DOMAIN s \subseteq Nat /\ IsFiniteSet(DOMAIN s)
              /\ \A n \in DOMAIN s : \E x \in scored : s[n] = x.id
              /\ scored # {} => DOMAIN s # {}
<1> DEFINE Better(x, y) == x.score > y.score \/ (x.score = y.score /\ x.id < y.id)
           R == {z \in scored \X scored : Better(z[1], z[2])}
           order == InOrder(Ranks(scored, R))
<1>1. ByScore(scored) =
         LET o == InOrder([x \in scored |-> 1 + Cardinality({y \in scored : Better(y, x)})])
         IN [n \in DOMAIN o |-> o[n].id]
    BY DEF ByScore, Sorted
<1> HIDE DEF Better
<1>2. ByScore(scored) = [n \in DOMAIN order |-> order[n].id]
    <2>1. \A x \in scored :
             {y \in scored : Better(y, x)} = {y \in scored : <<y, x>> \in R}
        OBVIOUS
    <2> HIDE DEF R
    <2>2. QED  BY <1>1, <2>1 DEF Ranks
<1> HIDE DEF R
<1>3. /\ DOMAIN order \subseteq Nat /\ IsFiniteSet(DOMAIN order)
      /\ \A n \in DOMAIN order : order[n] \in scored
      /\ scored # {} => DOMAIN order # {}
    BY RankedSet
<1> HIDE DEF order
<1>4. QED  BY <1>2, <1>3

\* Ranked lists tools of the index, none twice: ids are fused once each
\* (index.py fuse_ranked_ids) and the sort keeps them apart.
LEMMA RankedIds ==
    ASSUME NEW ix, IsFiniteSet(Docs(ix)), NEW q, NEW relevance
    PROVE  LET r == Ranked(ix, q, relevance)
           IN Ranking(r) /\ \A n \in DOMAIN r : r[n] \in Docs(ix)
<1> DEFINE Lexical == {[id |-> i, score |-> relevance[i]]
                       : i \in {j \in Docs(ix) : relevance[j] > 0}}
           Prefix == {x \in {[id |-> i, score |-> PrefixScore(ix, q, i)] : i \in Docs(ix)} :
                         x.score > 0}
           lexical == ByScore(Lexical)
           prefix == ByScore(Prefix)
           ids == ToSet(lexical) \cup ToSet(prefix)
           EntryOf(x) == LET whole == WholeQuery(ix, q, x.id)
                    IN [id |-> x.id, tier |-> IF whole THEN 0 ELSE 1,
                        length |-> IF whole THEN Len(ix.invocation[x.id]) ELSE 0,
                        score |-> x.score * BoostOf(ix, relevance, x.id)
                                  * Prominence(ix.tools[x.id])]
           entries == {EntryOf(x) : x \in Fused(lexical, prefix)}
           before(x, y) ==
              IF x.tier /= y.tier THEN x.tier < y.tier
              ELSE IF x.length /= y.length THEN x.length < y.length
              ELSE x.score > y.score \/ (x.score = y.score /\ x.id < y.id)
           R == {z \in entries \X entries : before(z[1], z[2])}
           order == InOrder(Ranks(entries, R))
<1>1. IsFiniteSet(Lexical) /\ \A x \in Lexical : x.id \in Docs(ix)
    <2> DEFINE S == {j \in Docs(ix) : relevance[j] > 0}
               f == [i \in S |-> [id |-> i, score |-> relevance[i]]]
    <2>1. IsFiniteSet(S)
        BY FS_Subset
    <2>2. Lexical = {f[i] : i \in DOMAIN f} /\ DOMAIN f = S
        OBVIOUS
    <2>3. IsFiniteSet({f[i] : i \in DOMAIN f})
        <3> HIDE DEF f
        <3>1. QED  BY <2>1, <2>2, ImageIsFinite
    <2>4. \A x \in Lexical : x.id \in Docs(ix)
        OBVIOUS
    <2>5. QED  BY <2>2, <2>3, <2>4
<1>2. IsFiniteSet(Prefix) /\ \A x \in Prefix : x.id \in Docs(ix)
    <2> DEFINE f == [i \in Docs(ix) |-> [id |-> i, score |-> PrefixScore(ix, q, i)]]
    <2>1. Prefix \subseteq {f[i] : i \in DOMAIN f} /\ DOMAIN f = Docs(ix)
        OBVIOUS
    <2>2. IsFiniteSet({f[i] : i \in DOMAIN f})
        <3> HIDE DEF f
        <3>1. QED  BY <2>1, ImageIsFinite
    <2>3. IsFiniteSet(Prefix)
        <3> HIDE DEF f, Prefix
        <3>1. QED  BY <2>1, <2>2, FS_Subset
    <2>4. QED  BY <2>3
<1>p. \A x \in Fused(lexical, prefix) : x.id \in ids
    <2> HIDE DEF lexical, prefix
    <2>1. QED  BY DEF Fused
<1>q. \A x, y \in Fused(lexical, prefix) : x.id = y.id => x = y
    <2> SUFFICES ASSUME NEW x \in Fused(lexical, prefix), NEW y \in Fused(lexical, prefix),
                        x.id = y.id
                 PROVE  x = y
        OBVIOUS
    <2> HIDE DEF lexical, prefix
    <2> DEFINE score(i) == 2 * Reciprocal(lexical, i) + 5 * Reciprocal(prefix, i)
    <2>1. PICK i : x = [id |-> i, score |-> score(i)]
        BY DEF Fused
    <2>2. PICK j : y = [id |-> j, score |-> score(j)]
        BY DEF Fused
    <2> HIDE DEF score
    <2>3. QED  BY <2>1, <2>2
<1>3. Ranked(ix, q, relevance) = [n \in DOMAIN order |-> order[n].id]
    <2>1. Ranked(ix, q, relevance) =
             LET o == InOrder([x \in entries |-> 1 + Cardinality({y \in entries : before(y, x)})])
             IN [n \in DOMAIN o |-> o[n].id]
        BY DEF Ranked, Sorted
    <2> HIDE DEF before, entries
    <2>2. \A x \in entries : {y \in entries : before(y, x)} = {y \in entries : <<y, x>> \in R}
        OBVIOUS
    <2> HIDE DEF R
    <2>3. QED  BY <2>1, <2>2 DEF Ranks
<1> HIDE DEF Lexical, Prefix
<1>4. IsFiniteSet(ids) /\ ids \subseteq Docs(ix)
    <2>1. /\ IsFiniteSet(DOMAIN lexical) /\ \A n \in DOMAIN lexical : lexical[n] \in Docs(ix)
          /\ IsFiniteSet(DOMAIN prefix) /\ \A n \in DOMAIN prefix : prefix[n] \in Docs(ix)
        BY <1>1, <1>2, ScoredIds
    <2> HIDE DEF lexical, prefix
    <2>2. IsFiniteSet(ToSet(lexical)) /\ IsFiniteSet(ToSet(prefix))
        BY <2>1, ImageIsFinite DEF ToSet
    <2>3. QED  BY <2>1, <2>2, FS_Union DEF ToSet
<1> HIDE DEF lexical, prefix
<1>5. \A e \in entries : \E x \in Fused(lexical, prefix) : e = EntryOf(x) /\ e.id = x.id
    OBVIOUS
<1> HIDE DEF EntryOf
<1>6. (\A e \in entries : e.id \in ids) /\ \A d, e \in entries : d.id = e.id => d = e
    BY <1>p, <1>q, <1>5
<1>7. IsFiniteSet(entries)
    <2> DEFINE g == [e \in entries |-> e.id]
    <2>1. g \in Injection(entries, ids)
        <3> HIDE DEF entries, ids
        <3>1. QED  BY <1>6 DEF Injection, IsInjective
    <2> HIDE DEF g, entries, ids
    <2>2. QED  BY <1>4, <2>1, FS_Injection
<1> HIDE DEF entries, ids
<1>8. /\ DOMAIN order \subseteq Nat
      /\ \A n \in DOMAIN order : order[n] \in entries
      /\ \A m, n \in DOMAIN order : order[m] = order[n] => m = n
    BY <1>7, RankedSet
<1> HIDE DEF order
<1>9. QED  BY <1>3, <1>4, <1>6, <1>8 DEF Ranking

\* The index holds tools of the catalog that are of its target
\* (normalize.py:401-411).
LEMMA DocsAreTools ==
    ASSUME NEW fs \in Seq(PageFindings), NEW shell, NEW os
    PROVE  LET ix == IndexOf(Normalize(fs), shell, os)
           IN /\ IsFiniteSet(Docs(ix))
              /\ \A i \in Docs(ix) : \E v \in Normalize(fs) :
                    /\ ix.tools[i] = v.tool /\ shell \in v.tool.platforms
                    /\ \/ RuntimeFamily(os) = "unknown"
                       \/ v.family = RuntimeFamily(os)
                       \/ ~Concrete(v.family)
<1> DEFINE cat == Normalize(fs)
           S == UNION {Select(cat, v.tool.name, shell, os) : v \in cat}
           R == {z \in S \X S : Precedes(z[1].name, z[2].name)}
           order == InOrder(Ranks(S, R))
<1>1. ForTarget(cat, shell, os) = order
    <2>1. ForTarget(cat, shell, os)
             = InOrder([x \in S |-> 1 + Cardinality({y \in S : Precedes(y.name, x.name)})])
        BY DEF ForTarget, Sorted
    <2> HIDE DEF S
    <2>2. \A x \in S : {y \in S : Precedes(y.name, x.name)} = {y \in S : <<y, x>> \in R}
        OBVIOUS
    <2> HIDE DEF R
    <2>3. QED  BY <2>1, <2>2 DEF Ranks
<1>2. IndexOf(cat, shell, os).tools = order
    <2> HIDE DEF order, cat
    <2>1. QED  BY <1>1 DEF IndexOf
<1>3. \A t \in S : \E v \in cat :
         /\ t = v.tool /\ shell \in v.tool.platforms
         /\ \/ RuntimeFamily(os) = "unknown"
            \/ v.family = RuntimeFamily(os)
            \/ ~Concrete(v.family)
    <2> HIDE DEF cat
    <2>1. QED  BY DEF Select, MostSpecific
<1>4. IsFiniteSet(cat)
    <2> DEFINE f == [g \in ToSet(fs) |-> VariantOf(fs, g)]
    <2>1. cat = {f[g] : g \in DOMAIN f} /\ DOMAIN f = ToSet(fs)
        BY Variants
    <2> HIDE DEF f, cat
    <2>2. QED  BY <2>1, SequenceIsFinite, ImageIsFinite
<1> HIDE DEF cat, S
<1>5. IsFiniteSet(S)
    <2> DEFINE f == [v \in cat |-> v.tool]
    <2>1. S \subseteq {f[v] : v \in DOMAIN f} /\ DOMAIN f = cat
        BY <1>3
    <2>2. IsFiniteSet({f[v] : v \in DOMAIN f})
        <3> HIDE DEF f
        <3>1. QED  BY <1>4, <2>1, ImageIsFinite
    <2> HIDE DEF f
    <2>3. QED  BY <2>1, <2>2, FS_Subset
<1>6. IsFiniteSet(DOMAIN order) /\ \A n \in DOMAIN order : order[n] \in S
    BY <1>5, RankedSet
<1> HIDE DEF order
<1>7. QED  BY <1>2, <1>3, <1>6 DEF Docs, cat

-----------------------------------------------------------------------------
(* The search. *)

\* The loop of search() stands where its list says, or has stopped at the
\* limit; an answer is a beginning of what was found, the whole of it printed.
SearchInv ==
    stage \in {"searching", "answered"} =>
       /\ request = [query |-> request.query, limit |-> request.limit,
                     ranked |-> request.ranked, left |-> request.left,
                     results |-> request.results]
       /\ request.limit \in Nat \ {0}
       /\ Ranking(request.ranked)
       /\ \A n \in DOMAIN request.ranked : request.ranked[n] \in Docs(index)
       /\ \E P : /\ Looked(index, request.query, Names(inventory), request.ranked, P,
                           request.results)
                 /\ \/ /\ request.left = DOMAIN request.ranked \ P
                       /\ Len(request.results) < request.limit
                    \/ request.left = {} /\ Len(request.results) = request.limit
       /\ stage = "answered" =>
             /\ request.left = {}
             /\ printed = [k \in DOMAIN request.results |->
                              Suggestion(index.tools[request.results[k]], request.query)]
             /\ request.results # <<>> =>
                   \E n \in 1 .. Len(printed) : answer = SubSeq(printed, 1, n)

LEMMA BeginSearchSearches == BuildInv /\ BeginSearch => SearchInv'
<1> SUFFICES ASSUME BuildInv, BeginSearch PROVE SearchInv'
    OBVIOUS
<1>1. /\ stage = "indexed" /\ stage' = "searching" /\ UNCHANGED <<index, inventory>>
    BY DEF BeginSearch, discoveryVars, buildVars
<1>2. PICK q, ranked, limit :
         /\ ranked \in Rankings(q) /\ limit \in Limits
         /\ request' = [query |-> q, limit |-> limit, ranked |-> ranked,
                        left |-> DOMAIN ranked, results |-> <<>>]
    BY DEF BeginSearch
<1>3. IsFiniteSet(Docs(index))
    BY <1>1, DocsAreTools DEF BuildInv
<1>4. Ranking(ranked) /\ \A n \in DOMAIN ranked : ranked[n] \in Docs(index)
    <2>1. CASE ranked = <<>>
        BY <2>1 DEF Ranking
    <2>2. ASSUME NEW r, ranked = Ranked(index, q, r)
          PROVE  Ranking(ranked) /\ \A n \in DOMAIN ranked : ranked[n] \in Docs(index)
        BY <1>3, <2>2, RankedIds
    <2>3. ranked = <<>> \/ \E r : ranked = Ranked(index, q, r)
        BY <1>2 DEF Rankings
    <2>4. QED  BY <2>1, <2>2, <2>3
<1>5. Looked(index, q, Names(inventory), ranked, {}, <<>>)
    BY NothingLooked
<1>6. limit \in Nat \ {0} /\ Len(<<>>) = 0
    BY <1>2, LimitAssumption
<1>7. Names(inventory)' = Names(inventory) /\ Docs(index)' = Docs(index)
    BY <1>1
<1>8. /\ request'.query = q /\ request'.limit = limit /\ request'.ranked = ranked
      /\ request'.left = DOMAIN ranked /\ request'.results = <<>>
      /\ request' = [query |-> request'.query, limit |-> request'.limit,
                     ranked |-> request'.ranked, left |-> request'.left,
                     results |-> request'.results]
    BY <1>2
<1>9. \E P : /\ Looked(index', request'.query, Names(inventory)', request'.ranked, P,
                     request'.results)
             /\ request'.left = DOMAIN request'.ranked \ P
             /\ Len(request'.results) < request'.limit
    <2>1. /\ Looked(index', request'.query, Names(inventory)', request'.ranked, {},
                    request'.results)
          /\ request'.left = DOMAIN request'.ranked \ {}
          /\ Len(request'.results) < request'.limit
        BY <1>1, <1>5, <1>6, <1>8
    <2>2. QED  BY <2>1
<1>10. QED  BY <1>1, <1>4, <1>6, <1>7, <1>8, <1>9 DEF SearchInv

LEMMA ConsiderSearches == SearchInv /\ Consider => SearchInv'
<1> SUFFICES ASSUME SearchInv, Consider PROVE SearchInv'
    OBVIOUS
<1> DEFINE q == request.query
           ranked == request.ranked
           out == request.results
           installed == Names(inventory)
<1>1. stage = "searching" /\ UNCHANGED <<stage, index, inventory>>
    BY DEF Consider, discoveryVars, buildVars
<1>2. PICK n \in request.left :
         /\ \A m \in request.left : n <= m
         /\ LET new == Take(index, q, installed, out, ranked[n])
            IN request' = [request EXCEPT
                  !.results = new,
                  !.left = IF Len(new) >= request.limit THEN {} ELSE @ \ {n}]
    BY DEF Consider
<1> DEFINE new == Take(index, q, installed, out, ranked[n])
<1>3. /\ request = [query |-> q, limit |-> request.limit, ranked |-> ranked,
                    left |-> request.left, results |-> out]
      /\ request.limit \in Nat \ {0} /\ Ranking(ranked)
      /\ \A m \in DOMAIN ranked : ranked[m] \in Docs(index)
    BY <1>1 DEF SearchInv
<1>4. PICK P : /\ Looked(index, q, installed, ranked, P, out)
               /\ request.left = DOMAIN ranked \ P
               /\ Len(out) < request.limit
    BY <1>1, <1>2 DEF SearchInv
<1>5. Looked(index, q, installed, ranked, P \cup {n}, new)
    BY <1>2, <1>3, <1>4, LooksOn
<1>6. Len(new) \in {Len(out), Len(out) + 1} /\ Len(out) \in Nat
    <2>1. Len(out) \in Nat /\ \A i : Len(Append(out, i)) = Len(out) + 1
        <3>1. \A T : \A s \in Seq(T) : Len(s) \in Nat /\ \A i : Len(Append(s, i)) = Len(s) + 1
            OBVIOUS
        <3>2. QED  BY <1>4, <3>1 DEF Looked
    <2>2. QED  BY <2>1 DEF Take
<1>7. /\ request'.query = q /\ request'.limit = request.limit
      /\ request'.ranked = ranked /\ request'.results = new
      /\ request'.left = IF Len(new) >= request.limit THEN {} ELSE request.left \ {n}
      /\ request' = [query |-> request'.query, limit |-> request'.limit,
                     ranked |-> request'.ranked, left |-> request'.left,
                     results |-> request'.results]
    <2> HIDE DEF new
    <2>1. QED  BY <1>2, <1>3 DEF new
<1> HIDE DEF new
<1>8. \/ request'.left = DOMAIN ranked \ (P \cup {n}) /\ Len(new) < request.limit
      \/ request'.left = {} /\ Len(new) = request.limit
    BY <1>3, <1>4, <1>6, <1>7
<1>9. QED  BY <1>1, <1>3, <1>5, <1>7, <1>8 DEF SearchInv

LEMMA ServeSearches == SearchInv /\ Serve => SearchInv'
<1> SUFFICES ASSUME SearchInv, Serve PROVE SearchInv'
    OBVIOUS
<1> DEFINE all == [k \in DOMAIN request.results |->
                      Suggestion(index.tools[request.results[k]], request.query)]
<1>1. /\ stage = "searching" /\ stage' = "answered" /\ request.left = {}
      /\ UNCHANGED <<request, index, inventory>>
      /\ printed' = all
      /\ request.results # <<>> => \E n \in 1 .. Len(all) : answer' = SubSeq(all, 1, n)
    BY DEF Serve, discoveryVars, buildVars
<1> HIDE DEF all
<1>2. printed' = [k \in DOMAIN request'.results |->
                     Suggestion(index'.tools[request'.results[k]], request'.query)]
    BY <1>1 DEF all
<1>3. QED  BY <1>1, <1>2 DEF SearchInv

\* Every step of the search keeps it, whatever the build left.
LEMMA SearchStep == BuildInv /\ SearchInv /\ [PipelineNext]_pipelineVars => SearchInv'
<1> SUFFICES ASSUME BuildInv, SearchInv, [PipelineNext]_pipelineVars PROVE SearchInv'
    OBVIOUS
<1>1. CASE stage' \notin {"searching", "answered"}
    BY <1>1 DEF SearchInv
<1>2. CASE UNCHANGED pipelineVars
    <2>1. UNCHANGED <<stage, request, index, inventory, printed, answer>>
        BY <1>2 DEF pipelineVars, discoveryVars, buildVars, replyVars
    <2>2. QED  BY <2>1 DEF SearchInv
<1>3. CASE BeginSearch \/ Consider \/ Serve
    BY <1>3, BeginSearchSearches, ConsiderSearches, ServeSearches
<1>4. QED
    BY <1>1, <1>2, <1>3 DEF PipelineNext, BeginBuild, ListOsDir, ReadPage, Swap,
       FinishBuild, BuildIndex, ServeNames

LEMMA SearchInit == PipelineInit => SearchInv
BY DEF PipelineInit, SearchInv

-----------------------------------------------------------------------------
(* What both say together. *)

\* A finished loop has the best that fit.
LEMMA SearchResult == SearchInv => BestFirst
<1> SUFFICES ASSUME SearchInv, Served PROVE BestFirst
    BY DEF BestFirst
<1> DEFINE r == request.ranked
           out == request.results
           ranked == {r[n] : n \in DOMAIN r}
           Place(i) == CHOOSE n \in DOMAIN r : r[n] = i
           above(i) == {j \in ToSet(out) : Place(j) < Place(i)}
           ok(i) == Eligible(index, request.query, Names(inventory), i)
           same(i) == {j \in above(i) : Tools[j].binary = Tools[i].binary}
<1>1. PICK P : /\ Looked(index, request.query, Names(inventory), r, P, out)
               /\ \/ P = DOMAIN r /\ Len(out) < request.limit
                  \/ Len(out) = request.limit
    <2>1. PICK Q : /\ Looked(index, request.query, Names(inventory), r, Q, out)
                   /\ \/ request.left = DOMAIN r \ Q /\ Len(out) < request.limit
                      \/ request.left = {} /\ Len(out) = request.limit
                   /\ request.left = {}
        BY DEF Served, SearchInv
    <2>2. Q \subseteq DOMAIN r
        BY <2>1 DEF Looked
    <2>3. QED  BY <2>1, <2>2
<1>2. Ranking(r) /\ request.limit \in Nat
    BY DEF Served, SearchInv
<1>3. \A n \in DOMAIN r : Place(r[n]) = n
    BY <1>2 DEF Ranking
<1>4. /\ P \subseteq DOMAIN r
      /\ out \in Seq({r[p] : p \in P}) /\ ToSet(out) \subseteq {r[p] : p \in P}
      /\ Len(out) \in Nat
    BY <1>1, SequenceIsFinite DEF Looked
<1> HIDE DEF Place
<1>5. ASSUME NEW n \in DOMAIN r
      PROVE  above(r[n]) = Above(r, out, n) /\ same(r[n]) = SameAbove(index, r, out, n)
    <2>1. \A j \in ToSet(out) : \A a \in DOMAIN r : r[a] = j => Place(j) = a
        BY <1>3
    <2>2. \A j \in ToSet(out) : Place(j) < n <=> \E a \in DOMAIN r : r[a] = j /\ a < n
        BY <1>4, <2>1
    <2>3. above(r[n]) = Above(r, out, n)
        BY <1>3, <2>2 DEF Above
    <2>4. QED  BY <2>3 DEF SameAbove, Tools, Binary
<1> HIDE DEF above, same
<1>6. Len(out) <= request.limit
    BY <1>1, <1>2, <1>4
<1>7. ASSUME NEW i \in ToSet(out) PROVE ok(i) /\ Cardinality(same(i)) < MaxPerBinary
    <2>1. PICK p \in P : i = r[p]
        BY <1>4
    <2>2. QED  BY <1>1, <1>4, <1>5, <2>1 DEF Looked
<1>8. ASSUME NEW k \in DOMAIN out, NEW m \in DOMAIN out, k < m
      PROVE  Place(out[k]) < Place(out[m])
    <2>1. out[k] \in ToSet(out) /\ out[m] \in ToSet(out)
        BY DEF ToSet
    <2>2. PICK a \in P, b \in P : r[a] = out[k] /\ r[b] = out[m]
        BY <1>4, <2>1
    <2>3. a < b
        BY <1>1, <1>8, <2>2 DEF Looked
    <2>4. QED  BY <1>3, <1>4, <2>2, <2>3
<1>9. ASSUME NEW i \in ranked \ ToSet(out), ok(i)
      PROVE  \/ Cardinality(above(i)) = request.limit
             \/ Cardinality(same(i)) = MaxPerBinary
    <2>1. PICK n \in DOMAIN r : i = r[n]
        OBVIOUS
    <2>2. CASE n \in P
        BY <1>1, <1>5, <1>9, <2>1, <2>2 DEF Looked
    <2>3. CASE n \notin P
        <3>1. Len(out) = request.limit
            BY <1>1, <2>3
        <3>2. \A p \in P : p < n
            BY <1>1, <2>3 DEF Looked
        <3>3. Above(r, out, n) = ToSet(out)
            BY <1>4, <3>2 DEF Above
        <3>4. QED  BY <1>1, <1>5, <2>1, <3>1, <3>3 DEF Looked
    <2>4. QED  BY <2>2, <2>3
<1>10. QED  BY <1>6, <1>7, <1>8, <1>9 DEF BestFirst, Results, Place, above, same

\* A tool of the index is the variant of a finding.
LEMMA ToolOrigin ==
    ASSUME BuildInv, stage = "answered", NEW i \in Docs(index)
    PROVE  \E f \in ToSet(findings) :
              /\ index.tools[i] = VariantOf(findings, f).tool
              /\ index.shell \in index.tools[i].platforms
              /\ \/ RuntimeFamily(index.os) = "unknown"
                 \/ FamilyOf(f.os) = RuntimeFamily(index.os)
                 \/ ~Concrete(FamilyOf(f.os))
<1>1. /\ findings \in Seq(PageFindings)
      /\ index = IndexOf(Normalize(findings), index.shell, index.os)
    BY DEF BuildInv
<1>2. PICK v \in Normalize(findings) :
         /\ index.tools[i] = v.tool /\ index.shell \in v.tool.platforms
         /\ \/ RuntimeFamily(index.os) = "unknown"
            \/ v.family = RuntimeFamily(index.os)
            \/ ~Concrete(v.family)
    BY <1>1, DocsAreTools
<1>3. PICK f \in ToSet(findings) : v = VariantOf(findings, f)
    BY Variants
<1>4. v.family = FamilyOf(f.os)
    BY <1>3 DEF VariantOf
<1>5. QED  BY <1>2, <1>3, <1>4

\* The example that is suggested is one of the tool's.
LEMMA BestIsOne ==
    ASSUME NEW tool, IsFiniteSet(DOMAIN tool.examples), DOMAIN tool.examples # {}, NEW q
    PROVE  BestExample(tool, q) \in DOMAIN tool.examples
<1> DEFINE Scored(i) == [id |-> i, score |-> ExampleScore(tool, q, i)]
           f == [i \in DOMAIN tool.examples |-> Scored(i)]
           scored == {Scored(i) : i \in DOMAIN tool.examples}
           ranked == ByScore(scored)
<1>0. /\ DOMAIN f = DOMAIN tool.examples
      /\ \A i \in DOMAIN f : f[i] = Scored(i)
    OBVIOUS
<1>1. IsFiniteSet(scored)
    <2>1. \A x : x \in scored <=> \E i \in DOMAIN f : x = f[i]
        BY <1>0
    <2>2. scored = {f[i] : i \in DOMAIN f}
        <3> HIDE DEF scored, f
        <3>1. QED  BY <2>1
    <2> HIDE DEF f, scored
    <2>3. QED  BY <1>0, <2>2, ImageIsFinite
<1>2. scored # {} /\ \A x \in scored : x.id \in DOMAIN tool.examples
    <2>1. \A i : Scored(i).id = i
        OBVIOUS
    <2>2. \A x \in scored : \E i \in DOMAIN tool.examples : x = Scored(i)
        OBVIOUS
    <2>3. PICK i : i \in DOMAIN tool.examples
        OBVIOUS
    <2>4. Scored(i) \in scored
        BY <2>3
    <2> HIDE DEF Scored, scored
    <2>5. QED  BY <2>1, <2>2, <2>4
<1>3. BestExample(tool, q) = ranked[Min(DOMAIN ranked)]
    BY DEF BestExample
<1> HIDE DEF scored
<1>4. /\ DOMAIN ranked \subseteq Nat /\ DOMAIN ranked # {}
      /\ \A n \in DOMAIN ranked : \E x \in scored : ranked[n] = x.id
    BY <1>1, <1>2, ScoredIds
<1> HIDE DEF ranked
<1>5. Min(DOMAIN ranked) \in DOMAIN ranked
    BY <1>4, LeastNatural
<1>6. QED  BY <1>2, <1>3, <1>4, <1>5

\* What is printed is made of tools of the index.
LEMMA ResultsAreDocs ==
    ASSUME SearchInv, Served
    PROVE  /\ DOMAIN printed = DOMAIN Results
           /\ \A k \in DOMAIN printed :
                 /\ Results[k] \in Docs(index)
                 /\ printed[k] = Suggestion(Tools[Results[k]], request.query)
<1>1. /\ printed = [k \in DOMAIN request.results |->
                       Suggestion(index.tools[request.results[k]], request.query)]
      /\ \A n \in DOMAIN request.ranked : request.ranked[n] \in Docs(index)
    BY DEF SearchInv, Served
<1>2. PICK P : Looked(index, request.query, Names(inventory), request.ranked, P,
                      request.results)
    BY DEF SearchInv, Served
<1>3. \A k \in DOMAIN request.results : request.results[k] \in Docs(index)
    <2>1. /\ P \subseteq DOMAIN request.ranked
          /\ request.results \in Seq({request.ranked[p] : p \in P})
        BY <1>2 DEF Looked
    <2>2. \A k \in DOMAIN request.results :
             request.results[k] \in {request.ranked[p] : p \in P}
        BY <2>1
    <2>3. QED  BY <1>1, <2>1, <2>2
<1>4. QED  BY <1>1, <1>3 DEF Results, Tools

\* A printed command comes of a finding of the target's family.
LEMMA NothingForeignHolds == BuildInv /\ SearchInv => NothingForeign
<1> SUFFICES ASSUME BuildInv, SearchInv, Served, NEW k \in DOMAIN printed
             PROVE
       LET tool == Tools[Results[k]]
           home == {f \in FindingsOf(tool) :
                       \/ RuntimeFamily(index.os) = "unknown"
                       \/ FamilyOf(f.os) = RuntimeFamily(index.os)
                       \/ ~Concrete(FamilyOf(f.os))}
       IN /\ \E f \in home : index.shell \in ShellsForOs(f.os)
          /\ tool.examples /= <<>> =>
                \E f \in home, e \in UNION {ToSet(g.examples) : g \in home} :
                   e.command = printed[k].command
    BY DEF NothingForeign
<1> DEFINE tool == Tools[Results[k]]
           home == {f \in FindingsOf(tool) :
                       \/ RuntimeFamily(index.os) = "unknown"
                       \/ FamilyOf(f.os) = RuntimeFamily(index.os)
                       \/ ~Concrete(FamilyOf(f.os))}
<1>1. PICK f \in ToSet(findings) :
         /\ tool = VariantOf(findings, f).tool
         /\ index.shell \in tool.platforms
         /\ \/ RuntimeFamily(index.os) = "unknown"
            \/ FamilyOf(f.os) = RuntimeFamily(index.os)
            \/ ~Concrete(FamilyOf(f.os))
    BY ResultsAreDocs, ToolOrigin DEF Served, Tools
<1> DEFINE sources == Named(findings, QualifiedName(f), FamilyOf(f.os))
<1>2. findings \in Seq(PageFindings)
    BY DEF BuildInv
<1>3. sources \subseteq home
    <2>1. tool.name = QualifiedName(f)
        BY <1>1, Variants
    <2> HIDE DEF tool
    <2>2. QED  BY <1>1, <2>1 DEF Named, FindingsOf
<1>4. \E g \in home : index.shell \in ShellsForOs(g.os)
    <2>1. tool.platforms = UNION {ShellsForOs(g.os) : g \in
             ToSet(Group(findings, QualifiedName(f), FamilyOf(f.os)))}
        BY <1>1 DEF VariantOf, MergeGroup
    <2>2. ToSet(Group(findings, QualifiedName(f), FamilyOf(f.os))) = sources
        BY <1>2, GroupIsNamed
    <2> HIDE DEF tool, home, sources
    <2>3. QED  BY <1>1, <1>3, <2>1, <2>2
<1>5. ASSUME tool.examples # <<>>
      PROVE  \E g \in home, e \in UNION {ToSet(h.examples) : h \in home} :
                e.command = printed[k].command
    <2>1. /\ IsFiniteSet(DOMAIN tool.examples)
          /\ DOMAIN tool.examples = {} => tool.examples = <<>>
          /\ \A x \in ToSet(tool.examples) : \E g \in sources : x \in ToSet(g.examples)
        BY <1>1, <1>2, VariantExamples
    <2>2. DOMAIN tool.examples # {}
        BY <1>5, <2>1
    <2> HIDE DEF tool, home, sources
    <2> DEFINE x == tool.examples[BestExample(tool, request.query)]
    <2>3. x \in ToSet(tool.examples)
        BY <2>1, <2>2, BestIsOne DEF ToSet
    <2>4. printed[k].command = x.command
        BY <1>5, ResultsAreDocs DEF Suggestion, CommandFor, tool
    <2>5. PICK g \in sources : x \in ToSet(g.examples)
        BY <2>1, <2>3
    <2> HIDE DEF x
    <2>6. g \in home
        BY <1>3
    <2>7. QED  BY <2>4, <2>5, <2>6
<1>6. QED  BY <1>4, <1>5

\* A destructive finding marks its tool, and a mark or a destructive command
\* is printed with the suggestion.
LEMMA WarningSurvivesHolds == BuildInv /\ SearchInv => WarningSurvives
<1> SUFFICES ASSUME BuildInv, SearchInv, Served PROVE WarningSurvives
    BY DEF WarningSurvives
<1>0. findings \in Seq(PageFindings) /\ catalog = Normalize(findings)
    BY DEF BuildInv, Served
<1>1. ASSUME NEW k \in DOMAIN printed
      PROVE  LET tool == Tools[Results[k]]
                 origin == {f \in FindingsOf(tool) :
                    \E v \in catalog : v.tool = tool /\ v.family = FamilyOf(f.os)}
             IN \/ printed[k].dangerous
                \/ /\ \A f \in origin : "destructive" \notin InferCapabilities(f)
                   /\ tool.examples /= <<>> => ~IsDestructive(printed[k].command)
    <2> DEFINE tool == Tools[Results[k]]
    <2>1. printed[k] = Suggestion(tool, request.query)
        BY ResultsAreDocs
    <2> HIDE DEF tool
    <2> SUFFICES ASSUME ~printed[k].dangerous
                 PROVE  /\ \A f \in FindingsOf(tool) :
                              (\E v \in catalog : v.tool = tool /\ v.family = FamilyOf(f.os))
                              => "destructive" \notin InferCapabilities(f)
                        /\ tool.examples /= <<>> => ~IsDestructive(printed[k].command)
        BY DEF tool
    <2>2. /\ "destructive" \notin tool.capabilities
          /\ tool.examples # <<>> =>
                ~IsDestructive(tool.examples[BestExample(tool, request.query)].command)
        BY <2>1 DEF Suggestion
    <2>3. tool.examples # <<>> =>
             printed[k].command = tool.examples[BestExample(tool, request.query)].command
        BY <2>1 DEF Suggestion, CommandFor
    <2>4. ASSUME NEW f \in FindingsOf(tool), NEW v \in catalog,
                 v.tool = tool, v.family = FamilyOf(f.os)
          PROVE  "destructive" \notin InferCapabilities(f)
        <3>1. f \in ToSet(findings) /\ QualifiedName(f) = tool.name
            BY DEF FindingsOf
        <3>2. PICK g \in ToSet(findings) : v = VariantOf(findings, g)
            BY <1>0, Variants
        <3>3. QualifiedName(g) = QualifiedName(f) /\ FamilyOf(g.os) = FamilyOf(f.os)
            BY <2>4, <3>1, <3>2, Variants DEF VariantOf
        <3>4. v = VariantOf(findings, f)
            BY <3>2, <3>3 DEF VariantOf
        <3>5. f \in ToSet(Group(findings, QualifiedName(f), FamilyOf(f.os)))
            <4>1. f \in Named(findings, QualifiedName(f), FamilyOf(f.os))
                BY <3>1 DEF Named
            <4>2. QED  BY <1>0, <4>1, GroupIsNamed
        <3>6. InferCapabilities(f) \subseteq tool.capabilities
            BY <2>4, <3>4, <3>5 DEF VariantOf, MergeGroup
        <3>7. QED  BY <2>2, <3>6
    <2>5. QED  BY <2>2, <2>3, <2>4
<1>2. ASSUME printed # <<>> PROVE answer # <<>> /\ IsPrefix(answer, printed)
    <2>1. PICK P : Looked(index, request.query, Names(inventory), request.ranked, P,
                          request.results)
        BY DEF SearchInv, Served
    <2>2. /\ printed = [k \in DOMAIN request.results |->
                           Suggestion(index.tools[request.results[k]], request.query)]
          /\ request.results # <<>> => \E n \in 1 .. Len(printed) : answer = SubSeq(printed, 1, n)
        BY DEF SearchInv, Served
    <2>3. PICK T : request.results \in Seq(T)
        BY <2>1 DEF Looked
    <2>4. DOMAIN request.results = 1 .. Len(request.results) /\ Len(request.results) \in Nat
        BY <2>3
    <2>5. PICK U : printed \in Seq(U)
        <3> DEFINE U == {printed[k] : k \in DOMAIN request.results}
        <3>1. printed \in [1 .. Len(request.results) -> U]
            BY <2>2, <2>4
        <3>2. printed \in Seq(U)
            BY <2>4, <3>1
        <3>3. QED  BY <3>2
    <2>6. request.results # <<>>
        BY <1>2, <2>2
    <2>7. PICK n \in 1 .. Len(printed) : answer = SubSeq(printed, 1, n)
        BY <2>2, <2>6
    <2>8. /\ Len(SubSeq(printed, 1, n)) = n
          /\ SubSeq(SubSeq(printed, 1, n), 1, n) = SubSeq(printed, 1, n)
          /\ n \in Nat \ {0} /\ n <= Len(printed)
        BY <2>5
    <2>9. QED  BY <2>7, <2>8 DEF IsPrefix
<1>3. QED  BY <1>1, <1>2 DEF WarningSurvives

\* A finished harvest has read every page that it wanted.
LEMMA CatalogFollows == BuildInv => CatalogFollowsCorpus
<1> SUFFICES ASSUME BuildInv, stage = "ready", swaps = 0 PROVE CatalogFollowsCorpus
    BY DEF CatalogFollowsCorpus
<1> DEFINE wanted == {ParsePage(Pages[p], p) : p \in {q \in corpus : Wanted(q)}}
<1>1. /\ findings \in Seq(PageFindings) /\ catalog = Normalize(findings)
      /\ queue = {} /\ osLeft = <<>>
      /\ ToSet(findings) = {ParsePage(Pages[p], p) : p \in {q \in ReadPages : Wanted(q)}}
    BY DEF BuildInv
<1>2. ToSet(findings) = wanted
    <2>1. ToSet(osLeft) = {}
        BY <1>1 DEF ToSet
    <2>2. ReadPages = corpus
        BY <1>1, <2>1 DEF ReadPages
    <2>3. QED  BY <1>1, <2>2
<1> HIDE DEF wanted
<1>3. ASSUME NEW f \in wanted
      PROVE  \E v \in catalog :
                /\ v.tool.name = QualifiedName(f) /\ v.family = FamilyOf(f.os)
                /\ \A e \in ToSet(f.examples) : \E x \in ToSet(v.tool.examples) :
                      x.command = e.command
    <2> DEFINE v == VariantOf(findings, f)
    <2>1. v \in catalog /\ v.tool.name = QualifiedName(f)
        BY <1>1, <1>2, Variants
    <2>2. v.family = FamilyOf(f.os)
        BY DEF VariantOf
    <2>3. \A e \in ToSet(f.examples) : \E x \in ToSet(v.tool.examples) : x.command = e.command
        BY <1>1, <1>2, VariantExamples
    <2> HIDE DEF v
    <2>4. QED  BY <2>1, <2>2, <2>3
<1>4. ASSUME NEW v \in catalog, NEW x \in ToSet(v.tool.examples)
      PROVE  \E f \in wanted : x \in ToSet(f.examples)
    <2>1. PICK f \in ToSet(findings) : v = VariantOf(findings, f)
        BY <1>1, Variants
    <2>2. PICK g \in Named(findings, QualifiedName(f), FamilyOf(f.os)) : x \in ToSet(g.examples)
        BY <1>1, <1>4, <2>1, VariantExamples
    <2>3. QED  BY <1>2, <2>2 DEF Named
<1>5. QED  BY <1>3, <1>4 DEF CatalogFollowsCorpus, wanted

LEMMA AnyOrderWillDo == BuildInv => OrderIndependent
<1> SUFFICES ASSUME BuildInv, stage = "ready", NEW name,
                    NEW order \in SetToSeqs({f \in ToSet(findings) : QualifiedName(f) = name})
             PROVE  Normalize(order) = {v \in catalog : v.tool.name = name}
    BY DEF OrderIndependent
<1>1. findings \in Seq(PageFindings) /\ catalog = Normalize(findings)
    BY DEF BuildInv
<1>2. QED  BY <1>1, AnyOrder

\* The findings that leak are those of the wanted pages that do.
LEMMA LintFindsLeaks == BuildInv => LintsClean
<1> SUFFICES ASSUME BuildInv, stage = "ready" PROVE LintsClean
    BY DEF LintsClean
<1>1. /\ findings \in Seq(PageFindings) /\ catalog = Normalize(findings)
      /\ queue = {} /\ osLeft = <<>>
    BY DEF BuildInv
<1>2. LintErrors(catalog, findings)
         = IF \E f \in ToSet(findings) : f.leaks THEN {"placeholder-leak"} ELSE {}
    BY <1>1, OnlyLeaks
<1>3. ASSUME swaps = 0
      PROVE  (\E f \in ToSet(findings) : f.leaks)
                <=> \E p \in corpus : Wanted(p) /\ Leaks(Pages[p])
    <2>1. ToSet(findings) = {ParsePage(Pages[p], p) : p \in {q \in ReadPages : Wanted(q)}}
        BY <1>3 DEF BuildInv
    <2>2. ReadPages = corpus
        BY <1>1 DEF ReadPages, ToSet
    <2>3. \A p : ParsePage(Pages[p], p).leaks = Leaks(Pages[p])
        BY DEF ParsePage
    <2>4. QED  BY <2>1, <2>2, <2>3
<1>4. QED  BY <1>2, <1>3 DEF LintsClean

\* Both invariants hold of every behaviour.
LEMMA PipelineInvariants == PipelineSpec => [](BuildInv /\ SearchInv)
<1>1. PipelineInit => BuildInv /\ SearchInv
    BY BuildInit, SearchInit
<1>2. BuildInv /\ SearchInv /\ [PipelineNext]_pipelineVars => (BuildInv /\ SearchInv)'
    BY BuildStep, SearchStep
<1>3. QED  BY <1>1, <1>2, PTL DEF PipelineSpec

\* A build that no swap of the corpus disturbed has an entry with every command
\* for every page of an installed binary, and no entry of anything else, whatever
\* the corpus, the directories' order and the order in which the pages are read
\* (tldr.py:691-731, normalize.py:382-462).
THEOREM HarvestLosesNothing == PipelineSpec => []CatalogFollowsCorpus
BY PipelineInvariants, CatalogFollows, PTL

\* The order in which a directory lists its pages does not show in the catalog:
\* _Claim.rank and the sorts of normalize.py (200-205, 429-431) undo it for any
\* set of findings.
THEOREM CatalogIsReproducible == PipelineSpec => []OrderIndependent
BY PipelineInvariants, AnyOrderWillDo, PTL

\* What normalize() returns is never refused by the lint that build() runs over it
\* (lint.py:163-304), whatever characters the titles are made of; the only error
\* left is a leaked slot, reported of an undisturbed harvest exactly when a page it
\* wants has one (lint.py:111-149).
THEOREM NormalizedCatalogLints == PipelineSpec => []LintsClean
BY PipelineInvariants, LintFindsLeaks, PTL

\* A suggestion for a shell and a system comes of a page for them, and its command
\* of a page of the same family (normalize.py for_target, 401-411), for any corpus.
THEOREM SuggestionsAreHomely == PipelineSpec => []NothingForeign
BY PipelineInvariants, NothingForeignHolds, PTL

\* search() returns the best: in the ranking's order, at most `limit` and
\* MAX_PER_BINARY of a binary, and an eligible tool is missing only behind a full
\* list or a full share (index.py:446-490), for any scores, limits and inventory.
THEOREM TheListHoldsTheBest == PipelineSpec => []BestFirst
BY PipelineInvariants, SearchResult, PTL

\* No suggestion loses its warning: capabilities found by the extractor stay with
\* the tool through the merge (normalize.py:468-480), a destructive command is
\* marked, and what is answered begins what is printed (server.py:273-286).
THEOREM WarningsAreKept == PipelineSpec => []WarningSurvives
BY PipelineInvariants, WarningSurvivesHolds, PTL
=============================================================================
