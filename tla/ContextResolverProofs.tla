------------------------ MODULE ContextResolverProofs ------------------------
(***************************************************************************)
(* The bounds ContextResolver keeps, for every policy, artifact and        *)
(* repository.                                                             *)
(***************************************************************************)
EXTENDS ContextResolver, TLAPS

(* What _make_source returns fits the room it was given. *)
LEMMA ExcerptFits ==
    ASSUME NEW length \in Nat, NEW limit \in Int, NEW excerpt \in Excerpts(length, limit)
    PROVE  /\ excerpt.chars \in Nat
           /\ excerpt.cut \in BOOLEAN
           /\ excerpt.chars > 0 => excerpt.chars <= limit
<1>1. CASE limit <= 0
  <2>1. excerpt = [chars |-> 0, cut |-> TRUE]
    BY <1>1 DEF Excerpts
  <2>2. QED
    BY <2>1
<1>2. CASE limit > 0 /\ length <= limit
  <2>1. excerpt = [chars |-> length, cut |-> FALSE]
    BY <1>2 DEF Excerpts
  <2>2. QED
    BY <1>2, <2>1
<1>3. CASE limit > 0 /\ length > limit
  <2>1. PICK n \in 1 .. limit : excerpt = [chars |-> n, cut |-> TRUE]
    BY <1>3 DEF Excerpts
  <2>2. QED
    BY <2>1
<1>4. QED
  BY <1>1, <1>2, <1>3

LEMMA CandidatesTyped ==
    ASSUME TypeOK
    PROVE  Candidates \in Seq(Spelling)
  BY RequestAssumption DEF TypeOK, Request, Candidates

LEMMA CandidateTyped ==
    ASSUME TypeOK, AtCandidate, ~Repeated(Candidate)
    PROVE  Candidate \in Path
<1>1. Candidates[next] \in Spelling
  BY CandidatesTyped DEF TypeOK, AtCandidate
<1>2. QED
  BY <1>1, PathAssumption DEF Candidate, Repeated

(* A source goes to the end of the bundle, and its size is known. *)
LEMMA KeptTyped ==
    ASSUME TypeOK, NEW path \in Path \cup {InputArtifact}, NEW excerpt,
           excerpt.chars \in Nat, excerpt.cut \in BOOLEAN
    PROVE  /\ Kept(path, excerpt) \in Seq(Source)
           /\ Len(Kept(path, excerpt)) = Len(sources) + 1
           /\ DOMAIN Kept(path, excerpt) = 1 .. Len(sources) + 1
           /\ DOMAIN sources = 1 .. Len(sources)
           /\ Len(sources) \in Nat
           /\ \A i \in DOMAIN Kept(path, excerpt) :
                  Kept(path, excerpt)[i] =
                      IF i <= Len(sources) THEN sources[i]
                      ELSE [path |-> path, chars |-> excerpt.chars, cut |-> excerpt.cut]
<1> DEFINE source == [path |-> path, chars |-> excerpt.chars, cut |-> excerpt.cut]
<1>1. source \in Source
  BY DEF Source
<1>2. sources \in Seq(Source)
  BY DEF TypeOK
<1> HIDE DEF source
<1>3. /\ Append(sources, source) \in Seq(Source)
      /\ Len(Append(sources, source)) = Len(sources) + 1
      /\ DOMAIN Append(sources, source) = 1 .. Len(sources) + 1
      /\ DOMAIN sources = 1 .. Len(sources)
      /\ Len(sources) \in Nat
      /\ \A i \in DOMAIN Append(sources, source) :
             Append(sources, source)[i] = IF i <= Len(sources) THEN sources[i] ELSE source
  BY <1>1, <1>2
<1>4. QED
  BY <1>3 DEF Kept, source

BoundInv ==
    /\ TypeOK
    /\ BundleIsBounded
    /\ phase = "artifact" => selected = {}

LEMMA BoundInit == Init => BoundInv
<1> SUFFICES ASSUME Init
             PROVE  BoundInv
  OBVIOUS
<1>1. TypeOK
  <2>1. sources \in Seq(Source)
    BY DEF Init
  <2>2. request \in Requests /\ next \in Nat \ {0} /\ totalChars \in Nat
    BY DEF Init
  <2>3. QED
    BY <2>1, <2>2 DEF Init, TypeOK
<1>2. DOMAIN sources = {} /\ selected = {}
  BY DEF Init
<1>3. QED
  BY <1>1, <1>2 DEF BoundInv, BundleIsBounded

LEMMA AddArtifactKeepsBound == BoundInv /\ AddArtifact => BoundInv'
<1> SUFFICES ASSUME BoundInv, AddArtifact
             PROVE  BoundInv'
  OBVIOUS
<1>1. PICK excerpt \in Excerpts(request.artifact, request.maxChars - totalChars) :
          /\ totalChars' = excerpt.chars
          /\ IF excerpt.chars > 0
             THEN /\ sources' = Kept(InputArtifact, excerpt)
                  /\ truncated' = excerpt.cut
             ELSE UNCHANGED <<sources, truncated>>
  BY DEF AddArtifact
<1>2. /\ request.artifact \in Nat
      /\ request.maxChars \in Int
      /\ request.maxFiles \in Int
      /\ totalChars \in Nat
      /\ sources \in Seq(Source)
  BY RequestAssumption DEF BoundInv, TypeOK, Request
<1>3. /\ excerpt.chars \in Nat
      /\ excerpt.cut \in BOOLEAN
      /\ excerpt.chars > 0 => excerpt.chars <= request.maxChars - totalChars
  BY <1>2, ExcerptFits
<1>4. CASE excerpt.chars > 0
  <2>1. sources' = Kept(InputArtifact, excerpt)
    BY <1>1, <1>4
  <2>2. TypeOK'
    BY <1>1, <1>3, <1>4, <2>1, KeptTyped DEF BoundInv, TypeOK, AddArtifact
  <2>3. UNCHANGED <<request, selected>> /\ sources \in Seq(Source)
    BY <1>2 DEF AddArtifact
  <2>4. \A i \in DOMAIN sources' : sources'[i].chars <= request.maxChars
    <3> SUFFICES ASSUME NEW i \in DOMAIN sources'
                 PROVE  sources'[i].chars <= request.maxChars
      OBVIOUS
    <3>1. TypeOK
      BY DEF BoundInv
    <3>2. /\ i \in 1 .. Len(sources) + 1
          /\ Len(sources) \in Nat
          /\ DOMAIN sources = 1 .. Len(sources)
          /\ sources'[i] = IF i <= Len(sources) THEN sources[i]
                           ELSE [path |-> InputArtifact, chars |-> excerpt.chars,
                                 cut |-> excerpt.cut]
      BY <1>3, <2>1, <3>1, KeptTyped
    <3>3. CASE i <= Len(sources)
      BY <3>2, <3>3 DEF BoundInv, BundleIsBounded
    <3>4. CASE ~(i <= Len(sources))
      BY <1>2, <1>3, <1>4, <3>2, <3>4
    <3>5. QED
      BY <3>3, <3>4
  <2>5. selected = {}
    BY DEF BoundInv, AddArtifact
  <2>6. QED
    BY <2>2, <2>3, <2>4, <2>5 DEF BoundInv, BundleIsBounded
<1>5. CASE ~(excerpt.chars > 0)
  BY <1>1, <1>3, <1>5 DEF BoundInv, TypeOK, BundleIsBounded, AddArtifact
<1>6. QED
  BY <1>4, <1>5

LEMMA LoadFileKeepsBound == BoundInv /\ LoadFile => BoundInv'
<1> SUFFICES ASSUME BoundInv, LoadFile
             PROVE  BoundInv'
  OBVIOUS
<1>1. PICK excerpt \in Excerpts(request.size[Candidate], request.maxChars - totalChars) :
          /\ totalChars' = Count(excerpt)
          /\ IF excerpt.chars > 0
             THEN /\ sources' = Kept(Candidate, excerpt)
                  /\ selected' = selected \cup {Candidate}
                  /\ truncated' = (truncated \/ excerpt.cut)
             ELSE UNCHANGED <<sources, selected, truncated>>
  BY DEF LoadFile
<1>2. Candidate \in Path
  BY CandidateTyped DEF BoundInv, LoadFile
<1>3. /\ request.size[Candidate] \in Nat
      /\ request.maxChars \in Int
      /\ request.maxFiles \in Int
      /\ totalChars \in Nat
      /\ sources \in Seq(Source)
      /\ next \in Nat \ {0}
  BY <1>2, RequestAssumption DEF BoundInv, TypeOK, Request
<1>4. /\ excerpt.chars \in Nat
      /\ excerpt.cut \in BOOLEAN
      /\ excerpt.chars > 0 => excerpt.chars <= request.maxChars - totalChars
  BY <1>3, ExcerptFits
<1>5. /\ next' = next + 1
      /\ UNCHANGED <<request, phase>>
      /\ phase = "files"
      /\ Len(sources) < request.maxFiles
  BY <1>3 DEF LoadFile, LimitReached, AtCandidate
<1>6. CASE excerpt.chars > 0
  <2>1. /\ sources' = Kept(Candidate, excerpt)
        /\ selected' = selected \cup {Candidate}
        /\ truncated' = (truncated \/ excerpt.cut)
    BY <1>1, <1>6
  <2>2. TypeOK'
    BY <1>1, <1>2, <1>3, <1>4, <1>5, <2>1, KeptTyped DEF BoundInv, TypeOK, Count
  <2>3. Len(sources') <= request.maxFiles
    BY <1>2, <1>3, <1>4, <1>5, <2>1, KeptTyped DEF BoundInv
  <2>4. \A i \in DOMAIN sources' : sources'[i].chars <= request.maxChars
    <3> SUFFICES ASSUME NEW i \in DOMAIN sources'
                 PROVE  sources'[i].chars <= request.maxChars
      OBVIOUS
    <3>1. TypeOK
      BY DEF BoundInv
    <3>2. /\ i \in 1 .. Len(sources) + 1
          /\ Len(sources) \in Nat
          /\ DOMAIN sources = 1 .. Len(sources)
          /\ sources'[i] = IF i <= Len(sources) THEN sources[i]
                           ELSE [path |-> Candidate, chars |-> excerpt.chars,
                                 cut |-> excerpt.cut]
      BY <1>2, <1>4, <2>1, <3>1, KeptTyped
    <3>3. CASE i <= Len(sources)
      BY <3>2, <3>3 DEF BoundInv, BundleIsBounded
    <3>4. CASE ~(i <= Len(sources))
      BY <1>3, <1>4, <1>6, <3>2, <3>4
    <3>5. QED
      BY <3>3, <3>4
  <2>5. QED
    BY <1>5, <2>2, <2>3, <2>4 DEF BoundInv, BundleIsBounded
<1>7. CASE ~(excerpt.chars > 0)
  <2>1. UNCHANGED <<sources, selected, truncated>> /\ totalChars' = excerpt.chars
    BY <1>1, <1>7 DEF Count
  <2>2. TypeOK'
    BY <1>3, <1>4, <1>5, <2>1 DEF BoundInv, TypeOK
  <2>3. QED
    BY <1>5, <2>1, <2>2 DEF BoundInv, BundleIsBounded
<1>8. QED
  BY <1>6, <1>7

LEMMA BoundStep == BoundInv /\ [Next]_vars => BoundInv'
<1> SUFFICES ASSUME BoundInv, [Next]_vars
             PROVE  BoundInv'
  OBVIOUS
<1> USE DEF BoundInv, TypeOK, BundleIsBounded
<1>1. CASE Disabled
  BY <1>1 DEF Disabled
<1>2. CASE AddArtifact
  BY <1>2, AddArtifactKeepsBound
<1>3. CASE OmitArtifact
  BY <1>3 DEF OmitArtifact
<1>4. CASE SkipRepeated
  BY <1>4 DEF SkipRepeated
<1>5. CASE StopAtLimit
  BY <1>5 DEF StopAtLimit
<1>6. CASE LoadFile
  BY <1>6, LoadFileKeepsBound
<1>7. CASE Finish
  BY <1>7 DEF Finish
<1>8. CASE UNCHANGED vars
  BY <1>8 DEF vars
<1>9. QED
  BY <1>1, <1>2, <1>3, <1>4, <1>5, <1>6, <1>7, <1>8 DEF Next

(* Every variable keeps its type: what resolve has counted stays a number   *)
(* of characters, and each source has a path and a length.                  *)
THEOREM TypeCorrect == Spec => []TypeOK
<1>1. BoundInv => TypeOK
  BY DEF BoundInv
<1>2. QED
  BY <1>1, BoundInit, BoundStep, PTL DEF Spec

(* A bundle with a file in it never holds more sources than max_files, and   *)
(* no source is longer than max_chars, whatever the policy and the           *)
(* repository.                                                               *)
THEOREM BundleIsBoundedHolds == Spec => []BundleIsBounded
<1>1. BoundInv => BundleIsBounded
  BY DEF BoundInv
<1>2. QED
  BY <1>1, BoundInit, BoundStep, PTL DEF Spec

(* ------------------------------------------------------------------------ *)
(* Which files a bundle holds.  Before the turn that is next every usable   *)
(* file is in, and no other, in the order of the turns; and as long as      *)
(* truncated is not set each is in with all its text.                       *)

InFromATurn ==
    \A path \in selected : \E n \in Turns : n < next /\ path = Name(n)

UsableAreIn ==
    \A n \in DOMAIN Candidates : n < next /\ Usable(Name(n)) => Name(n) \in selected

FilesAreSelected ==
    /\ \A i \in Files : sources[i].path \in selected
    /\ \A path \in selected : \E i \in Files : sources[i].path = path

InOrder ==
    \A i, j \in Files : i < j =>
        \E m, n \in Turns : m < n /\ sources[i].path = Name(m) /\ sources[j].path = Name(n)

CutIsMarked ==
    ~truncated =>
        /\ \A i \in Files : sources[i].chars = request.size[sources[i].path]
        /\ phase = "done" /\ request.enabled => next > Len(Candidates)
        /\ phase # "artifact" /\ request.enabled /\ request.maxChars > 0 =>
               (request.includeArtifact /\ request.artifact > 0 =>
                   Holds(InputArtifact, request.artifact))

NothingYet ==
    phase = "artifact" => sources = <<>> /\ totalChars = 0 /\ ~truncated /\ next = 1

ChoiceInv ==
    /\ BoundInv /\ NothingYet
    /\ InFromATurn /\ UsableAreIn /\ FilesAreSelected /\ InOrder /\ CutIsMarked

(* Two turns never name the same file. *)
LEMMA TurnsAreDistinct ==
    ASSUME TypeOK, NEW m \in Turns, NEW n \in Turns, Name(m) = Name(n)
    PROVE  m = n
<1>1. m \in 1 .. Len(Candidates) /\ n \in 1 .. Len(Candidates)
      /\ Len(Candidates) \in Nat
  BY CandidatesTyped DEF Turns
<1>2. ~(m < n) /\ ~(n < m)
  BY <1>1 DEF Turns
<1>3. QED
  BY <1>1, <1>2

(* What a turn names is a path. *)
LEMMA TurnNamesPath ==
    ASSUME TypeOK, NEW n \in Turns
    PROVE  /\ Name(n) \in Path
           /\ n \in Nat \ {0}
           /\ n <= Len(Candidates)
<1>1. Candidates \in Seq(Spelling)
  BY CandidatesTyped
<1>2. n \in 1 .. Len(Candidates) /\ Len(Candidates) \in Nat /\ Candidates[n] \in Spelling
  BY <1>1 DEF Turns
<1>3. QED
  BY <1>2, PathAssumption DEF Turns, Name, Usable

(* The candidates, the turns and the names depend on the request alone. *)
LEMMA CandidatesStay ==
    ASSUME request' = request
    PROVE  /\ Candidates' = Candidates
           /\ \A n : Name(n)' = Name(n)
           /\ \A path : Usable(path)' = Usable(path)
           /\ Turns' = Turns
BY DEF Candidates, Name, Usable, Turns

LEMMA ChoiceInit == Init => ChoiceInv
<1> SUFFICES ASSUME Init
             PROVE  ChoiceInv
  OBVIOUS
<1>1. BoundInv /\ TypeOK
  BY BoundInit DEF BoundInv
<1>2. sources = <<>> /\ selected = {} /\ next = 1 /\ phase = "artifact" /\ Files = {}
  BY DEF Init, Files
<1>3. \A n \in DOMAIN Candidates : ~(n < 1)
  BY <1>1, CandidatesTyped
<1>4. QED
  BY <1>1, <1>2, <1>3
     DEF Init, ChoiceInv, NothingYet, InFromATurn, UsableAreIn, FilesAreSelected,
         InOrder, CutIsMarked

(* With room left, _make_source drops nothing but a blank text, and says    *)
(* when it cuts.                                                            *)
LEMMA ExcerptWithRoom ==
    ASSUME NEW length \in Nat, NEW limit \in Int, limit > 0,
           NEW excerpt \in Excerpts(length, limit)
    PROVE  /\ excerpt.chars > 0 <=> length > 0
           /\ ~excerpt.cut => excerpt.chars = length
<1>1. CASE length <= limit
  <2>1. excerpt = [chars |-> length, cut |-> FALSE]
    BY <1>1 DEF Excerpts
  <2>2. QED
    BY <2>1
<1>2. CASE ~(length <= limit)
  <2>1. PICK n \in 1 .. limit : excerpt = [chars |-> n, cut |-> TRUE]
    BY <1>2 DEF Excerpts
  <2>2. QED
    BY <1>2, <2>1
<1>3. QED
  BY <1>1, <1>2

(* The steps before the first candidate. *)
LEMMA ArtifactKeepsChoice ==
    ASSUME ChoiceInv, BoundInv', Disabled \/ AddArtifact \/ OmitArtifact
    PROVE  ChoiceInv'
<1>1. /\ TypeOK /\ TypeOK' /\ request' = request /\ selected = {} /\ selected' = {}
      /\ sources = <<>> /\ totalChars = 0 /\ ~truncated /\ next = 1 /\ next' = 1
      /\ phase = "artifact" /\ phase' # "artifact"
  BY DEF ChoiceInv, BoundInv, NothingYet, Disabled, AddArtifact, OmitArtifact
<1>2. \A n \in DOMAIN Candidates' : ~(n < 1)
  BY <1>1, CandidatesTyped, CandidatesStay
<1>3. /\ Files' = {}
      /\ ~truncated' =>
           /\ phase' = "done" => ~request.enabled
           /\ /\ request.enabled
              /\ request.maxChars > 0
              /\ request.includeArtifact
              /\ request.artifact > 0
              => /\ 1 \in DOMAIN sources'
                 /\ sources'[1].path = InputArtifact
                 /\ sources'[1].chars = request.artifact
  <2>1. CASE Disabled \/ OmitArtifact
    BY <1>1, <2>1 DEF Disabled, OmitArtifact, Files, TypeOK
  <2>2. CASE AddArtifact
    <3>1. PICK excerpt \in Excerpts(request.artifact, request.maxChars) :
              IF excerpt.chars > 0
              THEN /\ sources' = Kept(InputArtifact, excerpt)
                   /\ truncated' = excerpt.cut
              ELSE UNCHANGED <<sources, truncated>>
      <4>1. request.maxChars \in Int
        BY <1>1, RequestAssumption DEF TypeOK, Request
      <4>2. request.maxChars - totalChars = request.maxChars
        BY <1>1, <4>1
      <4>3. QED
        BY <2>2, <4>2 DEF AddArtifact
    <3>2. request.maxChars \in Int /\ request.artifact \in Nat
      BY <1>1, RequestAssumption DEF TypeOK, Request
    <3>3. CASE excerpt.chars > 0
      <4>1. sources' = <<[path |-> InputArtifact, chars |-> excerpt.chars,
                          cut |-> excerpt.cut]>>
        BY <1>1, <3>1, <3>3 DEF Kept
      <4>2. /\ DOMAIN sources' = {1}
            /\ sources'[1] = [path |-> InputArtifact, chars |-> excerpt.chars,
                              cut |-> excerpt.cut]
        BY <4>1
      <4>3. request.maxChars > 0 /\ ~truncated' => excerpt.chars = request.artifact
        BY <3>1, <3>2, <3>3, ExcerptWithRoom
      <4>4. phase' = "files"
        BY <2>2 DEF AddArtifact
      <4>5. QED
        BY <1>1, <4>2, <4>3, <4>4 DEF Files
    <3>4. CASE ~(excerpt.chars > 0)
      <4>1. ~(request.maxChars > 0 /\ request.artifact > 0)
        BY <3>2, <3>4, ExcerptWithRoom
      <4>2. phase' = "files" /\ sources' = <<>>
        BY <1>1, <2>2, <3>1, <3>4 DEF AddArtifact
      <4>3. QED
        BY <4>1, <4>2 DEF Files
    <3>5. QED
      BY <3>3, <3>4
  <2>3. QED
    BY <2>1, <2>2
<1>4. NothingYet' /\ InFromATurn' /\ UsableAreIn' /\ FilesAreSelected' /\ InOrder'
  BY <1>1, <1>2, <1>3
     DEF NothingYet, InFromATurn, UsableAreIn, FilesAreSelected, InOrder
<1>5. CutIsMarked'
  BY <1>1, <1>3 DEF CutIsMarked, Holds
<1>6. QED
  BY <1>4, <1>5 DEF ChoiceInv

(* A candidate that is not in yet is the first to name its file. *)
LEMMA NewCandidateTakesItsTurn ==
    ASSUME ChoiceInv, AtCandidate, ~Repeated(Candidate), Usable(Candidate)
    PROVE  next \in Turns
<1>1. Candidates \in Seq(Spelling) /\ next \in Nat \ {0}
  BY CandidatesTyped DEF ChoiceInv, BoundInv, TypeOK
<1>2. next \in DOMAIN Candidates /\ DOMAIN Candidates = 1 .. Len(Candidates)
      /\ Len(Candidates) \in Nat
  BY <1>1 DEF AtCandidate
<1>3. Candidate = Name(next)
  BY DEF Candidate, Name
<1>4. ASSUME NEW m \in 1 .. next - 1, Name(m) = Name(next)
      PROVE  FALSE
  <2>1. m \in DOMAIN Candidates /\ m < next /\ Usable(Name(m))
    BY <1>1, <1>2, <1>3, <1>4
  <2>2. Name(m) \in selected
    BY <2>1 DEF ChoiceInv, UsableAreIn
  <2>3. QED
    BY <1>3, <1>4, <2>2 DEF Repeated
<1>5. QED
  BY <1>2, <1>3, <1>4 DEF Turns

LEMMA LoadFileKeepsChoice ==
    ASSUME ChoiceInv, BoundInv', LoadFile
    PROVE  ChoiceInv'
<1> DEFINE p == Candidate
<1>1. /\ TypeOK /\ TypeOK' /\ AtCandidate /\ ~Repeated(p) /\ phase = "files"
      /\ phase' = "files" /\ request' = request /\ next' = next + 1
      /\ next \in Nat \ {0} /\ p = Name(next)
      /\ InFromATurn /\ UsableAreIn /\ FilesAreSelected /\ InOrder /\ CutIsMarked
  BY DEF ChoiceInv, BoundInv, TypeOK, LoadFile, AtCandidate, Candidate, Name
<1>2. p \in Path /\ p # Blank /\ p # InputArtifact /\ p \notin selected
  BY <1>1, CandidateTyped, PathAssumption DEF Repeated
<1>3. /\ request.size[p] \in Nat
      /\ request.maxChars \in Int
      /\ totalChars \in Nat
      /\ request.maxChars - totalChars > 0
  BY <1>1, <1>2, RequestAssumption DEF TypeOK, Request, LoadFile, LimitReached
<1>4. PICK excerpt \in Excerpts(request.size[p], request.maxChars - totalChars) :
          IF excerpt.chars > 0
          THEN /\ sources' = Kept(p, excerpt)
               /\ selected' = selected \cup {p}
               /\ truncated' = (truncated \/ excerpt.cut)
          ELSE UNCHANGED <<sources, selected, truncated>>
  BY DEF LoadFile
<1>5. /\ excerpt.chars > 0 <=> request.size[p] > 0
      /\ ~excerpt.cut => excerpt.chars = request.size[p]
  <2>1. request.maxChars - totalChars \in Int
    BY <1>3
  <2>2. QED
    BY <1>3, <1>4, <2>1, ExcerptWithRoom
<1>6. /\ Candidates' = Candidates /\ \A n : Name(n)' = Name(n)
      /\ \A path : Usable(path)' = Usable(path)
      /\ Turns' = Turns
  BY <1>1, CandidatesStay
<1>7. \A n \in Turns : n \in Nat \ {0} /\ (n < next => n < next')
  BY <1>1, TurnNamesPath
<1>8. \A n \in DOMAIN Candidates : n < next' => n < next \/ n = next
  BY <1>1, CandidatesTyped
<1>9. CASE request.size[p] = 0
  <2>1. UNCHANGED <<sources, selected, truncated>>
    BY <1>3, <1>4, <1>5, <1>9
  <2>2. ~Usable(p) /\ Files' = Files
    BY <1>9, <2>1 DEF Usable, Files
  <2>3. NothingYet' /\ InFromATurn' /\ UsableAreIn' /\ FilesAreSelected' /\ InOrder'
    BY <1>1, <1>6, <1>7, <1>8, <2>1, <2>2
       DEF NothingYet, InFromATurn, UsableAreIn, FilesAreSelected, InOrder
  <2>4. CutIsMarked'
    BY <1>1, <2>1, <2>2 DEF CutIsMarked, Holds
  <2>5. QED
    BY <2>3, <2>4 DEF ChoiceInv
<1>10. CASE request.size[p] > 0
  <2> DEFINE last == Len(sources) + 1
  <2>1. /\ sources' = Kept(p, excerpt)
        /\ selected' = selected \cup {p}
        /\ truncated' = (truncated \/ excerpt.cut)
    BY <1>4, <1>5, <1>10
  <2>2. next \in Turns
    BY <1>1, <1>2, <1>10, NewCandidateTakesItsTurn DEF ChoiceInv, Usable
  <2>3. excerpt.chars \in Nat /\ excerpt.cut \in BOOLEAN
    BY <1>3, <1>4, ExcerptFits
  <2>4. /\ DOMAIN sources' = 1 .. last /\ DOMAIN sources = 1 .. Len(sources)
        /\ Len(sources) \in Nat
        /\ \A i \in DOMAIN sources' :
             sources'[i] = IF i <= Len(sources) THEN sources[i]
                           ELSE [path |-> p, chars |-> excerpt.chars,
                                 cut |-> excerpt.cut]
    BY <1>1, <1>2, <2>1, <2>3, KeptTyped
  <2>5. /\ DOMAIN sources \subseteq DOMAIN sources'
        /\ \A i \in DOMAIN sources : sources'[i] = sources[i] /\ i < last
        /\ last \in DOMAIN sources' /\ last \notin DOMAIN sources
        /\ sources'[last] = [path |-> p, chars |-> excerpt.chars, cut |-> excerpt.cut]
        /\ DOMAIN sources' = DOMAIN sources \cup {last}
        /\ last \in Nat
    BY <2>4
  <2>6. /\ Files' = Files \cup {last}
        /\ \A i \in Files : sources'[i] = sources[i] /\ i < last /\ i \in Nat
        /\ sources'[last].path = p /\ sources'[last].chars = excerpt.chars
    BY <1>2, <2>4, <2>5 DEF Files
  <2>7. InFromATurn'
    BY <1>1, <1>6, <1>7, <2>1, <2>2 DEF InFromATurn
  <2>8. UsableAreIn'
    BY <1>1, <1>6, <1>8, <2>1 DEF UsableAreIn
  <2>9. FilesAreSelected'
    BY <1>1, <2>1, <2>6 DEF FilesAreSelected
  <2>10. InOrder'
    <3>1. ASSUME NEW i \in Files', NEW j \in Files', i < j
          PROVE  \E m, n \in Turns :
                     m < n /\ sources'[i].path = Name(m) /\ sources'[j].path = Name(n)
      <4>1. CASE j = last
        <5>1. i \in Files
          BY <2>5, <2>6, <3>1, <4>1
        <5>2. PICK m \in Turns : m < next /\ sources[i].path = Name(m)
          BY <1>1, <5>1 DEF FilesAreSelected, InFromATurn
        <5>3. QED
          BY <1>1, <2>2, <2>6, <4>1, <5>1, <5>2
      <4>2. CASE j # last
        <5>1. i \in Files /\ j \in Files
          BY <2>5, <2>6, <3>1, <4>2
        <5>2. QED
          BY <1>1, <2>6, <3>1, <5>1 DEF InOrder
      <4>3. QED
        BY <4>1, <4>2
    <3>2. QED
      BY <1>6, <3>1 DEF InOrder
  <2>11. CutIsMarked'
    <3>1. ~truncated' => ~truncated /\ excerpt.chars = request.size[p]
      BY <1>1, <1>5, <2>1, <2>3 DEF TypeOK
    <3>2. ~truncated' => \A i \in Files' : sources'[i].chars = request.size[sources'[i].path]
      BY <1>1, <2>6, <3>1 DEF CutIsMarked
    <3>3. Holds(InputArtifact, request.artifact) => Holds(InputArtifact, request.artifact)'
      BY <1>1, <2>5 DEF Holds
    <3>4. QED
      BY <1>1, <3>1, <3>2, <3>3 DEF CutIsMarked
  <2>12. NothingYet'
    BY <1>1 DEF NothingYet
  <2>13. QED
    BY <2>7, <2>8, <2>9, <2>10, <2>11, <2>12 DEF ChoiceInv
<1>11. QED
  BY <1>3, <1>9, <1>10

LEMMA ChoiceStep == ChoiceInv /\ [Next]_vars => ChoiceInv'
<1> SUFFICES ASSUME ChoiceInv, [Next]_vars
             PROVE  ChoiceInv'
  OBVIOUS
<1>1. BoundInv /\ BoundInv' /\ TypeOK
  BY BoundStep DEF ChoiceInv, BoundInv
<1>2. ASSUME UNCHANGED <<request, sources, selected, totalChars>>,
             phase = "artifact" => UNCHANGED <<phase, truncated, next>>,
             phase' = phase \/ phase' = "done",
             ~truncated' =>
               /\ ~truncated
               /\ phase' = "done" /\ phase # "done" => next > Len(Candidates),
             \/ next' = next
             \/ phase = "files" /\ next' = next + 1 /\ Repeated(Candidate) /\ phase' = phase
      PROVE  ChoiceInv'
  <2>1. /\ Candidates' = Candidates /\ \A n : Name(n)' = Name(n)
        /\ \A path : Usable(path)' = Usable(path)
        /\ Turns' = Turns /\ Files' = Files
    BY <1>2, CandidatesStay DEF Files
  <2>2. next \in Nat \ {0} /\ next' \in Nat /\ next <= next'
    BY <1>1, <1>2 DEF BoundInv, TypeOK
  <2>3. InFromATurn' /\ FilesAreSelected' /\ InOrder'
    <3>1. \A n \in Turns : n < next => n < next'
      BY <1>1, <2>2, TurnNamesPath
    <3>2. QED
      BY <1>2, <2>1, <3>1 DEF ChoiceInv, InFromATurn, FilesAreSelected, InOrder
  <2>4. UsableAreIn'
    <3>1. ASSUME NEW n \in DOMAIN Candidates, n < next', Usable(Name(n))
          PROVE  Name(n) \in selected
      <4>1. CASE n < next
        BY <3>1, <4>1 DEF ChoiceInv, UsableAreIn
      <4>2. CASE ~(n < next)
        <5>1. n \in Nat
          BY <1>1, CandidatesTyped
        <5>2. n = next /\ Repeated(Name(n))
          BY <1>2, <2>2, <3>1, <4>2, <5>1 DEF Candidate, Name
        <5>3. QED
          BY <3>1, <5>2 DEF Usable, Repeated
      <4>3. QED
        BY <4>1, <4>2
    <3>2. QED
      BY <1>2, <2>1, <3>1 DEF UsableAreIn
  <2>5. NothingYet'
    BY <1>2 DEF ChoiceInv, NothingYet
  <2>6. CutIsMarked'
    <3>1. Len(Candidates) \in Nat
      BY <1>1, CandidatesTyped
    <3>2. phase = "artifact" => phase' = phase
      BY <1>2
    <3>3. QED
      BY <1>2, <2>1, <2>2, <3>1, <3>2 DEF ChoiceInv, CutIsMarked, Holds
  <2>7. QED
    BY <1>1, <2>3, <2>4, <2>5, <2>6 DEF ChoiceInv
<1>3. CASE Disabled \/ AddArtifact \/ OmitArtifact
  BY <1>1, <1>3, ArtifactKeepsChoice
<1>4. CASE SkipRepeated
  BY <1>2, <1>4 DEF SkipRepeated, AtCandidate
<1>5. CASE StopAtLimit
  BY <1>2, <1>5 DEF StopAtLimit, AtCandidate
<1>6. CASE LoadFile
  BY <1>1, <1>6, LoadFileKeepsChoice
<1>7. CASE Finish
  BY <1>2, <1>7 DEF Finish
<1>8. CASE UNCHANGED vars
  BY <1>2, <1>8 DEF vars
<1>9. QED
  BY <1>3, <1>4, <1>5, <1>6, <1>7, <1>8 DEF Next

(* The limits never let a less important file in before a more important    *)
(* one, whatever the total_chars the code keeps: the loop stops at a limit  *)
(* for good, and a file it passes over was unusable or in already.          *)
THEOREM FilesAreTheFirstWantedHolds == Spec => []FilesAreTheFirstWanted
<1>1. ChoiceInv => FilesAreTheFirstWanted
  <2> SUFFICES ASSUME ChoiceInv
               PROVE  FilesAreTheFirstWanted
    OBVIOUS
  <2>1. /\ TypeOK /\ InFromATurn /\ UsableAreIn /\ FilesAreSelected /\ InOrder
        /\ DOMAIN sources \subseteq Nat
    BY DEF ChoiceInv, BoundInv, TypeOK
  <2>2. \A i \in Files : \E n \in Turns : n < next /\ sources[i].path = Name(n)
    BY <2>1 DEF FilesAreSelected, InFromATurn
  <2>3. \A n \in Turns : n \in Nat
    BY <2>1, TurnNamesPath
  <2>4. ASSUME NEW i \in Files, NEW j \in Files, sources[i].path = sources[j].path
        PROVE  i = j
    <3>1. i \in Nat /\ j \in Nat
      BY <2>1 DEF Files
    <3>2. ASSUME NEW k \in Files, NEW l \in Files, k < l, sources[k].path = sources[l].path
          PROVE  FALSE
      <4>1. PICK m, n \in Turns :
                m < n /\ sources[k].path = Name(m) /\ sources[l].path = Name(n)
        BY <2>1, <3>2 DEF InOrder
      <4>2. m = n
        BY <2>1, <3>2, <4>1, TurnsAreDistinct
      <4>3. QED
        BY <2>3, <4>1, <4>2
    <3>3. ~(i < j) /\ ~(j < i)
      BY <2>4, <3>2
    <3>4. QED
      BY <3>1, <3>3
  <2>5. ASSUME NEW j \in Files, NEW m \in Turns, NEW n \in Turns,
               m < n, sources[j].path = Name(n)
        PROVE  \E i \in Files : i < j /\ sources[i].path = Name(m)
    <3>1. n < next
      BY <2>1, <2>2, <2>5, TurnsAreDistinct
    <3>2. m \in DOMAIN Candidates /\ m < next /\ Usable(Name(m))
      BY <2>1, <2>3, <2>5, <3>1 DEF Turns, TypeOK
    <3>3. PICK i \in Files : sources[i].path = Name(m)
      BY <2>1, <3>2 DEF UsableAreIn, FilesAreSelected
    <3>4. i # j
      <4>1. m # n
        BY <2>3, <2>5
      <4>2. QED
        BY <2>1, <2>5, <3>3, <4>1, TurnsAreDistinct
    <3>5. ~(j < i)
      <4>1. SUFFICES ASSUME j < i
                     PROVE  FALSE
        OBVIOUS
      <4>2. PICK k, l \in Turns :
                k < l /\ sources[j].path = Name(k) /\ sources[i].path = Name(l)
        BY <2>1, <4>1 DEF InOrder
      <4>3. k = n /\ l = m
        BY <2>1, <2>5, <3>3, <4>2, TurnsAreDistinct
      <4>4. QED
        BY <2>3, <2>5, <4>2, <4>3
    <3>6. i \in Nat /\ j \in Nat
      BY <2>1 DEF Files
    <3>7. QED
      BY <3>3, <3>4, <3>5, <3>6
  <2>6. QED
    BY <2>2, <2>4, <2>5 DEF FilesAreTheFirstWanted
<1>2. QED
  BY <1>1, ChoiceInit, ChoiceStep, PTL DEF Spec

(* A finished bundle that is not marked truncated has left nothing out and  *)
(* cut nothing.                                                             *)
THEOREM OmissionsAreMarkedHolds == Spec => []OmissionsAreMarked
<1>1. ChoiceInv => OmissionsAreMarked
  <2> SUFFICES ASSUME ChoiceInv, phase = "done", request.enabled,
                      request.maxChars > 0, ~truncated
               PROVE  /\ \A n \in Turns : Holds(Name(n), request.size[Name(n)])
                      /\ request.includeArtifact /\ request.artifact > 0 =>
                             Holds(InputArtifact, request.artifact)
    BY DEF OmissionsAreMarked
  <2>1. /\ TypeOK /\ UsableAreIn /\ FilesAreSelected /\ CutIsMarked
        /\ next \in Nat /\ next > Len(Candidates)
    BY DEF ChoiceInv, BoundInv, TypeOK, CutIsMarked
  <2>2. ASSUME NEW n \in Turns
        PROVE  Holds(Name(n), request.size[Name(n)])
    <3>1. n \in DOMAIN Candidates /\ n < next /\ Usable(Name(n))
      BY <2>1, CandidatesTyped DEF Turns
    <3>2. PICK i \in Files : sources[i].path = Name(n)
      BY <2>1, <3>1 DEF UsableAreIn, FilesAreSelected
    <3>3. QED
      BY <2>1, <3>2 DEF CutIsMarked, Holds, Files
  <2>3. QED
    BY <2>1, <2>2 DEF CutIsMarked
<1>2. QED
  BY <1>1, ChoiceInit, ChoiceStep, PTL DEF Spec
=============================================================================
