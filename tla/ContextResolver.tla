--------------------------- MODULE ContextResolver ---------------------------
(***************************************************************************)
(* DeterministicContextResolver.resolve: the input artifact and a list of  *)
(* candidate files, most important first, become the sources of a context  *)
(* bundle, under a limit on files and a limit on characters.               *)
(*                                                                         *)
(* A text is its length.  A file that resolve cannot use (outside the      *)
(* repository, missing, of another extension, not UTF-8, blank) has        *)
(* length 0: the code treats all five alike.                               *)
(***************************************************************************)
EXTENDS Integers, Sequences, SequencesExt

CONSTANTS
    Spelling,        \* the paths a policy, a prompt reference or a glob may name
    Path,            \* those paths without slashes at either end
    Blank,           \* what is left of a path made of slashes only
    Normal,          \* Normal[s]: the path s.strip("/")
    InputArtifact,   \* the path recorded for the input artifact
    Requests         \* the calls of resolve: a policy, an artifact, a repository

Request ==
    [enabled : BOOLEAN, includeArtifact : BOOLEAN, includePromptFiles : BOOLEAN,
     maxFiles : Int, maxChars : Int, artifact : Nat, size : [Path -> Nat],
     promptFiles : Seq(Spelling), alwaysInclude : Seq(Spelling),
     extraPaths : Seq(Spelling), globbed : Seq(Spelling)]

ASSUME PathAssumption ==
    /\ Blank \notin Path
    /\ InputArtifact \notin Path
    /\ Normal \in [Spelling -> Path \cup {Blank}]

ASSUME RequestAssumption == Requests \subseteq Request

VARIABLES
    request,      \* the call in progress
    phase,        \* where resolve stands
    next,         \* index of the next candidate
    sources,      \* the sources kept so far
    selected,     \* the paths of the files among them
    totalChars,   \* the code's total_chars
    truncated     \* whether something was cut or left out

vars == <<request, phase, next, sources, selected, totalChars, truncated>>

Source == [path : Path \cup {InputArtifact}, chars : Nat, cut : BOOLEAN]

TypeOK ==
    /\ request \in Requests
    /\ phase \in {"artifact", "files", "done"}
    /\ next \in Nat \ {0}
    /\ sources \in Seq(Source)
    /\ selected \subseteq Path
    /\ totalChars \in Nat
    /\ truncated \in BOOLEAN

(* The candidates, in the order of their kinds. *)
Candidates ==
    (IF request.includePromptFiles THEN request.promptFiles ELSE <<>>)
    \o request.alwaysInclude \o request.extraPaths \o request.globbed

Init ==
    /\ request \in Requests
    /\ phase = "artifact"
    /\ next = 1
    /\ sources = <<>>
    /\ selected = {}
    /\ totalChars = 0
    /\ truncated = FALSE

(* _make_source on a text of the given length: 0 characters mean no source.  *)
(* A cut text also loses the white space it then ends with, so its length is *)
(* anything up to the limit.                                                 *)
Excerpts(length, limit) ==
    IF limit <= 0 THEN {[chars |-> 0, cut |-> TRUE]}
    ELSE IF length <= limit THEN {[chars |-> length, cut |-> FALSE]}
    ELSE {[chars |-> n, cut |-> TRUE] : n \in 1 .. limit}

Kept(path, excerpt) ==
    Append(sources, [path |-> path, chars |-> excerpt.chars, cut |-> excerpt.cut])

(* Mutant of Count: counting down what is left. *)
CountDown(excerpt) == totalChars - excerpt.chars

(* The character count becomes the length of the text just read, whatever *)
(* was counted before.                                                    *)
Count(excerpt) == excerpt.chars

Disabled ==
    /\ phase = "artifact"
    /\ ~request.enabled
    /\ phase' = "done"
    /\ UNCHANGED <<request, next, sources, selected, totalChars, truncated>>

AddArtifact ==
    /\ phase = "artifact"
    /\ request.enabled
    /\ request.includeArtifact
    /\ request.artifact > 0
    /\ \E excerpt \in Excerpts(request.artifact, request.maxChars - totalChars) :
        /\ totalChars' = excerpt.chars
        /\ IF excerpt.chars > 0
           THEN /\ sources' = Kept(InputArtifact, excerpt)
                /\ truncated' = excerpt.cut
           ELSE UNCHANGED <<sources, truncated>>
    /\ phase' = "files"
    /\ UNCHANGED <<request, next, selected>>

OmitArtifact ==
    /\ phase = "artifact"
    /\ request.enabled
    /\ ~request.includeArtifact \/ request.artifact = 0
    /\ phase' = "files"
    /\ UNCHANGED <<request, next, sources, selected, totalChars, truncated>>

AtCandidate ==
    /\ phase = "files"
    /\ next <= Len(Candidates)

Candidate == Normal[Candidates[next]]

(* Mutant of Repeated: which files are in already is not looked at. *)
RepeatedIfBlank(path) == path = Blank

Repeated(path) == path = Blank \/ path \in selected

(* Mutant of LimitReached: the file limit is asked for one file too late. *)
LimitExceeded ==
    \/ Len(sources) > request.maxFiles
    \/ totalChars >= request.maxChars

LimitReached ==
    \/ Len(sources) >= request.maxFiles
    \/ totalChars >= request.maxChars

SkipRepeated ==
    /\ AtCandidate
    /\ Repeated(Candidate)
    /\ next' = next + 1
    /\ UNCHANGED <<request, phase, sources, selected, totalChars, truncated>>

(* Mutant of StopAtLimit: truncated is not set. *)
StopSilently ==
    /\ AtCandidate
    /\ ~Repeated(Candidate)
    /\ LimitReached
    /\ phase' = "done"
    /\ UNCHANGED <<request, next, sources, selected, totalChars, truncated>>

StopAtLimit ==
    /\ AtCandidate
    /\ ~Repeated(Candidate)
    /\ LimitReached
    /\ truncated' = TRUE
    /\ phase' = "done"
    /\ UNCHANGED <<request, next, sources, selected, totalChars>>

LoadFile ==
    /\ AtCandidate
    /\ ~Repeated(Candidate)
    /\ ~LimitReached
    /\ \E excerpt \in Excerpts(request.size[Candidate], request.maxChars - totalChars) :
        /\ totalChars' = Count(excerpt)
        /\ IF excerpt.chars > 0
           THEN /\ sources' = Kept(Candidate, excerpt)
                /\ selected' = selected \cup {Candidate}
                /\ truncated' = (truncated \/ excerpt.cut)
           ELSE UNCHANGED <<sources, selected, truncated>>
    /\ next' = next + 1
    /\ UNCHANGED <<request, phase>>

Finish ==
    /\ phase = "files"
    /\ next > Len(Candidates)
    /\ phase' = "done"
    /\ UNCHANGED <<request, next, sources, selected, totalChars, truncated>>

Next ==
    \/ Disabled \/ AddArtifact \/ OmitArtifact
    \/ SkipRepeated \/ StopAtLimit \/ LoadFile \/ Finish

Spec == Init /\ [][Next]_vars

-----------------------------------------------------------------------------
Name(n) == Normal[Candidates[n]]

Usable(path) == path # Blank /\ request.size[path] > 0

(* The turns at which a usable file is named for the first time: a bundle   *)
(* without limits would hold the files of these turns, in this order.       *)
Turns == {n \in DOMAIN Candidates : /\ Usable(Name(n))
                                    /\ \A m \in 1 .. n - 1 : Name(m) # Name(n)}

Files == {i \in DOMAIN sources : sources[i].path # InputArtifact}

Holds(path, length) ==
    \E i \in DOMAIN sources : sources[i].path = path /\ sources[i].chars = length

Total == FoldLeft(LAMBDA sum, source : sum + source.chars, 0, sources)

(* The limits never let a less important file in before a more important one: *)
(* the files of a bundle are the first usable candidates, each once, and with *)
(* one of them the bundle holds all that come before it, before it, whatever  *)
(* the character count does on the way.                                       *)
FilesAreTheFirstWanted ==
    /\ \A i \in Files : \E n \in Turns : sources[i].path = Name(n)
    /\ \A i, j \in Files : sources[i].path = sources[j].path => i = j
    /\ \A j \in Files : \A m, n \in Turns :
           m < n /\ sources[j].path = Name(n) =>
               \E i \in Files : i < j /\ sources[i].path = Name(m)

(* A finished bundle that is not marked truncated holds the input artifact   *)
(* and every usable candidate, uncut.  With no characters allowed at all the *)
(* code leaves the artifact out unmarked when there is no candidate either.  *)
OmissionsAreMarked ==
    phase = "done" /\ request.enabled /\ request.maxChars > 0 /\ ~truncated =>
        /\ \A n \in Turns : Holds(Name(n), request.size[Name(n)])
        /\ request.includeArtifact /\ request.artifact > 0 =>
               Holds(InputArtifact, request.artifact)

(* The bounds the code keeps: no bundle with a file in it has more sources  *)
(* than max_files, the artifact included, which is taken without asking for *)
(* room; and no source alone is longer than max_chars, though what remains  *)
(* of the limit is computed anew for each.                                  *)
BundleIsBounded ==
    /\ Len(sources) <= request.maxFiles \/ selected = {}
    /\ \A i \in DOMAIN sources : sources[i].chars <= request.maxChars

(* "resolves a bounded ContextBundle", with a MAX_CHARS setting: the sources *)
(* of a bundle have at most max_chars characters together.                   *)
BundleWithinBudget == Total <= request.maxChars
=============================================================================
