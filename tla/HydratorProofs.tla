------------------------------ MODULE HydratorProofs -----------------------------
(* The hydrator, for any items, sweeps and settings: the types, that what is  *)
(* shown as completed is true, that a request is generated once and that no   *)
(* item is abandoned.                                                         *)
EXTENDS Hydrator, TLAPS

Busy == {"generate", "store", "write", "fail"}
Rendered == {"asset", "certificate"}
Entry == [item : Items, asked : Nat]
Passage == [pc : Places, step : 0 .. Last, batch : SUBSET Entry, item : Items \cup {None}, asked : Nat]

\* What an actor is about is of the kind of its step, and the file of a rendered
\* item is there before the last write.
Sound(a) ==
    /\ at[a].pc \in {"rest", "list"} => at[a].batch = {}
    /\ at[a].pc # "rest" => at[a].step \in 1 .. Last
    /\ a = Hook /\ at[a].pc # "rest" => at[a].step = Last
    /\ \A j \in at[a].batch : kind[j.item] = Pass[at[a].step]
    /\ at[a].pc \in Busy => at[a].item \in Items /\ kind[at[a].item] = Pass[at[a].step]
    /\ at[a].pc = "store" => kind[at[a].item] \in Rendered
    /\ at[a].pc = "write" /\ kind[at[a].item] \in Rendered => at[a].item \in stored

DataOK ==
    /\ env \in [key : BOOLEAN, store : BOOLEAN, prompt : BOOLEAN]
    /\ kind \in [Items -> Kinds]
    /\ status \in [Items -> {"none", "pending", "processing", "completed", "failed"}]
    /\ asked \in [Items -> Nat]
    /\ content \in [Items -> Nat] /\ \A i \in Items : content[i] \in 0 .. asked[i]
    /\ runs \in [Items -> Nat]
    /\ stored \subseteq {i \in Items : kind[i] \in Rendered}
    /\ armed \in BOOLEAN
    /\ faults \in 0 .. MaxFaults

TypeInv ==
    /\ DataOK
    /\ at \in [Actors -> Passage]
    /\ \A a \in Actors : Sound(a) /\ \A j \in at[a].batch : j.asked <= asked[j.item]
    /\ \A a \in Actors : at[a].pc \in Busy => at[a].asked <= asked[at[a].item]
    /\ FilesAreStored

--------------------------------------------------------------------------------
(* One sweep at a time *)

Plain(i) == kind[i] # "certificate"

\* A sweep has the items it listed to itself: they are as it read them until it
\* is done with them.
Holds(a) ==
    /\ \A j \in at[a].batch :
         /\ status[j.item] = "pending" /\ asked[j.item] = j.asked
         /\ at[a].pc \in Busy => j.item # at[a].item
    /\ at[a].pc \in Busy =>
         /\ status[at[a].item] \in {"pending", "processing"}
         /\ asked[at[a].item] = at[a].asked

Alone == \A a, b \in Sweeps : Running(a) /\ Running(b) => a = b

PromptInv ==
    env.prompt =>
      /\ Alone
      /\ \A a \in Sweeps : at[a].step # Last => Holds(a)
      /\ \A i \in Items : status[i] = "completed" /\ Plain(i) => content[i] = asked[i]

\* What is still to be taken has not been generated.
OnceInv ==
    env.prompt /\ faults = 0 =>
      \A i \in Items : Plain(i) => runs[i] <= 1 /\ (status[i] = "pending" => runs[i] = 0)
--------------------------------------------------------------------------------
(* The kinds and the steps of a pass *)

LEMMA PassIs ==
    /\ Last = 8 /\ DOMAIN Pass = 1 .. 8 /\ Pass[8] = "certificate"
    /\ \A k \in 1 .. 7 : Pass[k] # "certificate"
    /\ Kinds = {"block", "pdf", "asset", "media", "channel", "lesson", "course", "certificate"}
<1>1. Last = 8 /\ DOMAIN Pass = 1 .. 8
  BY DEF Last, Pass
<1>2. /\ Pass[1] = "block" /\ Pass[2] = "pdf" /\ Pass[3] = "asset" /\ Pass[4] = "media"
      /\ Pass[5] = "channel" /\ Pass[6] = "lesson" /\ Pass[7] = "course" /\ Pass[8] = "certificate"
  BY DEF Pass
<1>3. \A k \in 1 .. 8 : k = 1 \/ k = 2 \/ k = 3 \/ k = 4 \/ k = 5 \/ k = 6 \/ k = 7 \/ k = 8
  OBVIOUS
<1> QED
  BY <1>1, <1>2, <1>3 DEF Kinds

LEMMA PathIs ==
    ASSUME NEW k \in Kinds
    PROVE  Processor[k].path = IF k \in Rendered THEN <<"generate", "store">> ELSE <<"generate">>
  BY PassIs DEF Processor, Blocks, PDFs, Assets, MediaTranscripts, ChannelDescriptions,
     LessonContent, CourseDescriptions, Certificates, Rendered

\* After the generation comes the rendering, if any, then the last write.
LEMMA AfterIs ==
    ASSUME TypeInv, NEW a \in Actors, at[a].pc = "generate"
    PROVE  After(a, "generate") = IF kind[at[a].item] \in Rendered THEN "store" ELSE "write"
<1> DEFINE k == kind[at[a].item] p == My(a).path
<1>1. k \in Kinds /\ p = Processor[k].path
  BY DEF TypeInv, DataOK, Sound, Busy, My
<1>2. CASE k \in Rendered
  <2>1. p = <<"generate", "store">>
    BY <1>1, <1>2, PathIs
  <2> HIDE DEF p
  <2>2. DOMAIN p = 1 .. 2 /\ p[1] = "generate" /\ p[2] = "store" /\ Len(p) = 2
    BY <2>1
  <2>3. (CHOOSE m \in DOMAIN p : p[m] = "generate") = 1
    BY <2>2
  <2> QED
    BY <1>2, <2>2, <2>3 DEF After, p
<1>3. CASE k \notin Rendered
  <2>1. p = <<"generate">>
    BY <1>1, <1>3, PathIs
  <2> HIDE DEF p
  <2>2. DOMAIN p = 1 .. 1 /\ p[1] = "generate" /\ Len(p) = 1
    BY <2>1
  <2>3. (CHOOSE m \in DOMAIN p : p[m] = "generate") = 1
    BY <2>2
  <2> QED
    BY <1>3, <2>2, <2>3 DEF After, p
<1> QED
  BY <1>2, <1>3

LEMMA StoredKinds ==
    ASSUME NEW k \in Kinds
    PROVE  "store" \in {Processor[k].path[n] : n \in DOMAIN Processor[k].path} <=> k \in Rendered
<1>1. CASE k \in Rendered
  <2> DEFINE p == Processor[k].path
  <2>1. p = <<"generate", "store">>
    BY <1>1, PathIs
  <2> HIDE DEF p
  <2>2. DOMAIN p = 1 .. 2 /\ p[2] = "store"
    BY <2>1
  <2> QED
    BY <1>1, <2>2 DEF p
<1>2. CASE k \notin Rendered
  <2> DEFINE p == Processor[k].path
  <2>1. p = <<"generate">>
    BY <1>2, PathIs
  <2> HIDE DEF p
  <2>2. DOMAIN p = 1 .. 1 /\ p[1] = "generate"
    BY <2>1
  <2> QED
    BY <1>2, <2>2 DEF p
<1> QED
  BY <1>1, <1>2

\* A pass goes on to a later step with nothing listed, or is over.
LEMMA ListFromIs ==
    ASSUME NEW n \in 1 .. 9
    PROVE  /\ ListFrom(n) \in Passage /\ ListFrom(n).batch = {}
           /\ \/ ListFrom(n).pc = "rest"
              \/ ListFrom(n).pc = "list" /\ ListFrom(n).step \in n .. Last
<1>1. Resting \in Passage /\ Resting.pc = "rest" /\ Resting.batch = {} /\ Last = 8
  BY PassIs DEF Resting, Passage, Places
<1>2. CASE Steps(n) = {}
  BY <1>1, <1>2 DEF ListFrom
<1>3. CASE Steps(n) # {}
  <2> DEFINE m == CHOOSE m \in Steps(n) : Steps(n) \subseteq m .. Last
  <2>1. Steps(n) \subseteq n .. 8
    BY <1>1 DEF Steps
  <2>2. \E i \in Steps(n) : Steps(n) \subseteq i .. Last
    <3> HIDE DEF m
    <3>1. CASE 1 \in Steps(n)
      BY <1>1, <2>1, <3>1
    <3>2. CASE 1 \notin Steps(n) /\ 2 \in Steps(n)
      BY <1>1, <2>1, <3>2
    <3>3. CASE 1 \notin Steps(n) /\ 2 \notin Steps(n) /\ 3 \in Steps(n)
      BY <1>1, <2>1, <3>3
    <3>4. CASE 1 \notin Steps(n) /\ 2 \notin Steps(n) /\ 3 \notin Steps(n) /\ 4 \in Steps(n)
      BY <1>1, <2>1, <3>4
    <3>5. CASE Steps(n) \cap {1, 2, 3, 4} = {} /\ 5 \in Steps(n)
      BY <1>1, <2>1, <3>5
    <3>6. CASE Steps(n) \cap {1, 2, 3, 4, 5} = {} /\ 6 \in Steps(n)
      BY <1>1, <2>1, <3>6
    <3>7. CASE Steps(n) \cap {1, 2, 3, 4, 5, 6} = {} /\ 7 \in Steps(n)
      BY <1>1, <2>1, <3>7
    <3>8. CASE Steps(n) \cap {1, 2, 3, 4, 5, 6, 7} = {}
      BY <1>1, <1>3, <2>1, <3>8
    <3> QED
      BY <3>1, <3>2, <3>3, <3>4, <3>5, <3>6, <3>7, <3>8
  <2>3. m \in Steps(n) /\ m \in n .. 8
    BY <2>1, <2>2
  <2>4. ListFrom(n) = [Resting EXCEPT !.pc = "list", !.step = m]
    BY <1>3 DEF ListFrom
  <2>5. m \in 0 .. Last /\ m \in n .. Last
    BY <1>1, <2>3
  <2> HIDE DEF m
  <2>6. ListFrom(n) = [pc |-> "list", step |-> m, batch |-> {}, item |-> None, asked |-> 0]
    BY <2>4 DEF Resting
  <2> QED
    BY <2>5, <2>6 DEF Passage, Places
<1> QED
  BY <1>2, <1>3

--------------------------------------------------------------------------------
(* What every step of an actor keeps to *)

Moves(a, k) ==
    /\ at' \in [Actors -> Passage] /\ at'[a] = k
    /\ \A b \in Actors \ {a} : at'[b] = at[b]

LEMMA SetMoves ==
    ASSUME TypeInv, NEW a \in Actors, NEW k \in Passage, at' = [at EXCEPT ![a] = k]
    PROVE  Moves(a, k)
  BY DEF TypeInv, Moves

LEMMA GotoMoves ==
    ASSUME TypeInv, NEW a \in Actors, NEW p \in Places, Goto(a, p)
    PROVE  \E k \in Passage : /\ Moves(a, k) /\ k.pc = p /\ k.step = at[a].step /\ k.batch = at[a].batch
                              /\ k.item = at[a].item /\ k.asked = at[a].asked
<1> DEFINE k == [at[a] EXCEPT !.pc = p]
<1>1. /\ k \in Passage /\ k.pc = p /\ k.step = at[a].step /\ k.batch = at[a].batch
      /\ k.item = at[a].item /\ k.asked = at[a].asked
  BY DEF TypeInv, Passage
<1>2. at' = [at EXCEPT ![a] = k]
  BY DEF Goto
<1> HIDE DEF k
<1> QED
  BY <1>1, <1>2, SetMoves

\* An actor that is done with a kind, or is done, or begins.
Free(a, k) ==
    /\ k.batch = {}
    /\ k.pc = "rest" \/ (k.pc = "list" /\ k.step \in 1 .. Last /\ (a = Hook => k.step = Last))

LEMMA NextKindMoves ==
    ASSUME TypeInv, NEW a \in Actors, at[a].pc # "rest", NextKind(a)
    PROVE  \E k \in Passage : Moves(a, k) /\ Free(a, k)
<1>1. at[a].step \in 1 .. 8 /\ Last = 8 /\ (a = Hook => at[a].step = 8)
  BY PassIs DEF TypeInv, Sound
<1> DEFINE n == at[a].step + 1 k == ListFrom(n)
<1>2. n \in 1 .. 9 /\ n > 1 /\ (a = Hook => n = 9)
  BY <1>1
<1>3. at' = [at EXCEPT ![a] = k]
  BY DEF NextKind
<1>4. k \in Passage /\ k.batch = {} /\ (k.pc = "rest" \/ (k.pc = "list" /\ k.step \in n .. Last))
  <2> HIDE DEF n
  <2> QED
    BY <1>2, ListFromIs
<1> HIDE DEF n, k
<1>5. Free(a, k)
  BY <1>1, <1>2, <1>4 DEF Free
<1> QED
  BY <1>3, <1>4, <1>5, SetMoves

\* What the conjuncts of the type invariant say of one actor.
Fits(a) ==
    /\ Sound(a) /\ \A j \in at[a].batch : j.asked <= asked[j.item]
    /\ at[a].pc \in Busy => at[a].asked <= asked[at[a].item]

LEMMA TypeStep ==
    ASSUME TypeInv, NEW a \in Actors, NEW k, Moves(a, k), DataOK', UNCHANGED <<kind, asked>>,
           stored \subseteq stored', Fits(a)', FilesAreStored'
    PROVE  TypeInv'
<1>1. ASSUME NEW b \in Actors \ {a} PROVE Fits(b)'
  BY DEF TypeInv, Fits, Sound, Moves
<1>2. \A b \in Actors : Fits(b)'
  BY <1>1
<1> QED
  BY <1>2 DEF TypeInv, Moves, Fits

LEMMA FreeFits ==
    ASSUME NEW a \in Actors, NEW k, Moves(a, k), Free(a, k)
    PROVE  Fits(a)'
  BY PassIs DEF Fits, Sound, Free, Moves, Busy

--------------------------------------------------------------------------------
(* Types *)

LEMMA TypeInit == Init => TypeInv
<1> SUFFICES ASSUME Init PROVE TypeInv
  OBVIOUS
<1>1. Resting \in Passage /\ Resting.pc = "rest" /\ Resting.batch = {} /\ Resting.step = 0
  BY PassIs DEF Resting, Passage, Places
<1>2. \A a \in Actors : at[a] = Resting
  BY DEF Init
<1>3. at \in [Actors -> Passage]
  BY <1>1 DEF Init
<1>4. DataOK
  BY HydratorConstants DEF Init, DataOK
<1>5. FilesAreStored
  BY DEF Init, FilesAreStored
<1> QED
  BY <1>1, <1>2, <1>3, <1>4, <1>5 DEF TypeInv, Sound, Busy

LEMMA FaultsType ==
    ASSUME faults \in 0 .. MaxFaults, Works \/ Fails
    PROVE  faults' \in 0 .. MaxFaults /\ (faults' = 0 => faults = 0 /\ Works)
  BY HydratorConstants DEF Works, Fails

LEMMA TypeAsk ==
    ASSUME TypeInv, NEW i \in Items, Ask(i)
    PROVE  TypeInv'
<1>1. /\ asked' = [asked EXCEPT ![i] = @ + 1] /\ status' = [status EXCEPT ![i] = "pending"]
      /\ runs' = [runs EXCEPT ![i] = 0] /\ UNCHANGED <<env, kind, content, stored, armed, at, faults>>
  BY DEF Ask
<1>2. asked' \in [Items -> Nat] /\ asked'[i] = asked[i] + 1 /\ \A x \in Items : asked[x] <= asked'[x]
  BY <1>1 DEF TypeInv, DataOK
<1>3. DataOK'
  BY <1>1, <1>2 DEF TypeInv, DataOK
<1>4. ASSUME NEW a \in Actors
      PROVE  /\ Sound(a)' /\ \A j \in at[a].batch : j.asked <= asked'[j.item]
             /\ at[a].pc \in Busy => at[a].asked <= asked'[at[a].item]
  <2>1. Sound(a) /\ at[a] \in Passage
    BY DEF TypeInv
  <2>2. ASSUME NEW j \in at[a].batch PROVE j.asked <= asked'[j.item]
    <3>1. j.item \in Items /\ j.asked \in Nat /\ j.asked <= asked[j.item]
      BY <2>1 DEF TypeInv, Passage, Entry
    <3>2. asked[j.item] \in Nat /\ asked'[j.item] \in Nat
      BY <1>2, <3>1 DEF TypeInv, DataOK
    <3> QED
      BY <1>2, <3>1, <3>2
  <2>3. ASSUME at[a].pc \in Busy PROVE at[a].asked <= asked'[at[a].item]
    <3>1. at[a].item \in Items /\ at[a].asked \in Nat /\ at[a].asked <= asked[at[a].item]
      BY <2>1, <2>3 DEF TypeInv, Passage, Sound
    <3>2. asked[at[a].item] \in Nat /\ asked'[at[a].item] \in Nat
      BY <1>2, <3>1 DEF TypeInv, DataOK
    <3> QED
      BY <1>2, <3>1, <3>2
  <2> QED
    BY <1>1, <2>1, <2>2, <2>3 DEF Sound
<1>5. FilesAreStored'
  BY <1>1 DEF TypeInv, DataOK, FilesAreStored
<1> QED
  BY <1>1, <1>3, <1>4, <1>5 DEF TypeInv

--------------------------------------------------------------------------------
(* What the steps of an actor do with its place *)

LEMMA FreeMoves ==
    ASSUME TypeInv, NEW a \in Actors, NEW n \in {1, Last}, at' = [at EXCEPT ![a] = ListFrom(n)],
           a = Hook => n = Last
    PROVE  \E k \in Passage : Moves(a, k) /\ Free(a, k)
<1> DEFINE k == ListFrom(n)
<1>1. k \in Passage /\ k.batch = {} /\ (k.pc = "rest" \/ (k.pc = "list" /\ k.step \in n .. Last))
  <2>1. n \in 1 .. 9
    BY PassIs
  <2> QED
    BY <2>1, ListFromIs
<1>2. at' = [at EXCEPT ![a] = k]
  OBVIOUS
<1> HIDE DEF k
<1>3. Free(a, k)
  BY <1>1, PassIs DEF Free
<1> QED
  BY <1>1, <1>2, <1>3, SetMoves

\* The start of a pass, of the hook's and the end of one.
Passes(a) ==
    \/ StartPass(a) /\ a \in Sweeps
    \/ RunCertsNow /\ a = Hook
    \/ Crash(a)

LEMMA PassMoves ==
    ASSUME TypeInv, NEW a \in Actors, Passes(a)
    PROVE  \E k \in Passage : Moves(a, k) /\ Free(a, k)
<1>1. CASE StartPass(a) /\ a \in Sweeps
  BY <1>1, FreeMoves, HydratorConstants DEF StartPass
<1>2. CASE RunCertsNow /\ a = Hook
  BY <1>2, FreeMoves DEF RunCertsNow
<1>3. CASE Crash(a)
  <2>1. Resting \in Passage /\ Free(a, Resting)
    BY PassIs DEF Resting, Passage, Places, Free
  <2> QED
    BY <1>3, <2>1, SetMoves DEF Crash
<1> QED
  BY <1>1, <1>2, <1>3 DEF Passes

LEMMA ListMoves ==
    ASSUME TypeInv, NEW a \in Actors, List(a)
    PROVE  \E k \in Passage :
             /\ Moves(a, k)
             /\ \/ Free(a, k)
                \/ /\ k.pc = "take" /\ k.step = at[a].step
                   /\ k.batch \subseteq Pending(Pass[at[a].step])
<1>1. CASE NextKind(a)
  BY <1>1, NextKindMoves DEF List
<1>2. ASSUME NEW B \in Batches(Pending(Pass[at[a].step])),
             at' = [at EXCEPT ![a].pc = "take", ![a].batch = B]
      PROVE  \E k \in Passage : /\ Moves(a, k) /\ k.pc = "take" /\ k.step = at[a].step
                                /\ k.batch \subseteq Pending(Pass[at[a].step])
  <2> DEFINE k == [at[a] EXCEPT !.pc = "take", !.batch = B]
  <2>1. B \subseteq Pending(Pass[at[a].step])
    BY DEF Batches
  <2>2. B \subseteq Entry
    BY <2>1 DEF Pending, Read, Entry, TypeInv, DataOK
  <2>3. at[a] \in Passage
    BY DEF TypeInv
  <2>4. k \in Passage /\ k.pc = "take" /\ k.step = at[a].step /\ k.batch = B
    BY <2>2, <2>3 DEF Passage, Places
  <2>5. at' = [at EXCEPT ![a] = k]
    BY <1>2
  <2> HIDE DEF k
  <2> QED
    BY <2>1, <2>4, <2>5, SetMoves
<1> QED
  BY <1>1, <1>2 DEF List

LEMMA TakeMoves ==
    ASSUME TypeInv, NEW a \in Actors, Take(a)
    PROVE  \E k \in Passage :
             /\ Moves(a, k)
             /\ \/ Free(a, k) /\ Works /\ UNCHANGED <<status, runs>>
                \/ \E j \in at[a].batch :
                     /\ k.pc = "generate" /\ k.step = at[a].step /\ k.item = j.item /\ k.asked = j.asked
                     /\ k.batch = at[a].batch \ {j}
                     /\ runs' = [runs EXCEPT ![j.item] = IF asked[j.item] = j.asked THEN @ + 1 ELSE @]
                     /\ \/ status' = [status EXCEPT ![j.item] = "processing"] /\ Works
                        \/ Fails /\ UNCHANGED status
<1>1. CASE NextKind(a) /\ Works /\ UNCHANGED <<status, runs>>
  BY <1>1, NextKindMoves DEF Take
<1>2. CASE ~(NextKind(a) /\ Works /\ UNCHANGED <<status, runs>>)
  <2>1. PICK j \in at[a].batch :
          /\ at' = [at EXCEPT ![a].pc = "generate", ![a].item = j.item, ![a].asked = j.asked,
                              ![a].batch = @ \ {j}]
          /\ runs' = [runs EXCEPT ![j.item] = IF asked[j.item] = j.asked THEN @ + 1 ELSE @]
          /\ \/ status' = [status EXCEPT ![j.item] = "processing"] /\ Works
             \/ Fails /\ UNCHANGED status
    BY <1>2 DEF Take
  <2> DEFINE k == [at[a] EXCEPT !.pc = "generate", !.item = j.item, !.asked = j.asked,
                                !.batch = at[a].batch \ {j}]
  <2>2. at[a] \in Passage /\ j.item \in Items /\ j.asked \in Nat
    BY DEF TypeInv, Passage, Entry
  <2>3. /\ k \in Passage /\ k.pc = "generate" /\ k.step = at[a].step /\ k.item = j.item
        /\ k.asked = j.asked /\ k.batch = at[a].batch \ {j}
    BY <2>2 DEF Passage, Places
  <2>4. at' = [at EXCEPT ![a] = k]
    BY <2>1
  <2> HIDE DEF k
  <2> QED
    BY <2>1, <2>3, <2>4, SetMoves
<1> QED
  BY <1>1, <1>2

\* An actor stays with its item.
Stays(a, k) ==
    /\ Moves(a, k)
    /\ k.step = at[a].step /\ k.batch = at[a].batch /\ k.item = at[a].item /\ k.asked = at[a].asked

LEMMA GenerateMoves ==
    ASSUME TypeInv, NEW a \in Actors, Generate(a)
    PROVE  \E k \in Passage :
             /\ Stays(a, k)
             /\ \/ k.pc = "fail"
                \/ k.pc = IF kind[at[a].item] \in Rendered THEN "store" ELSE "write"
<1>1. Goto(a, After(a, "generate")) \/ Goto(a, "fail")
  BY DEF Generate
<1>2. After(a, "generate") = IF kind[at[a].item] \in Rendered THEN "store" ELSE "write"
  BY AfterIs DEF Generate
<1>3. After(a, "generate") \in Places /\ "fail" \in Places
  BY <1>2 DEF Places
<1> QED
  BY <1>1, <1>2, <1>3, GotoMoves DEF Stays

LEMMA StoreMoves ==
    ASSUME TypeInv, NEW a \in Actors, Store(a)
    PROVE  \E k \in Passage :
             /\ Stays(a, k)
             /\ \/ k.pc = "fail" /\ UNCHANGED stored
                \/ k.pc = "write" /\ stored' = stored \cup {at[a].item}
<1>1. \/ Goto(a, "fail") /\ UNCHANGED stored
      \/ Goto(a, "write") /\ stored' = stored \cup {at[a].item}
  BY DEF Store, Mine
<1>2. "write" \in Places /\ "fail" \in Places
  BY DEF Places
<1> QED
  BY <1>1, <1>2, GotoMoves DEF Stays

Writes(a) == WriteCompleted(a) \/ WriteFailed(a)

LEMMA WriteMoves ==
    ASSUME TypeInv, NEW a \in Actors, Writes(a)
    PROVE  \E k \in Passage : Stays(a, k) /\ k.pc = "take"
<1>1. Goto(a, "take") /\ "take" \in Places
  BY DEF Writes, WriteCompleted, WriteFailed, Places
<1> QED
  BY <1>1, GotoMoves DEF Stays

--------------------------------------------------------------------------------

LEMMA TypePasses ==
    ASSUME TypeInv, NEW a \in Actors, Passes(a)
    PROVE  TypeInv'
<1>1. PICK k \in Passage : Moves(a, k) /\ Free(a, k)
  BY PassMoves
<1>2. UNCHANGED <<env, kind, status, asked, content, runs, stored>> /\ armed' \in BOOLEAN /\ (Works \/ Fails)
  BY DEF Passes, StartPass, RunCertsNow, Crash, TypeInv, DataOK, Works
<1>3. DataOK' /\ FilesAreStored'
  BY <1>2, FaultsType DEF TypeInv, DataOK, FilesAreStored
<1> QED
  BY <1>1, <1>2, <1>3, FreeFits, TypeStep

LEMMA TypeList ==
    ASSUME TypeInv, NEW a \in Actors, List(a)
    PROVE  TypeInv'
<1>1. UNCHANGED <<env, kind, status, asked, content, runs, stored, armed, faults>> /\ at[a].pc = "list"
  BY DEF List
<1>2. DataOK' /\ FilesAreStored'
  BY <1>1 DEF TypeInv, DataOK, FilesAreStored
<1>3. ASSUME NEW k \in Passage, Moves(a, k), k.pc = "take", k.step = at[a].step,
             k.batch \subseteq Pending(Pass[at[a].step])
      PROVE  Fits(a)'
  <2>1. Sound(a) /\ \A j \in k.batch : j.item \in Items /\ kind[j.item] = Pass[k.step] /\ j.asked = asked[j.item]
    BY <1>3 DEF TypeInv, Pending, Read
  <2>2. at'[a] = k /\ UNCHANGED <<kind, asked>>
    BY <1>1, <1>3 DEF Moves
  <2>3. \A j \in k.batch : j.asked <= asked[j.item]
    BY <2>1 DEF TypeInv, DataOK
  <2> QED
    BY <1>1, <1>3, <2>1, <2>2, <2>3 DEF Fits, Sound, Busy
<1> QED
  BY <1>1, <1>2, <1>3, ListMoves, FreeFits, TypeStep

LEMMA TypeTake ==
    ASSUME TypeInv, NEW a \in Actors, Take(a)
    PROVE  TypeInv'
<1>1. UNCHANGED <<env, kind, asked, content, stored, armed>> /\ at[a].pc = "take"
  BY DEF Take
<1>2. CASE \E k \in Passage : Moves(a, k) /\ Free(a, k) /\ Works /\ UNCHANGED <<status, runs>>
  <2>1. DataOK' /\ FilesAreStored'
    BY <1>1, <1>2 DEF TypeInv, DataOK, FilesAreStored, Works
  <2> QED
    BY <1>1, <1>2, <2>1, FreeFits, TypeStep
<1>3. ASSUME NEW k \in Passage, NEW j \in at[a].batch, Moves(a, k),
             k.pc = "generate", k.step = at[a].step, k.item = j.item, k.asked = j.asked,
             k.batch = at[a].batch \ {j},
             runs' = [runs EXCEPT ![j.item] = IF asked[j.item] = j.asked THEN @ + 1 ELSE @],
             \/ status' = [status EXCEPT ![j.item] = "processing"] /\ Works
             \/ Fails /\ UNCHANGED status
      PROVE  TypeInv'
  <2>1. /\ Sound(a) /\ j.item \in Items /\ kind[j.item] = Pass[at[a].step] /\ j.asked <= asked[j.item]
        /\ \A e \in at[a].batch : e.asked <= asked[e.item]
    BY <1>3 DEF TypeInv, Passage, Entry, Sound
  <2>2. at'[a] = k /\ UNCHANGED <<kind, asked>>
    BY <1>1, <1>3 DEF Moves
  <2>3. Fits(a)'
    BY <1>1, <1>3, <2>1, <2>2 DEF Fits, Sound, Busy
  <2>4. runs' \in [Items -> Nat]
    BY <1>3, <2>1 DEF TypeInv, DataOK
  <2>5. faults' \in 0 .. MaxFaults
    BY <1>3, FaultsType DEF TypeInv, DataOK
  <2>6. status' \in [Items -> {"none", "pending", "processing", "completed", "failed"}]
    BY <1>3 DEF TypeInv, DataOK
  <2>7. DataOK'
    BY <1>1, <2>4, <2>5, <2>6 DEF TypeInv, DataOK
  <2>8. FilesAreStored'
    BY <1>1, <1>3, <2>1 DEF TypeInv, DataOK, FilesAreStored
  <2> QED
    BY <1>1, <1>3, <2>3, <2>7, <2>8, TypeStep
<1> QED
  BY <1>2, <1>3, TakeMoves

LEMMA TypeGenerate ==
    ASSUME TypeInv, NEW a \in Actors, Generate(a)
    PROVE  TypeInv'
<1>1. UNCHANGED <<env, kind, status, asked, content, runs, stored, armed, faults>> /\ at[a].pc = "generate"
  BY DEF Generate
<1>2. PICK k \in Passage :
        /\ Stays(a, k)
        /\ \/ k.pc = "fail"
           \/ k.pc = IF kind[at[a].item] \in Rendered THEN "store" ELSE "write"
  BY GenerateMoves
<1>3. DataOK' /\ FilesAreStored'
  BY <1>1 DEF TypeInv, DataOK, FilesAreStored
<1>4. Fits(a)'
  BY <1>1, <1>2 DEF TypeInv, Fits, Sound, Stays, Moves, Busy
<1> QED
  BY <1>1, <1>2, <1>3, <1>4, TypeStep DEF Stays

LEMMA TypeStore ==
    ASSUME TypeInv, NEW a \in Actors, Store(a)
    PROVE  TypeInv'
<1>1. UNCHANGED <<env, kind, status, asked, content, runs, armed, faults>> /\ at[a].pc = "store"
  BY DEF Store
<1>2. PICK k \in Passage :
        /\ Stays(a, k)
        /\ \/ k.pc = "fail" /\ UNCHANGED stored
           \/ k.pc = "write" /\ stored' = stored \cup {at[a].item}
  BY StoreMoves
<1>3. at[a].item \in Items /\ kind[at[a].item] \in Rendered
  BY <1>1 DEF TypeInv, Sound, Busy
<1>4. DataOK' /\ FilesAreStored' /\ stored \subseteq stored'
  BY <1>1, <1>2, <1>3 DEF TypeInv, DataOK, FilesAreStored
<1>5. Fits(a)'
  BY <1>1, <1>2 DEF TypeInv, Fits, Sound, Stays, Moves, Busy
<1> QED
  BY <1>1, <1>2, <1>4, <1>5, TypeStep DEF Stays

LEMMA TypeWrites ==
    ASSUME TypeInv, NEW a \in Actors, Writes(a)
    PROVE  TypeInv'
<1>1. /\ UNCHANGED <<env, kind, asked, runs, stored, armed>> /\ at[a].pc \in {"write", "fail"}
      /\ Works \/ Fails
  BY DEF Writes, WriteCompleted, WriteFailed
<1>2. PICK k \in Passage : Stays(a, k) /\ k.pc = "take"
  BY WriteMoves
<1>3. /\ at[a].item \in Items /\ at[a].asked \in Nat /\ at[a].asked <= asked[at[a].item]
      /\ at[a].pc = "write" /\ kind[at[a].item] \in Rendered => at[a].item \in stored
  BY <1>1 DEF TypeInv, Sound, Busy, Passage
<1>4. faults' \in 0 .. MaxFaults
  BY <1>1, FaultsType DEF TypeInv, DataOK
<1>5. status' \in [Items -> {"none", "pending", "processing", "completed", "failed"}]
  BY DEF TypeInv, DataOK, Writes, WriteCompleted, WriteFailed
<1>6. content' \in [Items -> Nat] /\ \A i \in Items : content'[i] \in 0 .. asked[i]
  <2>1. CASE UNCHANGED content
    BY <2>1 DEF TypeInv, DataOK
  <2>2. CASE content' = [content EXCEPT ![at[a].item] = at[a].asked]
    BY <1>3, <2>2 DEF TypeInv, DataOK
  <2>3. CASE content' = [content EXCEPT ![at[a].item] = 0]
    BY <1>3, <2>3 DEF TypeInv, DataOK
  <2> QED
    BY <2>1, <2>2, <2>3 DEF Writes, WriteCompleted, WriteFailed, Mine
<1>7. DataOK'
  BY <1>1, <1>4, <1>5, <1>6 DEF TypeInv, DataOK
<1>8. FilesAreStored'
  BY <1>1, <1>3 DEF TypeInv, DataOK, FilesAreStored, Rendered, Writes, WriteCompleted, WriteFailed, Mine
<1>9. Fits(a)'
  BY <1>1, <1>2 DEF TypeInv, Fits, Sound, Stays, Moves, Busy
<1> QED
  BY <1>1, <1>2, <1>7, <1>8, <1>9, TypeStep DEF Stays

\* What the system does, for the proofs of the steps.
LEMMA NextSteps ==
    ASSUME Next
    PROVE  \/ \E i \in Items : Ask(i)
           \/ \E a \in Actors : Passes(a) \/ List(a) \/ Take(a) \/ Generate(a) \/ Store(a) \/ Writes(a)
<1>1. ASSUME NEW a \in Sweeps, StartPass(a) PROVE a \in Actors /\ Passes(a)
  BY <1>1 DEF Passes, Actors
<1>2. ASSUME RunCertsNow PROVE Hook \in Actors /\ Passes(Hook)
  BY <1>2 DEF Passes, Actors
<1>3. ASSUME NEW a \in Actors, Proceed(a) \/ Crash(a)
      PROVE  Passes(a) \/ List(a) \/ Take(a) \/ Generate(a) \/ Store(a) \/ Writes(a)
  BY <1>3 DEF Passes, Proceed, Writes
<1> QED
  BY <1>1, <1>2, <1>3 DEF Next

LEMMA TypeNext ==
    ASSUME TypeInv, [Next]_vars
    PROVE  TypeInv'
<1>1. CASE UNCHANGED vars
  BY <1>1 DEF vars, TypeInv, DataOK, Sound, FilesAreStored
<1>2. CASE Next
  BY <1>2, NextSteps, TypeAsk, TypePasses, TypeList, TypeTake, TypeGenerate, TypeStore, TypeWrites
<1> QED
  BY <1>1, <1>2

LEMMA TypeInvariant == Spec => []TypeInv
  BY TypeInit, TypeNext, PTL DEF Spec

\* Every item, request, generation and pass has its type, a stored file is that
\* of an asset or a certificate, and an actor works on items of the kind its
\* step is about.
THEOREM HydratorTypes == Spec => []TypeOK
<1>1. TypeInv => TypeOK
  <2> SUFFICES ASSUME TypeInv PROVE TypeOK
    OBVIOUS
  <2>1. stored \subseteq {i \in Items : "store" \in {Processor[kind[i]].path[n] :
                                                       n \in DOMAIN Processor[kind[i]].path}}
    BY StoredKinds DEF TypeInv, DataOK
  <2>2. ASSUME NEW a \in Actors
        PROVE  /\ at[a].pc \in Places
               /\ at[a].batch \subseteq [item : Items, asked : Nat]
               /\ at[a].pc # "rest" => at[a].step \in DOMAIN Pass
               /\ at[a].pc \notin {"rest", "list", "take"} => kind[at[a].item] = Pass[at[a].step]
               /\ a = Hook /\ at[a].pc # "rest" => at[a].step = Last
    <3>1. at[a] \in Passage /\ Sound(a)
      BY DEF TypeInv
    <3>2. at[a].pc \in Places /\ at[a].batch \subseteq [item : Items, asked : Nat]
      BY <3>1 DEF Passage, Entry
    <3> QED
      BY <3>1, <3>2, PassIs DEF Sound, Busy, Places
  <2> QED
    BY <2>1, <2>2 DEF TypeOK, TypeInv, DataOK
<1> QED
  BY <1>1, TypeInvariant, PTL

--------------------------------------------------------------------------------
(* One sweep at a time *)

\* A step of a leaves the items of the others to them: where passes do not
\* overlap, another sweep is at rest, and the hook has other kinds.
LEMMA PromptStep ==
    ASSUME TypeInv, PromptInv, NEW a \in Actors, NEW k, Moves(a, k), UNCHANGED <<env, kind, asked>>,
           a \in Sweeps /\ env.prompt /\ k.pc # "rest" => Running(a) \/ \A s \in Sweeps : ~Running(s),
           \A i \in Items : status'[i] # status[i] => Running(a) /\ kind[i] = Pass[at[a].step],
           env.prompt /\ a \in Sweeps /\ k.step # Last => Holds(a)',
           env.prompt => \A i \in Items : status'[i] = "completed" /\ Plain(i) => content'[i] = asked[i]
    PROVE  PromptInv'
<1> SUFFICES ASSUME env.prompt PROVE PromptInv'
  BY DEF PromptInv
<1>1. Alone /\ \A b \in Sweeps : at[b].step # Last => Holds(b)
  BY DEF PromptInv
<1>2. Alone'
  BY <1>1 DEF Alone, Running, Moves, Actors
<1>3. ASSUME NEW b \in Sweeps, b # a, at'[b].step # Last PROVE Holds(b)'
  <2>1. b \in Actors /\ at'[b] = at[b] /\ Sound(b) /\ Holds(b) /\ at[b] \in Passage
    BY <1>1, <1>3 DEF Moves, Actors, TypeInv
  <2>2. CASE ~Running(b)
    BY <2>1, <2>2 DEF Running, Holds, Sound, Busy
  <2>3. CASE Running(b)
    <3>1. at[b].step \in 1 .. 7
      BY <1>3, <2>1, <2>3, PassIs DEF Sound, Running
    <3>2. \A i \in Items : kind[i] = Pass[at[b].step] => status'[i] = status[i]
      <4>1. CASE a \in Sweeps
        BY <1>1, <1>3, <2>3, <4>1 DEF Alone
      <4>2. CASE a = Hook
        <5>1. Running(a) => Pass[at[a].step] = "certificate"
          BY <4>2, PassIs DEF TypeInv, Sound, Running
        <5> QED
          BY <3>1, <5>1, PassIs
      <4> QED
        BY <4>1, <4>2 DEF Actors
    <3>3. \A j \in at[b].batch : j.item \in Items /\ kind[j.item] = Pass[at[b].step]
      BY <2>1 DEF Passage, Entry, Sound
    <3>4. at[b].pc \in Busy => at[b].item \in Items /\ kind[at[b].item] = Pass[at[b].step]
      BY <2>1 DEF Sound
    <3> QED
      BY <2>1, <3>2, <3>3, <3>4 DEF Holds
  <2> QED
    BY <2>2, <2>3
<1>4. \A b \in Sweeps : at'[b].step # Last => Holds(b)'
  BY <1>3 DEF Moves
<1> QED
  BY <1>2, <1>4 DEF PromptInv, Plain

\* An actor that has listed nothing holds nothing.
LEMMA FreeHolds ==
    ASSUME NEW a \in Actors, NEW k, Moves(a, k), Free(a, k)
    PROVE  Holds(a)'
  BY DEF Holds, Free, Moves, Busy

LEMMA PromptInit == Init => PromptInv
<1> SUFFICES ASSUME Init PROVE PromptInv
  OBVIOUS
<1>1. \A a \in Sweeps : at[a].pc = "rest" /\ at[a].batch = {}
  BY DEF Init, Actors, Resting
<1>2. \A i \in Items : status[i] = "none"
  BY DEF Init
<1>3. Alone /\ \A a \in Sweeps : Holds(a)
  BY <1>1 DEF Alone, Running, Holds, Busy
<1> QED
  BY <1>2, <1>3 DEF PromptInv

LEMMA PromptAsk ==
    ASSUME TypeInv, PromptInv, NEW i \in Items, Ask(i)
    PROVE  PromptInv'
<1> SUFFICES ASSUME env.prompt PROVE PromptInv'
  BY DEF PromptInv, Ask
<1>1. /\ asked' = [asked EXCEPT ![i] = @ + 1] /\ status' = [status EXCEPT ![i] = "pending"]
      /\ UNCHANGED <<env, kind, content, at>> /\ status[i] \in {"none", "completed", "failed"}
  BY DEF Ask
<1>2. \A x \in Items \ {i} : asked'[x] = asked[x] /\ status'[x] = status[x]
  BY <1>1 DEF TypeInv, DataOK
<1>3. ASSUME NEW a \in Sweeps, at[a].step # Last PROVE Holds(a)'
  <2>1. Holds(a) /\ Sound(a) /\ at[a] \in Passage
    BY <1>3 DEF PromptInv, TypeInv, Actors
  <2>2. \A j \in at[a].batch : j.item \in Items \ {i}
    BY <1>1, <2>1 DEF Holds, Passage, Entry
  <2>3. at[a].pc \in Busy => at[a].item \in Items \ {i}
    BY <1>1, <2>1 DEF Holds, Sound
  <2> QED
    BY <1>1, <1>2, <2>1, <2>2, <2>3 DEF Holds
<1>4. Alone'
  BY <1>1 DEF PromptInv, Alone, Running
<1>5. \A x \in Items : status'[x] = "completed" /\ Plain(x)' => content'[x] = asked'[x]
  BY <1>1, <1>2 DEF PromptInv, Plain, TypeInv, DataOK
<1> QED
  BY <1>1, <1>3, <1>4, <1>5 DEF PromptInv

LEMMA PromptPasses ==
    ASSUME TypeInv, PromptInv, NEW a \in Actors, Passes(a)
    PROVE  PromptInv'
<1>1. PICK k \in Passage : Moves(a, k) /\ Free(a, k)
  BY PassMoves
<1>2. UNCHANGED <<env, kind, status, asked, content>>
  BY DEF Passes, StartPass, RunCertsNow, Crash
<1>3. a \in Sweeps /\ env.prompt /\ k.pc # "rest" => Running(a) \/ \A s \in Sweeps : ~Running(s)
  BY <1>1, HydratorConstants DEF Passes, StartPass, Crash
<1> QED
  BY <1>1, <1>2, <1>3, FreeHolds, PromptStep DEF PromptInv

LEMMA PromptList ==
    ASSUME TypeInv, PromptInv, NEW a \in Actors, List(a)
    PROVE  PromptInv'
<1>1. UNCHANGED <<env, kind, status, asked, content>> /\ at[a].pc = "list" /\ Running(a)
  BY DEF List, Running
<1>2. ASSUME NEW k \in Passage, Moves(a, k), k.pc = "take", k.step = at[a].step,
             k.batch \subseteq Pending(Pass[at[a].step])
      PROVE  Holds(a)'
  <2>1. \A j \in k.batch : status[j.item] = "pending" /\ asked[j.item] = j.asked
    BY <1>2 DEF Pending, Read
  <2> QED
    BY <1>1, <1>2, <2>1 DEF Holds, Moves, Busy
<1> QED
  BY <1>1, <1>2, ListMoves, FreeHolds, PromptStep DEF PromptInv

LEMMA PromptTake ==
    ASSUME TypeInv, PromptInv, NEW a \in Actors, Take(a)
    PROVE  PromptInv'
<1>1. UNCHANGED <<env, kind, asked, content>> /\ at[a].pc = "take" /\ Running(a)
  BY DEF Take, Running
<1>2. ASSUME NEW k \in Passage, Moves(a, k), Free(a, k), UNCHANGED status
      PROVE  PromptInv'
  BY <1>1, <1>2, FreeHolds, PromptStep DEF PromptInv
<1>3. ASSUME NEW k \in Passage, NEW j \in at[a].batch, Moves(a, k),
             k.pc = "generate", k.step = at[a].step, k.item = j.item, k.asked = j.asked,
             k.batch = at[a].batch \ {j},
             status' = [status EXCEPT ![j.item] = "processing"] \/ UNCHANGED status
      PROVE  PromptInv'
  <2>1. /\ at[a].batch \subseteq Entry /\ j.item \in Items /\ kind[j.item] = Pass[at[a].step]
    BY DEF TypeInv, Passage, Entry, Sound
  <2>2. /\ status'[j.item] \in {status[j.item], "processing"}
        /\ \A i \in Items \ {j.item} : status'[i] = status[i]
    BY <1>3, <2>1 DEF TypeInv, DataOK
  <2>3. ASSUME env.prompt, a \in Sweeps, k.step # Last PROVE Holds(a)'
    <3>1. Holds(a)
      BY <1>3, <2>3 DEF PromptInv
    <3>2. \A e \in k.batch : e.item # j.item
      <4> SUFFICES ASSUME NEW e \in at[a].batch, e # j PROVE e.item # j.item
        BY <1>3
      <4>1. e \in Entry /\ j \in Entry /\ asked[e.item] = e.asked /\ asked[j.item] = j.asked
        BY <2>1, <3>1 DEF Holds
      <4> QED
        BY <4>1 DEF Entry
    <3>3. \A e \in k.batch : e.item \in Items \ {j.item} /\ status[e.item] = "pending" /\ asked[e.item] = e.asked
      BY <1>3, <2>1, <3>1, <3>2 DEF Holds, Entry
    <3>4. status[j.item] = "pending" /\ asked[j.item] = j.asked
      BY <3>1 DEF Holds
    <3>5. at'[a] = k
      BY <1>3 DEF Moves
    <3> QED
      BY <1>1, <1>3, <2>2, <3>3, <3>4, <3>5 DEF Holds
  <2>4. \A i \in Items : status'[i] # status[i] => kind[i] = Pass[at[a].step]
    BY <2>1, <2>2
  <2>5. env.prompt => \A i \in Items : status'[i] = "completed" /\ Plain(i) => content'[i] = asked[i]
    BY <1>1, <2>2 DEF PromptInv
  <2> QED
    BY <1>1, <1>3, <2>3, <2>4, <2>5, PromptStep
<1> QED
  BY <1>2, <1>3, TakeMoves

LEMMA PromptWorks ==
    ASSUME TypeInv, PromptInv, NEW a \in Actors, Generate(a) \/ Store(a)
    PROVE  PromptInv'
<1>1. UNCHANGED <<env, kind, status, asked, content>> /\ at[a].pc \in Busy /\ Running(a)
  BY DEF Generate, Store, Running, Busy
<1>2. PICK k \in Passage : Stays(a, k) /\ k.pc \in Busy
  BY GenerateMoves, StoreMoves DEF Busy
<1>3. k.step # Last /\ a \in Sweeps /\ env.prompt => Holds(a)'
  BY <1>1, <1>2 DEF PromptInv, Holds, Stays, Moves
<1> QED
  BY <1>1, <1>2, <1>3, PromptStep DEF PromptInv, Stays

\* The last write is the answer to the request the item still has.
LEMMA PromptWrites ==
    ASSUME TypeInv, PromptInv, NEW a \in Actors, Writes(a)
    PROVE  PromptInv'
<1> DEFINE m == at[a].item
<1>1. /\ UNCHANGED <<env, kind, asked>> /\ at[a].pc \in Busy /\ Running(a)
      /\ m \in Items /\ kind[m] = Pass[at[a].step] /\ at[a].step \in 1 .. Last
      /\ a = Hook => at[a].step = Last
  BY DEF Writes, WriteCompleted, WriteFailed, Running, Busy, TypeInv, Sound
<1>2. PICK k \in Passage : Stays(a, k) /\ k.pc = "take"
  BY WriteMoves
<1>3. /\ \A i \in Items \ {m} : status'[i] = status[i] /\ content'[i] = content[i]
      /\ \/ status'[m] = status[m] /\ content'[m] = content[m]
         \/ status'[m] = "completed" /\ content'[m] = at[a].asked
         \/ status'[m] = "failed"
  BY <1>1 DEF Writes, WriteCompleted, WriteFailed, Mine, TypeInv, DataOK
<1>4. ASSUME env.prompt, a \in Sweeps, k.step # Last PROVE Holds(a)'
  <2>1. Holds(a)
    BY <1>2, <1>4 DEF PromptInv, Stays
  <2>2. \A j \in at[a].batch : j.item \in Items \ {m}
    BY <1>1, <2>1 DEF Holds, TypeInv, Passage, Entry
  <2> HIDE DEF m
  <2> QED
    BY <1>1, <1>2, <1>3, <2>1, <2>2 DEF Holds, Stays, Moves, Busy
<1>5. ASSUME env.prompt, NEW i \in Items, status'[i] = "completed", Plain(i)
      PROVE  content'[i] = asked[i]
  <2>1. CASE status'[i] = status[i] /\ content'[i] = content[i]
    BY <1>5, <2>1 DEF PromptInv
  <2>2. CASE i = m /\ content'[i] = at[a].asked
    <3>1. at[a].step # Last
      BY <1>1, <1>5, <2>2, PassIs DEF Plain
    <3>2. a \in Sweeps
      BY <1>1, <3>1 DEF Actors
    <3>3. asked[m] = at[a].asked
      BY <1>1, <1>5, <3>1, <3>2 DEF PromptInv, Holds
    <3> QED
      BY <2>2, <3>3
  <2> QED
    BY <1>3, <1>5, <2>1, <2>2
<1>6. \A i \in Items : status'[i] # status[i] => kind[i] = Pass[at[a].step]
  BY <1>1, <1>3
<1> HIDE DEF m
<1>7. Moves(a, k)
  BY <1>2 DEF Stays
<1> QED
  BY <1>1, <1>4, <1>5, <1>6, <1>7, PromptStep

LEMMA PromptNext ==
    ASSUME TypeInv, PromptInv, [Next]_vars
    PROVE  PromptInv'
<1>1. CASE UNCHANGED vars
  BY <1>1 DEF vars, PromptInv, Alone, Running, Holds, Plain
<1>2. CASE Next
  BY <1>2, NextSteps, PromptAsk, PromptPasses, PromptList, PromptTake, PromptWorks, PromptWrites
<1> QED
  BY <1>1, <1>2

LEMMA PromptInvariant == Spec => []PromptInv
<1>1. TypeInv /\ PromptInv /\ [Next]_vars => PromptInv'
  BY PromptNext
<1> QED
  BY <1>1, PromptInit, TypeInvariant, PTL DEF Spec

\* An asset or a certificate shown as completed has its file in the store, and
\* while passes do not overlap, what is shown as completed answers the latest
\* request: whoever asks anew, whatever fails and whoever crashes.
THEOREM CompletedStaysTrue == Spec => []CompletedIsTrue
<1>1. TypeInv /\ PromptInv => CompletedIsTrue
  BY DEF TypeInv, PromptInv, Plain, CompletedIsTrue, AnswersLatestRequest
<1> QED
  BY <1>1, TypeInvariant, PromptInvariant, PTL

--------------------------------------------------------------------------------
(* One generation per request *)

LEMMA OnceNext ==
    ASSUME TypeInv, PromptInv, OnceInv, [Next]_vars
    PROVE  OnceInv'
<1> SUFFICES ASSUME env'.prompt, faults' = 0, NEW i \in Items, Plain(i)'
             PROVE  runs'[i] <= 1 /\ (status'[i] = "pending" => runs'[i] = 0)
  BY DEF OnceInv
<1>1. CASE UNCHANGED vars
  BY <1>1 DEF vars, OnceInv, Plain
<1>2. ASSUME NEW x \in Items, Ask(x) PROVE runs'[i] <= 1 /\ (status'[i] = "pending" => runs'[i] = 0)
  BY <1>2 DEF Ask, OnceInv, Plain, TypeInv, DataOK
<1>3. ASSUME NEW a \in Actors, Passes(a) \/ List(a) \/ Generate(a) \/ Store(a)
      PROVE  runs'[i] <= 1 /\ (status'[i] = "pending" => runs'[i] = 0)
  <2>1. UNCHANGED <<env, kind, status, runs>> /\ faults = 0
    BY <1>3, FaultsType DEF Passes, StartPass, RunCertsNow, Crash, List, Generate, Store, TypeInv, DataOK
  <2> QED
    BY <2>1 DEF OnceInv, Plain
<1>4. ASSUME NEW a \in Actors, Take(a)
      PROVE  runs'[i] <= 1 /\ (status'[i] = "pending" => runs'[i] = 0)
  <2>1. UNCHANGED <<env, kind>> /\ at[a].pc = "take" /\ faults = 0 /\ Works
    BY <1>4, FaultsType DEF Take, TypeInv, DataOK
  <2>2. runs[i] <= 1 /\ (status[i] = "pending" => runs[i] = 0) /\ runs \in [Items -> Nat]
    BY <2>1 DEF OnceInv, Plain, TypeInv, DataOK
  <2>3. ~Fails
    BY <2>1 DEF Works, Fails
  <2>4. ASSUME NEW j \in at[a].batch, status' = [status EXCEPT ![j.item] = "processing"],
               runs' = [runs EXCEPT ![j.item] = IF asked[j.item] = j.asked THEN @ + 1 ELSE @]
        PROVE  runs'[i] <= 1 /\ (status'[i] = "pending" => runs'[i] = 0)
    <3>1. j.item \in Items /\ Sound(a) /\ kind[j.item] = Pass[at[a].step]
      BY DEF TypeInv, Passage, Entry, Sound
    <3>2. CASE i # j.item
      BY <2>2, <2>4, <3>1, <3>2 DEF TypeInv, DataOK
    <3>3. CASE i = j.item
      <4>1. at[a].step # Last
        BY <2>1, <3>1, <3>3, PassIs DEF Plain
      <4>2. a \in Sweeps
        BY <2>1, <3>1, <4>1 DEF Actors, Sound
      <4>3. status[i] = "pending"
        BY <2>1, <3>3, <4>1, <4>2 DEF PromptInv, Holds
      <4> QED
        BY <2>2, <2>4, <3>3, <4>3 DEF TypeInv, DataOK
    <3> QED
      BY <3>2, <3>3
  <2> QED
    BY <1>4, <2>2, <2>3, <2>4, TakeMoves
<1>5. ASSUME NEW a \in Actors, Writes(a)
      PROVE  runs'[i] <= 1 /\ (status'[i] = "pending" => runs'[i] = 0)
  <2>1. UNCHANGED <<env, kind, runs>> /\ faults = 0
    BY <1>5, FaultsType DEF Writes, WriteCompleted, WriteFailed, TypeInv, DataOK
  <2>2. status'[i] = "pending" => status[i] = "pending"
    BY <1>5 DEF Writes, WriteCompleted, WriteFailed, TypeInv, DataOK
  <2> QED
    BY <2>1, <2>2 DEF OnceInv, Plain
<1> QED
  BY <1>1, <1>2, <1>3, <1>4, <1>5, NextSteps

\* While passes do not overlap and nothing fails, the content of a request is
\* generated once (hydrator.go:56), certificates apart.
THEOREM GeneratesOnce == Spec => []OneGenerationPerRequest
<1>1. Init => OnceInv
  BY DEF Init, OnceInv
<1>2. TypeInv /\ PromptInv /\ OnceInv /\ [Next]_vars => OnceInv'
  BY OnceNext
<1>3. OnceInv => OneGenerationPerRequest
  BY DEF OnceInv, OneGenerationPerRequest, Plain
<1> QED
  BY <1>1, <1>2, <1>3, TypeInvariant, PromptInvariant, PTL DEF Spec

--------------------------------------------------------------------------------
(* Nothing is abandoned *)

LEMMA AbandonsNothing ==
    ASSUME TypeInv, NothingIsAbandoned, [Next]_vars
    PROVE  NothingIsAbandoned'
<1> DEFINE At(i) == \E a \in Actors : at[a].pc \in Busy /\ at[a].item = i
<1> SUFFICES ASSUME faults' = 0, NEW i \in Items, status'[i] = "processing"
             PROVE  \E a \in Actors : at'[a].pc \in Busy /\ at'[a].item = i
  BY DEF NothingIsAbandoned, Busy, Mine
<1>1. faults = 0 => (status[i] = "processing" => At(i))
  BY DEF NothingIsAbandoned, Busy, Mine
<1>2. CASE UNCHANGED vars
  BY <1>1, <1>2 DEF vars
<1>3. ASSUME NEW x \in Items, Ask(x) PROVE At(i)'
  BY <1>1, <1>3 DEF Ask, TypeInv, DataOK
<1>4. ASSUME NEW a \in Actors, Passes(a) \/ List(a) PROVE At(i)'
  <2>1. UNCHANGED status /\ faults = 0 /\ at[a].pc \notin Busy
    BY <1>4, FaultsType
       DEF Passes, StartPass, RunCertsNow, Crash, Fails, List, Running, Busy, TypeInv, DataOK, Works
  <2>2. \A b \in Actors \ {a} : at'[b] = at[b]
    BY <1>4, PassMoves, ListMoves DEF Moves
  <2>3. PICK b \in Actors : at[b].pc \in Busy /\ at[b].item = i
    BY <1>1, <2>1
  <2> QED
    BY <2>1, <2>2, <2>3
<1>5. ASSUME NEW a \in Actors, Take(a) PROVE At(i)'
  <2>1. faults = 0 /\ Works
    BY <1>5, FaultsType DEF Take, TypeInv, DataOK
  <2>2. at[a].pc = "take" /\ at[a].pc \notin Busy
    BY <1>5 DEF Take, Busy
  <2>3. ~Fails
    BY <2>1 DEF Works, Fails
  <2>4. \A b \in Actors \ {a} : at'[b] = at[b]
    BY <1>5, TakeMoves DEF Moves
  <2>5. CASE status'[i] = status[i]
    BY <1>1, <2>1, <2>2, <2>4, <2>5
  <2>6. ASSUME NEW j \in at[a].batch, NEW k \in Passage, Moves(a, k), k.pc = "generate", k.item = j.item,
               status' = [status EXCEPT ![j.item] = "processing"]
        PROVE  At(i)'
    <3>1. CASE i = j.item
      BY <2>6, <3>1 DEF Moves, Busy
    <3>2. CASE i # j.item
      BY <2>5, <2>6, <3>2 DEF TypeInv, DataOK
    <3> QED
      BY <3>1, <3>2
  <2> QED
    BY <1>5, <2>5, <2>6, <2>3, TakeMoves
<1>6. ASSUME NEW a \in Actors, Generate(a) \/ Store(a) PROVE At(i)'
  <2>1. UNCHANGED <<status, faults>>
    BY <1>6 DEF Generate, Store
  <2>2. PICK k \in Passage : Stays(a, k) /\ k.pc \in Busy
    BY <1>6, GenerateMoves, StoreMoves DEF Busy
  <2> QED
    BY <1>1, <2>1, <2>2 DEF Stays, Moves
<1>7. ASSUME NEW a \in Actors, Writes(a) PROVE At(i)'
  <2>1. faults = 0 /\ Works /\ ~Fails
    BY <1>7, FaultsType DEF Writes, WriteCompleted, WriteFailed, TypeInv, DataOK, Works, Fails
  <2>2. i # at[a].item /\ status[i] = "processing"
    BY <1>7, <2>1 DEF Writes, WriteCompleted, WriteFailed, Mine, TypeInv, DataOK
  <2>3. \A b \in Actors \ {a} : at'[b] = at[b]
    BY <1>7, WriteMoves DEF Stays, Moves
  <2> QED
    BY <1>1, <2>1, <2>2, <2>3
<1> QED
  BY <1>2, <1>3, <1>4, <1>5, <1>6, <1>7, NextSteps

\* Without faults, whatever is shown as being worked on is being worked on.
THEOREM NothingIsLeft == Spec => []NothingIsAbandoned
<1>1. Init => NothingIsAbandoned
  BY DEF Init, NothingIsAbandoned
<1>2. TypeInv /\ NothingIsAbandoned /\ [Next]_vars => NothingIsAbandoned'
  BY AbandonsNothing
<1> QED
  BY <1>1, <1>2, TypeInvariant, PTL DEF Spec
================================================================================
