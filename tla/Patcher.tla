-------------------------------- MODULE Patcher --------------------------------
(***************************************************************************)
(* AwesomeWotlkPatch: reads the client's executable, marks it large        *)
(* address aware, puts the patches in and writes it back over itself; then *)
(* it copies the library beside it.  The file may be another client's, the *)
(* disk may be full, the process may be killed, and the tool may be run    *)
(* again on what it left.  An executable is as many pieces as are there of *)
(* it: piece 1 holds the headers, a patch p lies in piece Place[p].        *)
(***************************************************************************)
EXTENDS Naturals, Sequences

CONSTANTS Names,   \* how many possibleNames there are, the preferred one first
          Place    \* the piece of each of s_patches, in their order

Patches == 1..Len(Place)
Full == 1 + Len(Place)

VARIABLES exe,    \* per name [size, laa, done, lacks, gone]: pieces there, marked,
                  \* patches in it, patches whose address none of its sections has,
                  \* no such file
          dll,    \* AwesomeWotlkLib.dll lies in [game |-> , app |-> ] folder
          at,     \* what the run does next: "idle", "apply", "write", "copy"
          path,   \* exePath, 0 when there is none
          image,  \* the executable in memory
          result  \* of the last run: "none", "applied", "noLib", "error"
vars == <<exe, dll, at, path, image, result>>

None == [size |-> 0, laa |-> FALSE, done |-> {}, lacks |-> {}, gone |-> TRUE]
Client(lacks) == [size |-> Full, laa |-> FALSE, done |-> {}, lacks |-> lacks, gone |-> FALSE]

TypeOK ==
    /\ \A n \in 1..Names : exe[n].size \in 0..Full /\ exe[n].done \subseteq Patches
    /\ at \in {"idle", "apply", "write", "copy"} /\ path \in 0..Names
    /\ at # "idle" => path # 0
    /\ result \in {"none", "applied", "noLib", "error"}

Init ==
    /\ exe \in [1..Names -> {None} \cup {Client(lacks) : lacks \in SUBSET Patches}]
    /\ dll \in [{"game", "app"} -> BOOLEAN]
    /\ at = "idle" /\ path = 0 /\ image = None /\ result = "none"

\* The first s pieces of an image.
Cut(img, s) == [img EXCEPT !.size = s, !.laa = @ /\ s >= 1, !.done = {p \in @ : Place[p] <= s}]

-------------------------------------------------------------------------------
\* One run of the tool.

\* The first name there is a file of is n; 0 when there is none.
FindGameClientExecutable(n) ==
    /\ n # 0 => ~exe[n].gone
    /\ \A k \in 1..Names : n = 0 \/ k < n => exe[k].gone

Run(chosen) ==
    /\ path' = chosen
    /\ IF chosen = 0 THEN result' = "error" /\ UNCHANGED at
       ELSE at' = "apply" /\ UNCHANGED result
    /\ UNCHANGED <<exe, dll, image>>

Start == /\ at = "idle"
         /\ \/ \E n \in 0..Names : FindGameClientExecutable(n) /\ Run(n)
            \/ \E n \in 1..Names : Run(n)    \* the argument, which need not exist

Fail == at' = "idle" /\ result' = "error"

\* mutant: every patch is written as soon as it is in
WriteEach ==
    LET read == exe[path]
        In(upTo) == [read EXCEPT !.laa = TRUE, !.done = @ \cup 1..upTo]
    IN  /\ at = "apply"
        /\ \/ /\ read.size < 1 /\ Fail /\ UNCHANGED <<exe, image>>
           \/ \E p \in read.lacks :
                /\ read.size >= 1 /\ \A q \in read.lacks : p <= q
                /\ exe' = [exe EXCEPT ![path] = In(p - 1)]
                /\ Fail /\ UNCHANGED image
           \/ /\ read.size >= 1 /\ read.lacks = {}
              /\ image' = In(Len(Place)) /\ at' = "write" /\ UNCHANGED <<exe, result>>
        /\ UNCHANGED <<dll, path>>

\* Everything happens in memory, so a refusal halfway changes no file.  In a
\* file cut short an address may lie behind the image's end: memcpy overruns
\* it, and the process dies or goes on without that patch.
ApplyPatches ==
    LET read == exe[path]
        within == {p \in Patches : Place[p] <= read.size}
    IN  /\ at = "apply"
        /\ \/ /\ read.gone \/ read.size < 1 \/ read.lacks # {}
              /\ Fail /\ UNCHANGED image
           \/ /\ ~read.gone /\ read.size >= 1 /\ read.lacks = {}
              /\ image' = [read EXCEPT !.laa = TRUE, !.done = @ \cup within]
              /\ at' = "write" /\ UNCHANGED result
        /\ UNCHANGED <<exe, dll, path>>

\* Opening fails while the game runs.  Once open the file is empty, and what
\* write() could not put into it goes unnoticed.
WriteFile ==
    /\ at = "write"
    /\ \/ Fail /\ UNCHANGED exe
       \/ \E s \in 0..image.size :
            exe' = [exe EXCEPT ![path] = Cut(image, s)] /\ at' = "copy" /\ UNCHANGED result
    /\ UNCHANGED <<dll, path, image>>

CopyLibrary ==
    /\ at = "copy" /\ at' = "idle"
    /\ \/ UNCHANGED dll    \* there already, not to be had, or the copy failed
       \/ ~dll.game /\ dll.app /\ dll' = [dll EXCEPT !.game = TRUE]
    /\ result' = IF dll'.game THEN "applied" ELSE "noLib"
    /\ UNCHANGED <<exe, path, image>>

\* The process is killed, maybe with part of the image written.
Kill ==
    /\ at # "idle" /\ at' = "idle" /\ result' = "error"
    /\ \/ UNCHANGED exe
       \/ /\ at = "write"
          /\ \E s \in 0..image.size : exe' = [exe EXCEPT ![path] = Cut(image, s)]
    /\ UNCHANGED <<dll, path, image>>

Next == Start \/ ApplyPatches \/ WriteFile \/ CopyLibrary \/ Kill
Spec == Init /\ [][Next]_vars

-------------------------------------------------------------------------------
\* Properties.

\* Whatever stops a run - another client's file, an address only the last patch
\* misses, a full disk, a kill - an executable that is all there is as it came
\* or has every patch and the mark; the patches need each other, the thread's
\* start jumps into the loader (Main.cpp:19-40).
AllOrNothing ==
    \A n \in 1..Names : exe[n].size = Full =>
        (exe[n].done = Patches) = exe[n].laa /\ exe[n].done \in {{}, Patches}
===============================================================================
