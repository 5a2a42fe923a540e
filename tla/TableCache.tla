----------------------------- MODULE TableCache -----------------------------
(***************************************************************************)
(* The tables that the tile-based router makes when it is first run and    *)
(* reads from files ever after: make_pip_paths with store_in_file, and     *)
(* enum_node_wire_tile_tw (src/tile-based-router.h), over the files of     *)
(* src/MemoryMappedFile.h.  The process may be stopped at any time, and    *)
(* started again; the files are as it left them.                           *)
(*                                                                         *)
(* Whether the tables were made is told by the size of one of the files.   *)
(***************************************************************************)
EXTENDS Naturals, Sequences

CONSTANTS
  Tables,    \* records [files, marker, steps, paired]: the files of a table, the
             \* one whose size is looked at, how they are made (a sequence of
             \* [op, file]), and pairs SpanIndexCount::make wants of one size
  MaxStops,  \* how often the process is stopped
  NotLoaded  \* nothing is loaded

Operations == {"open", "size", "write"}

\* Every file is written in the end, and nothing is done to it afterwards
ASSUME TablesAssumption ==
  \A t \in Tables :
    /\ t.marker \in t.files /\ t.paired \subseteq t.files \X t.files
    /\ t.steps \in Seq([op : Operations, file : t.files])
    /\ \A f \in t.files : \E i \in DOMAIN t.steps :
         /\ t.steps[i] = [op |-> "write", file |-> f]
         /\ \A j \in DOMAIN t.steps : t.steps[j].file = f => j <= i

VARIABLES
  table,  \* the table
  phase,  \* "start", "make", "load", "use" or "aborted"
  step,   \* the next of the table's steps
  disk,   \* each file: "absent", "empty", "zeroed" or "written"
  loaded, \* what the router reads
  stops,  \* how often the process was stopped
  hurt    \* it was stopped when the tables seemed made but were not

cacheVars == <<table, phase, step, disk, loaded, stops, hurt>>

CacheInit == /\ table \in Tables
        /\ phase = "start" /\ step = 1
        /\ disk = [f \in table.files |-> "absent"]
        /\ loaded = NotLoaded /\ stops = 0 /\ hurt = FALSE

\* fsize: a file that is not there reads as one of size 0
HasSize(f) == disk[f] \in {"zeroed", "written"}

Trusted == HasSize(table.marker)
Whole == \A f \in table.files : disk[f] = "written"

\* Mutant: tables that were begun count as made
Start_Tried == /\ phase = "start"
               /\ phase' = IF Trusted \/ stops > 0 THEN "load" ELSE "make"
               /\ step' = 1
               /\ UNCHANGED <<table, disk, loaded, stops, hurt>>

Start == /\ phase = "start"
         /\ phase' = IF Trusted THEN "load" ELSE "make"
         /\ step' = 1
         /\ UNCHANGED <<table, disk, loaded, stops, hurt>>

\* The constructor of MemoryMappedFile truncates the file and then gives it its
\* size; the entries are copied into the mapping
Effect(op) == CASE op = "open" -> "empty" [] op = "size" -> "zeroed" [] op = "write" -> "written"

Make == /\ phase = "make" /\ step <= Len(table.steps)
        /\ disk' = [disk EXCEPT ![table.steps[step].file] = Effect(table.steps[step].op)]
        /\ step' = step + 1
        /\ UNCHANGED <<table, phase, loaded, stops, hurt>>

Made == /\ phase = "make" /\ step = Len(table.steps) + 1
        /\ phase' = "load" /\ UNCHANGED <<table, step, disk, loaded, stops, hurt>>

SizesAgree == \A p \in table.paired : HasSize(p[1]) <=> HasSize(p[2])

Load == /\ phase = "load"
        /\ IF SizesAgree THEN phase' = "use" /\ loaded' = disk
                         ELSE phase' = "aborted" /\ UNCHANGED loaded
        /\ UNCHANGED <<table, step, disk, stops, hurt>>

\* The process ends, by itself or because it is stopped
Exit == /\ phase \in {"use", "aborted"} /\ stops < MaxStops
        /\ phase' = "start" /\ loaded' = NotLoaded /\ stops' = stops + 1
        /\ UNCHANGED <<table, step, disk, hurt>>

Stop == /\ phase \in {"start", "make", "load"} /\ stops < MaxStops
        /\ phase' = "start" /\ loaded' = NotLoaded /\ stops' = stops + 1
        /\ hurt' = (hurt \/ (HasSize(table.marker) /\ ~Whole))
        /\ UNCHANGED <<table, step, disk>>

Finished == phase \in {"use", "aborted"} /\ stops = MaxStops /\ UNCHANGED cacheVars

CacheNext == Start \/ Make \/ Made \/ Load \/ Exit \/ Stop \/ Finished

CacheSpec == CacheInit /\ [][CacheNext]_cacheVars

-----------------------------------------------------------------------------

\* What the router reads is what was made for it, unless the process was once
\* stopped between the moment the marker had a size and the last write: a stop
\* before costs nothing, and no later run repairs what a stop in between has left.
\* The process aborts over its tables only after such a stop.
DamageIsForGood ==
  /\ loaded # NotLoaded => ((\A f \in table.files : loaded[f] = "written") <=> ~hurt)
  /\ phase = "aborted" => hurt
=============================================================================
