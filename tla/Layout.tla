------------------------------- MODULE Layout -------------------------------
(***************************************************************************)
(* The ROM layout (layout.c): -i arguments are registered, -l reads the    *)
(* layout file, process_include_args() marks the regions asked for, and    *)
(* handle_romentries() takes every byte outside them from the chip.        *)
(*                                                                         *)
(* A byte of newcontents is known by where it comes from: the image file   *)
(* or the old contents of the chip.                                        *)
(***************************************************************************)
EXTENDS Integers, Sequences

CONSTANTS
  Size,           (* chip size in bytes                                     *)
  UINT_MAX,       (* largest unsigned int                                   *)
  MAX_ROMLAYOUT,  (* length of rom_entries[] and include_args[] (32)        *)
  Names,          (* region names                                           *)
  LayoutFiles,    (* the layout files: sequences of lines                   *)
  IncludeLists    (* the -i arguments: sequences of names                   *)

Addr == 0 .. Size - 1
UInt == 0 .. UINT_MAX

(* A line that fscanf() splits in two; parses is FALSE without a ':'.       *)
Line == [parses : BOOLEAN, name : Names, start : UInt, end : UInt]

(* romlayout_t *)
RomEntry == [name : Names, start : UInt, end : UInt, included : BOOLEAN]

(* Regions begin on the chip or at its end; end may lie anywhere, also      *)
(* before start.                                                            *)
ASSUME LayoutAssumption ==
  /\ Size \in Nat \ {0} /\ UINT_MAX \in Nat /\ Size < UINT_MAX
  /\ MAX_ROMLAYOUT \in Nat \ {0}
  /\ LayoutFiles \subseteq Seq(Line)
  /\ \A f \in LayoutFiles : \A n \in DOMAIN f : f[n].start <= Size
  /\ IncludeLists \subseteq Seq(Names)

VARIABLES
  layoutfile,    (* what is left to read of the file; << >> without -l      *)
  args,          (* the -i arguments not registered yet                     *)
  rom_entries,   (* the layout                                              *)
  include_args,  (* the registered -i arguments                             *)
  i,             (* the argument process_include_args() is at               *)
  newcontents,   (* the origin of each byte of the new contents             *)
  start,         (* where handle_romentries() is                            *)
  layoutpc,
  asked          (* history: the -i arguments of the command line           *)

layoutVars == <<layoutfile, args, rom_entries, include_args, i, newcontents,
                start, layoutpc, asked>>

LayoutInit ==
  /\ layoutfile \in LayoutFiles
  /\ args \in IncludeLists
  /\ asked = args
  /\ rom_entries = << >> /\ include_args = << >>
  /\ i = 1
  /\ newcontents = [a \in Addr |-> "image"]
  /\ start = 0
  /\ layoutpc = "getopt"

Elements(s) == {s[n] : n \in DOMAIN s}

-----------------------------------------------------------------------------
(* register_include_arg(): refuses a 33rd and a second name.                *)
RegisterIncludeArg ==
  /\ layoutpc = "getopt" /\ args # << >>
  /\ IF Len(include_args) >= MAX_ROMLAYOUT \/ Head(args) \in Elements(include_args)
     THEN layoutpc' = "abort" /\ UNCHANGED <<args, include_args>>
     ELSE /\ include_args' = Append(include_args, Head(args))
          /\ args' = Tail(args)
          /\ layoutpc' = layoutpc
  /\ UNCHANGED <<layoutfile, rom_entries, i, newcontents, start, asked>>

IncludesRegistered ==
  /\ layoutpc = "getopt" /\ args = << >>
  /\ layoutpc' = "read_romlayout"
  /\ UNCHANGED <<layoutfile, args, rom_entries, include_args, i, newcontents, start, asked>>

(* One round of the loop in read_romlayout().                               *)
ReadRomlayout ==
  /\ layoutpc = "read_romlayout" /\ layoutfile # << >>
  /\ IF Len(rom_entries) >= MAX_ROMLAYOUT \/ ~Head(layoutfile).parses
     THEN layoutpc' = "abort" /\ UNCHANGED <<layoutfile, rom_entries>>
     ELSE /\ rom_entries' = Append(rom_entries,
               [name |-> Head(layoutfile).name, start |-> Head(layoutfile).start,
                end |-> Head(layoutfile).end, included |-> FALSE])
          /\ layoutfile' = Tail(layoutfile)
          /\ layoutpc' = layoutpc
  /\ UNCHANGED <<args, include_args, i, newcontents, start, asked>>

LayoutRead ==
  /\ layoutpc = "read_romlayout" /\ layoutfile = << >>
  /\ layoutpc' = "process_include_args"
  /\ UNCHANGED <<layoutfile, args, rom_entries, include_args, i, newcontents, start, asked>>

(* find_romentry() stops at the first entry of the name.                    *)
EntryNamed(name) ==
  {n \in DOMAIN rom_entries : /\ rom_entries[n].name = name
                              /\ \A m \in 1 .. n - 1 : rom_entries[m].name # name}

(* Mutant: a name that is not in the layout is passed over.                 *)
ProcessIncludeArgLenient ==
  /\ layoutpc = "process_include_args" /\ i <= Len(include_args)
  /\ rom_entries' = [n \in DOMAIN rom_entries |->
       [rom_entries[n] EXCEPT !.included = @ \/ n \in EntryNamed(include_args[i])]]
  /\ i' = i + 1
  /\ UNCHANGED <<layoutfile, args, include_args, newcontents, start, layoutpc, asked>>

ProcessIncludeArg ==
  /\ layoutpc = "process_include_args" /\ i <= Len(include_args)
  /\ \/ \E n \in EntryNamed(include_args[i]) :
          /\ rom_entries' = [rom_entries EXCEPT ![n].included = TRUE]
          /\ i' = i + 1
          /\ layoutpc' = layoutpc
     \/ /\ EntryNamed(include_args[i]) = {}
        /\ layoutpc' = "abort"
        /\ UNCHANGED <<rom_entries, i>>
  /\ UNCHANGED <<layoutfile, args, include_args, newcontents, start, asked>>

IncludeArgsProcessed ==
  /\ layoutpc = "process_include_args" /\ i > Len(include_args)
  /\ layoutpc' = "handle_romentries"
  /\ UNCHANGED <<layoutfile, args, rom_entries, include_args, i, newcontents, start, asked>>

-----------------------------------------------------------------------------
(* handle_romentries() *)

(* The included entries that do not end before s.                           *)
Live(s) == {n \in DOMAIN rom_entries : rom_entries[n].included /\ s <= rom_entries[n].end}

(* Mutant: the first entry that does not end before s.                      *)
NextIncludedFirst(s) == {n \in Live(s) : \A m \in Live(s) : n <= m}

(* get_next_included_romentry(): the first entry s is in, else the first of *)
(* those that begin earliest behind s.                                      *)
NextIncluded(s) ==
  {n \in Live(s) :
     \/ /\ rom_entries[n].start <= s
        /\ \A m \in Live(s) : m < n => s < rom_entries[m].start
     \/ /\ \A m \in Live(s) : s < rom_entries[m].start
        /\ \A m \in Live(s) : \/ rom_entries[n].start < rom_entries[m].start
                              \/ rom_entries[n].start = rom_entries[m].start /\ n <= m}

(* unsigned arithmetic: entry->end + 1                                      *)
Behind(end) == IF end = UINT_MAX THEN 0 ELSE end + 1

(* memcpy() from the old contents                                           *)
KeepOld(area) == [a \in Addr |-> IF a \in area THEN "chip" ELSE newcontents[a]]

NothingIncluded ==
  /\ layoutpc = "handle_romentries" /\ include_args = << >>
  /\ layoutpc' = "done"
  /\ UNCHANGED <<layoutfile, args, rom_entries, include_args, i, newcontents, start, asked>>

(* Mutant: the overflow of start is not caught.                             *)
SkipRegionWrapping ==
  /\ layoutpc = "handle_romentries" /\ include_args # << >> /\ start < Size
  /\ \E n \in NextIncluded(start) :
       LET entry == rom_entries[n] IN
       /\ newcontents' = KeepOld(start .. entry.start - 1)
       /\ start' = Behind(entry.end)
  /\ UNCHANGED <<layoutfile, args, rom_entries, include_args, i, layoutpc, asked>>

SkipRegion ==
  /\ layoutpc = "handle_romentries" /\ include_args # << >> /\ start < Size
  /\ \E n \in NextIncluded(start) :
       LET entry == rom_entries[n] IN
       /\ newcontents' = KeepOld(start .. entry.start - 1)
       /\ start' = Behind(entry.end)
       /\ layoutpc' = IF start' = 0 THEN "done" ELSE layoutpc
  /\ UNCHANGED <<layoutfile, args, rom_entries, include_args, i, asked>>

KeepRest ==
  /\ layoutpc = "handle_romentries" /\ include_args # << >> /\ start < Size
  /\ Live(start) = {}
  /\ newcontents' = KeepOld(start .. Size - 1)
  /\ layoutpc' = "done"
  /\ UNCHANGED <<layoutfile, args, rom_entries, include_args, i, start, asked>>

RomentriesHandled ==
  /\ layoutpc = "handle_romentries" /\ include_args # << >> /\ start >= Size
  /\ layoutpc' = "done"
  /\ UNCHANGED <<layoutfile, args, rom_entries, include_args, i, newcontents, start, asked>>

(* The layout is merged, or flashrom has given up without touching a chip.  *)
LayoutOver == layoutpc \in {"done", "abort"} /\ UNCHANGED layoutVars

LayoutStep ==
  \/ RegisterIncludeArg \/ IncludesRegistered \/ ReadRomlayout \/ LayoutRead
  \/ ProcessIncludeArg \/ IncludeArgsProcessed
  \/ NothingIncluded \/ SkipRegion \/ KeepRest \/ RomentriesHandled

LayoutNext == LayoutStep \/ LayoutOver

LayoutSpec == LayoutInit /\ [][LayoutNext]_layoutVars

LayoutFairSpec == LayoutSpec /\ WF_layoutVars(LayoutStep)

-----------------------------------------------------------------------------
LayoutTypes ==
  /\ layoutfile \in Seq(Line) /\ args \in Seq(Names) /\ asked \in Seq(Names)
  /\ rom_entries \in Seq(RomEntry) /\ Len(rom_entries) <= MAX_ROMLAYOUT
  /\ include_args \in Seq(Names) /\ Len(include_args) <= MAX_ROMLAYOUT
  /\ i \in Nat \ {0}
  /\ newcontents \in [Addr -> {"image", "chip"}]
  /\ start \in UInt
  /\ layoutpc \in {"getopt", "read_romlayout", "process_include_args", "handle_romentries",
             "done", "abort"}

Covers(entry, a) == entry.start <= a /\ a <= entry.end

InRegion(a) == \E n \in DOMAIN rom_entries : rom_entries[n].included /\ Covers(rom_entries[n], a)

(* "The union of all included romentries is used from the new image": for   *)
(* overlapping, nested, empty and adjacent regions in any order, and those  *)
(* that reach past the chip or to the last unsigned int.                    *)
UnionOfIncluded ==
  layoutpc = "done" =>
    \A a \in Addr : newcontents[a] = "image" <=> (include_args = << >> \/ InRegion(a))

(* From the command line to the contents: with -i, a byte comes from the    *)
(* image exactly if the first region of a name asked for covers it, and no  *)
(* name asked for is silently missing.                                      *)
OnlyWhatWasAsked ==
  layoutpc = "done" /\ asked # << >> =>
    /\ \A n \in DOMAIN asked : EntryNamed(asked[n]) # {}
    /\ \A a \in Addr : newcontents[a] = "image" <=>
         \E n \in DOMAIN asked : \E m \in EntryNamed(asked[n]) : Covers(rom_entries[m], a)

(* What the loop of handle_romentries() keeps: a region asked for is never  *)
(* overwritten, and behind start everything else is already from the chip.  *)
LoopInv ==
  layoutpc = "handle_romentries" /\ include_args # << >> =>
    \A a \in Addr : IF InRegion(a) THEN newcontents[a] = "image"
                                   ELSE a < start => newcontents[a] = "chip"

(* Before the loop nothing has been taken from the chip, and without -i     *)
(* nothing ever is.                                                         *)
NothingKeptYet ==
  /\ layoutpc \in {"getopt", "read_romlayout", "process_include_args"} => start = 0
  /\ \/ layoutpc \in {"getopt", "read_romlayout", "process_include_args"}
     \/ layoutpc = "handle_romentries" /\ include_args = << >>
     => newcontents = [a \in Addr |-> "image"]

LInv == LayoutTypes /\ NothingKeptYet /\ LoopInv /\ UnionOfIncluded

(* The jumps of start, which also go backwards to the end of an inverted    *)
(* region, come to an end.                                                  *)
Termination == <>(layoutpc \in {"done", "abort"})
=============================================================================
