--------------------------- MODULE MetricsConfig ---------------------------
(***************************************************************************)
(* metrics_parser with its two sink parsers, and the registerers that look *)
(* up a collector's name in what was parsed.  Documents are parsed one     *)
(* after another by the same parser.                                       *)
(*                                                                         *)
(* A document has or lacks a file and a network section, which have        *)
(* subsections for the output modes.  A subsection without its output      *)
(* interval throws out of parse().  (A document without a <metrics>        *)
(* element changes nothing: that step is a stuttering step.)               *)
(*                                                                         *)
(* m_network_sinks is declared as a file_sink_parser: it reads the file    *)
(* section, and its configuration is cast to a network_sink_config, whose  *)
(* first member "stream" is where the file configuration has "append".     *)
(*                                                                         *)
(* Operators with a suffix (SinkParse_Keeps, ...) are faulty variants of a *)
(* definition; no specification uses them.                                 *)
(***************************************************************************)
EXTENDS FiniteSets, Functions

CONSTANTS
  Collectors,   \* names of collectors in documents
  Documents,    \* [file, network : sections]
  Absent,       \* a section or subsection that is not there
  Allowed       \* collector -> the modes it may be output with

VARIABLES
  sinks,        \* "csv", "network" -> m_config of the nested parser
  config,       \* m_config: [csv, stream]
  broken,       \* history: a parse() threw
  last          \* history: the file section of the last document, and the
                \* latest network section met

vars == <<sinks, config, broken, last>>

(* The modes in the order in which file_sink_parser reads them.            *)
Modes == {"create", "append", "truncate"}
Rank == [create |-> 1, append |-> 2, truncate |-> 3]

(* output_mode_config: an interval, and the collectors enabled.            *)
Subsections == [timed : BOOLEAN, enabled : SUBSET Collectors]
Disabled == [timed |-> FALSE, enabled |-> {}]
NoFile == [m \in Modes |-> Disabled]

Init ==
  /\ sinks = [csv |-> Absent, network |-> Absent]
  /\ config = Absent
  /\ broken = FALSE
  /\ last = [file |-> Absent, network |-> Absent]

(* file_sink_parser::parse() throws at the first subsection without an     *)
(* interval; those before it are in the new configuration.                 *)
Faults(section) == {m \in Modes : section[m] # Absent /\ ~section[m].timed}
SinkRead(section) ==
  [m \in Modes |->
     IF section[m] # Absent /\ \A f \in Faults(section) : Rank[m] < Rank[f]
     THEN section[m]
     ELSE Disabled]

(* Mutant: a subsection that is absent keeps its last value.               *)
SinkParse_Keeps(old, section) ==
  IF section = Absent THEN old
  ELSE [m \in Modes |-> IF section[m] = Absent /\ old # Absent
                        THEN old[m] ELSE SinkRead(section)[m]]

(* Without its section a sink parser keeps the configuration it had.       *)
SinkParse(old, section) == IF section = Absent THEN old ELSE SinkRead(section)

Throws(doc) == doc.file # Absent /\ Faults(doc.file) # {}

(* metrics_parser::parse().  The new configuration is there before the     *)
(* sinks are parsed, and stays empty when one of them throws.              *)
Parse(doc) ==
  LET csv == SinkParse(sinks.csv, doc.file)
      network == SinkParse(sinks.network, doc.file)
  IN
  /\ IF Throws(doc)
     THEN /\ sinks' = [sinks EXCEPT !.csv = csv]
          /\ config' = [csv |-> NoFile, stream |-> Disabled]
     ELSE /\ sinks' = [csv |-> csv, network |-> network]
          /\ config' = [csv |-> IF csv = Absent THEN NoFile ELSE csv,
                        stream |-> IF network = Absent THEN Disabled
                                   ELSE network["append"]]
  /\ broken' = (broken \/ Throws(doc))
  /\ last' = [file |-> doc.file,
              network |-> IF doc.network = Absent THEN last.network
                          ELSE doc.network]

Next == \E doc \in Documents : Parse(doc)

Spec == Init /\ [][Next]_vars

(* calc_registration_spec() of the file sinks: the mode that a collector   *)
(* is registered with.  An assertion rejects a name in two subsections,    *)
(* and a mode that the collector does not allow.                           *)
EnabledIn(c) == {m \in Modes : c \in config.csv[m].enabled}
RegistrationSpec(c) ==
  CASE Cardinality(EnabledIn(c)) > 1 -> "halt"
    [] EnabledIn(c) = {} -> "disabled"
    [] OTHER ->
         LET m == CHOOSE m \in Modes : m \in EnabledIn(c)
         IN IF m \in Allowed[c] THEN m ELSE "halt"

(* calc_registration_spec() of the network sinks.                          *)
StreamSpec(c) ==
  CASE c \notin config.stream.enabled -> "disabled"
    [] "stream" \in Allowed[c] -> "stream"
    [] OTHER -> "halt"

----------------------------------------------------------------------------
TypeOK ==
  /\ \A s \in {"csv", "network"} :
       sinks[s] # Absent => sinks[s] \in [Modes -> Subsections]
  /\ config # Absent =>
       config.csv \in [Modes -> Subsections] /\ config.stream \in Subsections
  /\ broken \in BOOLEAN

(* The subsection of the last document's file section in which a collector *)
(* is listed is the mode it is registered with, and one that is listed no  *)
(* more, or whose subsection is gone, is registered no more, whatever the  *)
(* documents before said, if all of them could be parsed.  (After a        *)
(* document without a file section this is left open: documented is that   *)
(* nothing is collected, and the code keeps what it had.)                  *)
CollectorsFollowDocument ==
  (last.file # Absent /\ ~broken) =>
    \A c \in Collectors :
      LET listed == {m \in Modes : /\ last.file[m] # Absent
                                   /\ c \in last.file[m].enabled}
          spec == RegistrationSpec(c)
      IN
      /\ (spec = "disabled") <=> (listed = {})
      /\ spec \in Modes => listed = {spec}

(* A collector is sent over the network when the network section lists it. *)
StreamsFromNetworkSection ==
  (config # Absent /\ ~broken) =>
    \A c \in Collectors :
      c \in config.stream.enabled
        <=> last.network # Absent /\ c \in last.network.enabled
=============================================================================
