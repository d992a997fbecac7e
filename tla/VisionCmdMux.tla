---------------------------- MODULE VisionCmdMux ----------------------------
(***************************************************************************)
(* The command multiplexer (vision_cmd_mux.cpp): at 20 Hz it sends the     *)
(* last command of the demo or of the vision node, whichever pause_demo    *)
(* selects, stamped anew.                                                  *)
(***************************************************************************)
CONSTANTS
  MuxCmds,     \* commands of the demo and of the vision node
  HoverCmd,    \* the multiplexer's own Hover
  NoMuxCmd     \* have_demo, have_vision are false

ASSUME MuxAssumption == HoverCmd \in MuxCmds /\ NoMuxCmd \notin MuxCmds

VARIABLES last_demo, last_vision, vision_active,
          out          \* the command sent last

muxVars == <<last_demo, last_vision, vision_active, out>>

MuxInit == /\ last_demo = NoMuxCmd /\ last_vision = NoMuxCmd
           /\ vision_active = FALSE /\ out = NoMuxCmd

demo_cb(c) == last_demo' = c /\ UNCHANGED <<last_vision, vision_active, out>>
vision_cb(c) == last_vision' = c /\ UNCHANGED <<last_demo, vision_active, out>>
pause_cb(on) == vision_active' = on /\ UNCHANGED <<last_demo, last_vision, out>>

Selected == IF vision_active THEN last_vision ELSE last_demo

\* Mutant of Forward: the other source's command while the selected one has none.
ForwardEither ==
  /\ {last_demo, last_vision} # {NoMuxCmd}
  /\ out' = (IF Selected = NoMuxCmd THEN last_demo ELSE Selected)
  /\ UNCHANGED <<last_demo, last_vision, vision_active>>

\* The selected source's last command, Hover while it has none, and nothing before
\* any command.
Forward ==
  /\ {last_demo, last_vision} # {NoMuxCmd}
  /\ out' = (IF Selected = NoMuxCmd THEN HoverCmd ELSE Selected)
  /\ UNCHANGED <<last_demo, last_vision, vision_active>>
=============================================================================
