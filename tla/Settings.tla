------------------------------- MODULE Settings -------------------------------
(***************************************************************************)
(* The configuration (src/src/config.c) and the programs that use it: the  *)
(* command line program, which changes it by options, and the GUI with its *)
(* settings page.  Both may run at the same time over the same files: the  *)
(* administrator's, the user's, which every program copies, reads and      *)
(* overwrites without a lock, and a profile the user keeps.                *)
(*                                                                         *)
(* A file is what the TOML parser makes of it.  A text is any string that  *)
(* a test tells apart, in one line; OddTexts hold a quote or backslash,    *)
(* which the program saves as they are: a line with one cannot be read, or *)
(* is read as another text.                                                *)
(***************************************************************************)
EXTENDS Integers, Sequences

CONSTANTS
  Choices,   \* for every field, the values users give it
  SysFiles,  \* what the administrator may write, Missing and Broken among it
  UserFiles, \* what the user may write by hand, into the user's file or the profile
  OddTexts, LogDirs, \* texts that do not survive a save; log files that are directories
  Misread,   \* a text that one of OddTexts is read as, if it can be read
  Wrong,     \* a value of another type than its field's
  None,
  MaxStarts, MaxInputs, MaxFaults \* bounds

VARIABLES
  sys, usr, profile, \* /etc/lanft/config.toml, ~/.config/lanft/config.toml, --config=PATH
  pc,        \* where each program is
  after,     \* where it goes on after config_save
  cfg,       \* its struct lanft_config
  used,      \* what its other parts were told: transfer.c's, log.c's, discovery.c's variables
  page,      \* the other pages' fields of the GUI
  active,    \* the text field that has the input, active_input
  dialog, picked, \* each file dialog, and the one buffer their answers share
  starts, inputs, faults,
  saved, whole,   \* history: the last configuration a program began to save, and whether
             \* the user's file is all of it, nobody else having touched it
  shown,     \* history: the configuration of which the profile is the print
  layers     \* history: the tables each program has read and been given, in order

files == <<sys, usr, profile>>
gui == <<page, active, dialog, picked>>
bounds == <<starts, inputs, faults>>
ghosts == <<saved, whole, shown, layers>>
vars == <<files, pc, after, cfg, used, gui, bounds, ghosts>>

Programs == {"gui", "cli"}

\* config_set_defaults.  A mode of -1 and an empty log_file are "" here.
Defaults ==
  [port |-> 9876, protocol |-> "TCP", address |-> "0.0.0.0", save_dir |-> "~/Downloads",
   mode |-> "", buffer_size |-> 65536, timeout_seconds |-> 30, max_connections |-> 5,
   auto_accept |-> FALSE, overwrite_policy |-> "rename", show_progress |-> TRUE,
   discovery_enabled |-> TRUE, discovery_interval |-> 5, discovery_ttl |-> 1,
   log_level |-> "info", log_file |-> "", send_bandwidth_limit |-> 0]

Fields == DOMAIN Defaults
TextFields == {"address", "save_dir", "overwrite_policy", "log_level", "log_file"}

NumberFields ==
  {"port", "buffer_size", "timeout_seconds", "max_connections", "discovery_interval",
   "discovery_ttl", "send_bandwidth_limit"}

\* The order config_save writes them in.
LineNumber ==
  [port |-> 1, protocol |-> 2, address |-> 3, save_dir |-> 4, mode |-> 5, buffer_size |-> 6,
   timeout_seconds |-> 7, max_connections |-> 8, auto_accept |-> 9, overwrite_policy |-> 10,
   show_progress |-> 11, discovery_enabled |-> 12, discovery_interval |-> 13,
   discovery_ttl |-> 14, log_level |-> 15, log_file |-> 16, send_bandwidth_limit |-> 17]

LastLine == 17

\* Files: a table of some of the fields, or nothing, or no TOML.
Missing == [state |-> "missing", table |-> <<>>]
Broken  == [state |-> "broken", table |-> <<>>]
Good(t) == [state |-> "good", table |-> t]
Empty   == Good(<<>>)

Only(t, S) == [k \in DOMAIN t \intersect S |-> t[k]]

-----------------------------------------------------------------------------
(* Reading and writing a configuration.                                    *)

\* Does apply_toml_table take the value up?  An unknown mode changes nothing, an unknown
\* protocol is TCP.
Understood(k, v) == v # Wrong /\ (k = "mode" => v \in {"S", "s", "send", "R", "r", "receive"})

Normal(k, v) ==
  CASE k = "protocol" -> IF v \in {"UDP", "udp"} THEN "UDP" ELSE "TCP"
    [] k = "mode" -> IF v \in {"S", "s", "send"} THEN "S" ELSE "R"
    [] OTHER -> v

Apply(c, t) ==
  [k \in Fields |-> IF k \in DOMAIN t /\ Understood(k, t[k]) THEN Normal(k, t[k]) ELSE c[k]]

\* What config_load and config_load_file make of a file: broken and missing ones are skipped.
Layer(f) == IF f.state = "good" THEN f.table ELSE <<>>

\* Seeded fault: the log file is always a comment.
SavedTableNoLog(c) == Only(c, Fields \ {"log_file"})

\* The fields config_save writes.  An empty log_file is a comment.
SavedTable(c) == Only(c, {k \in Fields : k = "log_file" => c[k] # ""})

Readable(c) == \A k \in TextFields : c[k] \notin OddTexts

\* What field k is read as when its line has been written with v.
Line(k, v) == IF k \in TextFields /\ v \in OddTexts THEN Misread ELSE v
Lines(t)   == [k \in DOMAIN t |-> Line(k, t[k])]

\* The files a table may make when it is written.
Written(t) == {Good(Lines(t))} \union (IF Lines(t) = t THEN {} ELSE {Broken})

Saved(c) == Written(SavedTable(c))

\* config_log_path: the file a directory stands for is named by the day.
LogPath(c) == IF c.log_file \in LogDirs THEN "today.log" ELSE c.log_file

\* Seeded fault: config_print writes the lines of config_save.
PrintedAsSaved(c) == Saved(c)

\* config_print.
Printed(c) ==
  Written([c EXCEPT !.mode = IF @ = "" THEN "(unspecified)" ELSE @,
                    !.log_file = IF @ = "" THEN "(stderr)" ELSE LogPath(c)])

\* The numbers that the first digits of v are.
Tens == {10, 100, 1000, 10000, 100000, 1000000, 10000000, 100000000, 1000000000}
Cuts(v) ==
  {n \in {IF v < 0 THEN -((-v) \div t) ELSE v \div t : t \in Tens} : n \in Int \ {0}}

FirstLines(c, n) == Only(Lines(SavedTable(c)), {k \in Fields : LineNumber[k] <= n})

\* What is left of the file when the disk is full: whole lines, or after them the beginning of
\* one.  That is no TOML if the line has a text or a switch; a number that is cut is a number.
Torn(c) ==
  {Broken} \union {Good(FirstLines(c, n)) : n \in 0 .. LastLine}
  \union UNION {{Good([FirstLines(c, LineNumber[k]) EXCEPT ![k] = v]) : v \in Cuts(c[k])} :
                k \in NumberFields}

Positive(n) == IF n > 0 THEN n ELSE 0

MaxChunk == 1048576

\* The statics of transfer.c, log.c and discovery.c before anything is set.
Unset ==
  [buffer_size |-> 65536, timeout_seconds |-> 30, overwrite_policy |-> "rename",
   send_bandwidth_limit |-> 0, max_connections |-> 0, auto_accept |-> FALSE,
   log_file |-> "", log_level |-> "debug", responder |-> None, work_path |-> None]

\* level_from_str.
Level(text) == IF text \in {"debug", "warn", "error"} THEN text ELSE "info"

\* log_init: an empty log_file closes the one that was open.
LogInit(u, c) ==
  [u EXCEPT !.log_file = LogPath(c),
            !.log_level = Level(c.log_level)]

\* discovery_start, which a running responder ignores.
Discovery(u, c) ==
  [u EXCEPT !.responder = IF c.discovery_enabled /\ @ = None THEN c.port ELSE @]

\* Seeded fault: a setter that believes what it is told.
ConfigureBlindly(u, c) ==
  [u EXCEPT !.auto_accept = c.auto_accept, !.buffer_size = c.buffer_size,
            !.timeout_seconds = c.timeout_seconds, !.overwrite_policy = c.overwrite_policy,
            !.send_bandwidth_limit = Positive(c.send_bandwidth_limit),
            !.max_connections = Positive(c.max_connections)]

\* The setters of transfer.c, some of which ignore or correct what they are given.
Configure(u, c) ==
  [u EXCEPT !.auto_accept = c.auto_accept,
            !.buffer_size = IF c.buffer_size \in 1 .. MaxChunk THEN c.buffer_size ELSE @,
            !.timeout_seconds = IF c.timeout_seconds >= 0 THEN c.timeout_seconds ELSE @,
            !.overwrite_policy = IF c.overwrite_policy # "" THEN c.overwrite_policy ELSE @,
            !.send_bandwidth_limit = Positive(c.send_bandwidth_limit),
            !.max_connections = Positive(c.max_connections)]

\* config_expand_path: a leading ~ stands for the home directory.
Expand(path) == IF path = "~/Downloads" THEN "/home/u/Downloads" ELSE path

\* The other pages take a copy when the GUI starts.
NoPage ==
  [send_filepath |-> "", send_target_ip |-> "", send_port |-> 0, send_protocol |-> "TCP",
   recv_savepath |-> "", recv_target_ip |-> "", recv_port |-> 0, recv_protocol |-> "TCP",
   scan_port |-> 0]

PageOf(c) ==
  [NoPage EXCEPT !.send_port = c.port, !.recv_port = c.port, !.scan_port = c.port,
                 !.send_protocol = c.protocol, !.recv_protocol = c.protocol,
                 !.recv_target_ip = c.address, !.recv_savepath = Expand(c.save_dir)]

Dialogs == {"send_filepath", "recv_savepath", "save_dir"}

Switches == {"auto_accept", "show_progress", "discovery_enabled"}

\* What users type, and the program's own texts and switches, have their fields' types.
ASSUME WrongAssumption ==
  /\ \A f \in Fields \union DOMAIN NoPage : Wrong \notin Choices[f]
  /\ \A k \in Fields : Wrong # Defaults[k]
  /\ Wrong \notin {"", "TCP", "UDP", "S", "R", "(stderr)", "(unspecified)", "today.log"}
  /\ Wrong # Misread /\ Wrong \notin BOOLEAN /\ Wrong \notin Int
  /\ Misread \notin OddTexts /\ {"(stderr)", "today.log"} \intersect OddTexts = {}

\* A switch that is not a BOOLEAN has the wrong type, in the files too.
ASSUME SwitchAssumption ==
  /\ \A k \in Switches : Choices[k] \subseteq BOOLEAN
  /\ \A f \in SysFiles \union UserFiles :
       /\ f.state \in {"missing", "broken", "good"}
       /\ \A k \in Switches \intersect DOMAIN f.table : f.table[k] \in BOOLEAN \union {Wrong}

ASSUME BoundsAssumption == MaxStarts \in Nat /\ MaxInputs \in Nat /\ MaxFaults \in Nat

-----------------------------------------------------------------------------
IsConfig(c) ==
  /\ DOMAIN c = Fields
  /\ c.protocol \in {"TCP", "UDP"} /\ c.mode \in {"", "S", "R"}
  /\ c.auto_accept \in BOOLEAN /\ c.show_progress \in BOOLEAN /\ c.discovery_enabled \in BOOLEAN

\* The values each variable may take (config.h:15-46); a program's other parts never get a
\* block size they cannot use (transfer.c:57-67).
TypeOK ==
  /\ pc \in [Programs -> {"off", "copy", "fill", "read", "options", "running", "save", "transfer"}]
  /\ after \in [Programs -> {"off", "running"}]
  /\ \A p \in Programs :
       IsConfig(cfg[p]) /\ used[p].buffer_size \in 1 .. MaxChunk /\ used[p].timeout_seconds >= 0
  /\ \A f \in {sys, usr, profile} : f.state \in {"missing", "broken", "good"}
  /\ active \in Fields \union DOMAIN NoPage \union {None}
  /\ dialog \in [Dialogs -> {"closed", "open", "answered", "given up"}]
  /\ starts \in 0 .. MaxStarts /\ inputs \in 0 .. MaxInputs /\ faults \in 0 .. MaxFaults
  /\ whole => saved # None

Init ==
  /\ sys \in SysFiles /\ usr \in UserFiles /\ profile = Missing
  /\ pc = [p \in Programs |-> "off"] /\ after = [p \in Programs |-> "off"]
  /\ cfg = [p \in Programs |-> Defaults] /\ used = [p \in Programs |-> Unset]
  /\ page = NoPage /\ active = None
  /\ dialog = [d \in Dialogs |-> "closed"] /\ picked = ""
  /\ starts = 0 /\ inputs = 0 /\ faults = 0
  /\ saved = None /\ whole = FALSE /\ shown = None
  /\ layers = [p \in Programs |-> <<>>]

-----------------------------------------------------------------------------
(* What both programs do: starting, which loads the files, saving, ending. *)

Goto(p, there) == pc' = [pc EXCEPT ![p] = there]

\* Another program has the user's file open for writing, or is about to.
OthersWrite(p) == \E q \in Programs \ {p} : pc[q] \in {"copy", "fill", "save"}

\* Both writers write from the start of the file: over the other's text nothing fits, except
\* by luck.
Overlay(f) == usr' = f \/ (usr # Empty /\ usr' = Broken)

Took(p, f) == layers' = [layers EXCEPT ![p] = Append(@, Layer(f))]

\* main.c:299-359, cli.c:170 and config_load up to the stat of the user's file.
Start(p) ==
  /\ pc[p] = "off" /\ starts < MaxStarts /\ starts' = starts + 1
  /\ cfg' = [cfg EXCEPT ![p] = Apply(Defaults, Layer(sys))]
  /\ layers' = [layers EXCEPT ![p] = <<Layer(sys)>>]
  /\ used' = [used EXCEPT ![p] = Unset]
  /\ Goto(p, IF usr.state = "missing" /\ sys.state # "missing" THEN "copy" ELSE "read")
  /\ IF p = "gui" THEN page' = NoPage /\ active' = None /\ picked' = ""
                       /\ dialog' = [d \in Dialogs |-> "closed"]
                  ELSE UNCHANGED gui
  /\ UNCHANGED <<files, after, inputs, faults, saved, whole, shown>>

\* fopen(user_path, "w") empties the file, whoever has made it since the stat.
CopyOpen(p) ==
  /\ pc[p] = "copy" /\ Goto(p, "fill")
  /\ usr' = Empty /\ saved' = None /\ whole' = FALSE
  /\ UNCHANGED <<sys, profile, after, cfg, used, gui, bounds, shown, layers>>

CopyFill(p) ==
  /\ pc[p] = "fill" /\ Goto(p, "read")
  /\ Overlay(IF sys.state = "missing" THEN Empty ELSE sys) /\ saved' = None /\ whole' = FALSE
  /\ UNCHANGED <<sys, profile, after, cfg, used, gui, bounds, shown, layers>>

\* The user's file is read, and the program sets itself up: the GUI at once (main.c:360-386),
\* the command line program only opens its log (cli.c:171).
Loaded(c) == Apply(c, Layer(usr))

Read(p) ==
  /\ pc[p] = "read" /\ Took(p, usr)
  /\ cfg' = [cfg EXCEPT ![p] = Loaded(@)]
  /\ LET c == Loaded(cfg[p]) IN
       IF p = "gui"
       THEN /\ used' = [used EXCEPT ![p] = Configure(Discovery(LogInit(@, c), c), c)]
            /\ page' = PageOf(c) /\ Goto(p, "running")
       ELSE /\ used' = [used EXCEPT ![p] = LogInit(@, c)]
            /\ Goto(p, "options") /\ UNCHANGED page
  /\ UNCHANGED <<files, after, active, dialog, picked, bounds, saved, whole, shown>>

\* Seeded fault: the file is opened for update, and its old lines stay until the new ones come.
SaveInPlace(p, next) ==
  \/ /\ Goto(p, "save") /\ after' = [after EXCEPT ![p] = next]
     /\ saved' = IF OthersWrite(p) THEN None ELSE cfg[p]
     /\ whole' = FALSE /\ UNCHANGED <<usr, faults>>
  \/ /\ faults < MaxFaults /\ faults' = faults + 1
     /\ Goto(p, next) /\ UNCHANGED <<usr, after, saved, whole>>

\* config_save; the caller never looks at its result, so a file that cannot be opened
\* changes nothing but that.
Save(p, next) ==
  \/ /\ Goto(p, "save") /\ after' = [after EXCEPT ![p] = next]
     /\ usr' = Empty /\ saved' = IF OthersWrite(p) THEN None ELSE cfg[p]
     /\ whole' = FALSE /\ UNCHANGED faults
  \/ /\ faults < MaxFaults /\ faults' = faults + 1
     /\ Goto(p, next) /\ UNCHANGED <<usr, after, saved, whole>>

SaveWrite(p) ==
  /\ pc[p] = "save" /\ Goto(p, after[p])
  /\ \/ /\ \E f \in Saved(cfg[p]) : Overlay(f)
        /\ whole' = (saved # None /\ Readable(cfg[p])) /\ UNCHANGED faults
     \/ /\ faults < MaxFaults /\ faults' = faults + 1
        /\ \E f \in Torn(cfg[p]) : Overlay(f)
        /\ UNCHANGED whole
  /\ UNCHANGED <<sys, profile, after, cfg, used, gui, starts, inputs, saved, shown, layers>>

\* The program is killed; what it had open stays as it is.
Crash(p) ==
  /\ pc[p] # "off" /\ faults < MaxFaults /\ faults' = faults + 1
  /\ Goto(p, "off")
  /\ UNCHANGED <<files, after, cfg, used, gui, starts, inputs, ghosts>>

-----------------------------------------------------------------------------
(* The command line: options in their order (cli.c:204-280).               *)

Input == inputs < MaxInputs /\ inputs' = inputs + 1

Optional == Fields \ {"discovery_interval", "discovery_ttl"}

\* --no-progress and --no-discovery can only switch off, and --scan does it too.
Options(k) == IF k \in {"show_progress", "discovery_enabled"} THEN {FALSE} ELSE Choices[k]

\* --mode sends unless it is told R; -S and -R are that and no more.
Told(k, v) == IF k = "mode" THEN (IF v \in {"R", "r"} THEN "R" ELSE "S") ELSE Normal(k, v)

Option ==
  /\ pc["cli"] = "options" /\ Input
  /\ \E k \in Optional : \E v \in Options(k) :
       /\ cfg' = [cfg EXCEPT !.cli[k] = Told(k, v)]
       /\ layers' = [layers EXCEPT !.cli = Append(@, [x \in {k} |-> Told(k, v)])]
  /\ UNCHANGED <<files, pc, after, used, gui, starts, faults, saved, whole, shown>>

\* Seeded fault: options given before the profile stay above it.
ProfileBeneath ==
  /\ pc["cli"] = "options" /\ Input /\ Took("cli", profile)
  /\ cfg' = [cfg EXCEPT !.cli =
              Apply(Apply(@, Layer(profile)), Only(@, {k \in Fields : @[k] # Defaults[k]}))]
  /\ UNCHANGED <<files, pc, after, used, gui, starts, faults, saved, whole, shown>>

\* --config and --profile: the file goes over what stood before, options too.
Profile ==
  /\ pc["cli"] = "options" /\ Input /\ Took("cli", profile)
  /\ cfg' = [cfg EXCEPT !.cli = Apply(@, Layer(profile))]
  /\ UNCHANGED <<files, pc, after, used, gui, starts, faults, saved, whole, shown>>

\* --save-config, which leaves out the options after it.
SaveConfig ==
  /\ pc["cli"] = "options" /\ Save("cli", "off")
  /\ UNCHANGED <<sys, profile, cfg, used, gui, starts, inputs, shown, layers>>

\* --show-config, and the user keeps what it prints as a profile.
ShowConfig ==
  /\ pc["cli"] = "options" /\ Goto("cli", "off")
  /\ profile' \in Printed(cfg.cli) /\ shown' = cfg.cli
  /\ UNCHANGED <<sys, usr, after, cfg, used, gui, bounds, saved, whole, layers>>

\* A path is sent if it is there; one is received into if it is or becomes a directory.
Suits(mode, named, place, made) ==
  IF mode = "S" THEN named /\ place # "missing"
                ELSE place = "directory" \/ (place = "missing" /\ made)

\* All options are read (cli.c:436-498): the log is opened again, the responder started;
\* without a mode, or with a path that does not suit, the program ends before it has set up
\* the transfer.
Begin ==
  /\ pc["cli"] = "options"
  /\ LET c == cfg.cli
         u == Discovery(LogInit(used.cli, c), c) IN
       \E named, made \in BOOLEAN : \E place \in {"missing", "directory", "file"} :
         IF c.mode # "" /\ Suits(c.mode, named, place, made)
         THEN /\ Goto("cli", "transfer")
              /\ used' = [used EXCEPT !.cli = [Configure(u, c) EXCEPT
                            !.work_path = IF named THEN "PATH" ELSE Expand(c.save_dir)]]
         ELSE /\ Goto("cli", "off")
              /\ used' = [used EXCEPT !.cli = u]
  /\ UNCHANGED <<files, after, cfg, gui, bounds, ghosts>>

\* --help, --version, an unknown option, --history and --scan, and the transfer's end:
\* nothing is saved.
End ==
  /\ pc["cli"] \in {"options", "transfer"} /\ Goto("cli", "off")
  /\ UNCHANGED <<files, after, cfg, used, gui, bounds, ghosts>>

-----------------------------------------------------------------------------
(* The GUI: clicks, keys and file dialogs (ui.c:1262-1549).                *)

Running == pc["gui"] = "running"

Button == [protocol |-> {"TCP", "UDP"}, mode |-> {"S", "R"},
           overwrite_policy |-> {"rename", "overwrite", "skip"},
           auto_accept |-> BOOLEAN, show_progress |-> BOOLEAN, discovery_enabled |-> BOOLEAN,
           log_level |-> {"debug", "info", "warn", "error"},
           send_protocol |-> {"TCP", "UDP"}, recv_protocol |-> {"TCP", "UDP"}]

TextField == (Fields \ (DOMAIN Button \union {"log_file"}))
             \union {"send_target_ip", "recv_target_ip", "send_port", "recv_port", "scan_port"}

\* A field of the settings page or of another one.
Put(f, v) ==
  IF f \in Fields THEN cfg' = [cfg EXCEPT !.gui[f] = v] /\ UNCHANGED page
                  ELSE page' = [page EXCEPT ![f] = v] /\ UNCHANGED cfg

Click ==
  /\ Running /\ Input
  /\ \E f \in DOMAIN Button : \E v \in Button[f] \intersect Choices[f] : Put(f, v)
  /\ UNCHANGED <<files, pc, after, used, active, dialog, picked, starts, faults, ghosts>>

\* ui_text_field_click; RETURN, ESC and the start buttons take the input away again.
Focus ==
  /\ Running
  /\ active' \in {f \in TextField : Choices[f] # {}} \union {None}
  /\ UNCHANGED <<files, pc, after, cfg, used, page, dialog, picked, bounds, ghosts>>

\* Every key goes into the field that has the input, whatever page is shown: sync_field.
Key ==
  /\ Running /\ Input /\ active # None
  /\ \E v \in Choices[active] : Put(active, v)
  /\ UNCHANGED <<files, pc, after, used, active, dialog, picked, starts, faults, ghosts>>

\* A click on a device found by a scan.
PickDevice ==
  /\ Running /\ Input
  /\ \E v \in Choices["send_target_ip"] : Put("send_target_ip", v)
  /\ UNCHANGED <<files, pc, after, used, active, dialog, picked, starts, faults, ghosts>>

\* zenity_launch; one dialog for each place, a bound.
Browse ==
  /\ Running /\ Input
  /\ \E d \in Dialogs : dialog[d] = "closed" /\ Choices[d] # {}
                       /\ dialog' = [dialog EXCEPT ![d] = "open"]
  /\ UNCHANGED <<files, pc, after, cfg, used, page, active, picked, starts, faults, ghosts>>

\* zenity_thread puts the answer into its static buffer and pushes an event with a pointer.
DialogEnds ==
  /\ pc["gui"] \in {"running", "save"}
  /\ \E d \in Dialogs :
       /\ dialog[d] = "open"
       /\ \/ picked' \in Choices[d] /\ dialog' = [dialog EXCEPT ![d] = "answered"]
          \/ dialog' = [dialog EXCEPT ![d] = "given up"] /\ UNCHANGED picked
  /\ UNCHANGED <<files, pc, after, cfg, used, page, active, bounds, ghosts>>

\* main.c:536-551: what the buffer holds now goes to the dialog's place.
DialogResult ==
  /\ Running
  /\ \E d \in Dialogs :
       /\ dialog[d] \in {"answered", "given up"} /\ dialog' = [dialog EXCEPT ![d] = "closed"]
       /\ IF dialog[d] = "answered" THEN Put(d, picked) ELSE UNCHANGED <<cfg, page>>
  /\ UNCHANGED <<files, pc, after, used, active, picked, bounds, ghosts>>

\* Seeded fault: every setting is passed on.
FrameTellsAll ==
  /\ Running
  /\ used' = [used EXCEPT !.gui = Configure(@, cfg.gui)]
  /\ UNCHANGED <<files, pc, after, cfg, gui, bounds, ghosts>>

\* At the end of each frame transfer.c is told of auto_accept, and of nothing else (main.c:673).
Frame ==
  /\ Running
  /\ used' = [used EXCEPT !.gui.auto_accept = cfg.gui.auto_accept]
  /\ UNCHANGED <<files, pc, after, cfg, gui, bounds, ghosts>>

\* The Save button, and the end of the program.
GuiSave ==
  /\ Running /\ Input
  /\ \E next \in {"running", "off"} : Save("gui", next)
  /\ UNCHANGED <<sys, profile, cfg, used, gui, starts, shown, layers>>

\* Somebody writes one of the files by hand.
Edit ==
  /\ Input
  /\ \/ /\ sys' \in SysFiles /\ UNCHANGED <<usr, profile, saved, whole, shown>>
     \/ /\ usr' \in UserFiles /\ saved' = None /\ whole' = FALSE
        /\ UNCHANGED <<sys, profile, shown>>
     \/ /\ profile' \in UserFiles /\ shown' = None
        /\ UNCHANGED <<sys, usr, saved, whole>>
  /\ UNCHANGED <<pc, after, cfg, used, gui, starts, faults, layers>>

Next ==
  \/ \E p \in Programs :
       Start(p) \/ CopyOpen(p) \/ CopyFill(p) \/ Read(p) \/ SaveWrite(p) \/ Crash(p)
  \/ Option \/ Profile \/ SaveConfig \/ ShowConfig \/ Begin \/ End
  \/ Click \/ Focus \/ Key \/ PickDevice \/ Browse \/ DialogEnds \/ DialogResult \/ Frame
  \/ GuiSave \/ Edit

Spec == Init /\ [][Next]_vars

-----------------------------------------------------------------------------
(* What holds.                                                             *)

Loads(p) == pc[p] = "read" /\ pc'[p] \in {"options", "running"}

\* What was saved last comes back in the next program that starts, whichever program saved
\* it and whatever ran in between; but an empty log_file does not hide the administrator's,
\* nor does the absence of a mode (config.c:236-287, 307-356).
SavedComesBack ==
  [][\A p \in Programs : Loads(p) /\ whole =>
       \A k \in Fields :
         cfg'[p][k] = IF k \in {"mode", "log_file"} /\ saved[k] = "" THEN cfg[p][k] ELSE saved[k]]_vars

\* Of a save that was cut short by a crash or a full disk the first lines come back, as
\* they were to be saved, the last of them perhaps with a number that lost its last digits;
\* all other settings are the administrator's: never one of the configuration that the
\* save replaced (config.c:316-351).
NothingOldComesBack ==
  [][\A p \in Programs : Loads(p) /\ saved # None =>
       \E n \in 0 .. LastLine : \A k \in Fields :
         LET kept == IF k \in {"mode", "log_file"} /\ saved[k] = "" THEN cfg[p][k]
                     ELSE Line(k, saved[k])
         IN  /\ LineNumber[k] < n => cfg'[p][k] = kept
             /\ LineNumber[k] = n =>
                  cfg'[p][k] = kept \/ (k \in NumberFields /\ cfg'[p][k] \in Cuts(saved[k]))
             /\ LineNumber[k] > n => cfg'[p][k] = cfg[p][k]]_vars

\* A printed configuration, kept as a profile, is taken up again whole; but "(stderr)" becomes
\* the name of a log file and a directory of logs today's file (config.c:360-387).
PrintedComesBack ==
  [][pc["cli"] = "options" /\ shown # None /\ layers'["cli"] # layers["cli"]
       /\ layers'["cli"] = Append(layers["cli"], Layer(profile)) /\ Readable(shown) =>
       \A k \in Fields :
         cfg'["cli"][k] = IF k = "log_file" THEN (IF shown[k] = "" THEN "(stderr)" ELSE LogPath(shown))
                          ELSE IF k = "mode" /\ shown[k] = "" THEN cfg["cli"][k] ELSE shown[k]]_vars

\* What the layers amount to: for each field the last one that says something of it.
Effective(ls) ==
  [k \in Fields |->
     LET says == {i \in DOMAIN ls : k \in DOMAIN ls[i] /\ Understood(k, ls[i][k])} IN
       IF says = {} THEN Defaults[k]
       ELSE Normal(k, ls[CHOOSE i \in says : \A j \in says : j <= i][k])]

\* A transfer of the command line program runs under the last word on every setting, files
\* and options taken in their order, and so do its log and its responder
\* (cli.c:170-173, 204-280, 437-441, 488-494).
CliRunsAsTold ==
  pc["cli"] = "transfer" =>
    LET c == Effective(layers["cli"]) IN
      /\ cfg["cli"] = c
      /\ [used["cli"] EXCEPT !.work_path = None] = Configure(Discovery(LogInit(Unset, c), c), c)
      /\ used["cli"].work_path \in {"PATH", Expand(c.save_dir)}

\* The GUI's other parts follow the settings page in auto_accept alone: all else is as it was
\* when the program had loaded its files, until it is started again (main.c:381-386, 673).
GuiRunsAsStarted ==
  pc["gui"] \in {"running", "save"} =>
    LET c == Effective(layers["gui"]) IN
      \A k \in DOMAIN Unset \ {"auto_accept"} :
        used["gui"][k] = Configure(Discovery(LogInit(Unset, c), c), c)[k]
=============================================================================
