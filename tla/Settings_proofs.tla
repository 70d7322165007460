--------------------------- MODULE Settings_proofs ---------------------------
(***************************************************************************)
(* Theorems about Settings, for any values users choose and any files.     *)
(***************************************************************************)
EXTENDS Settings, SequenceTheorems, WellFoundedInduction, TLAPS

-----------------------------------------------------------------------------
(* The inductive invariant.                                                *)

\* A configuration a file can give back: every value has its field's type, and those of
\* protocol and mode are the program's own.
Sound(c) ==
  /\ DOMAIN c = Fields
  /\ \A k \in Fields : c[k] # Wrong
  /\ c["protocol"] \in {"TCP", "UDP"} /\ c["mode"] \in {"", "S", "R"}

\* What can be read of the file f is the first n of the lines that config_save writes for c, the
\* last of which may have lost digits of its number.
FragmentTo(f, c, n) ==
  \A k \in Fields :
    /\ k \in DOMAIN Layer(f) <=> k \in DOMAIN SavedTable(c) /\ LineNumber[k] <= n
    /\ k \in DOMAIN Layer(f) =>
         \/ Layer(f)[k] = Line(k, c[k])
         \/ LineNumber[k] = n /\ k \in NumberFields /\ Layer(f)[k] \in Cuts(c[k])

Fragment(f, c) == \E n \in 0 .. LastLine : FragmentTo(f, c, n)

PcOK ==
  /\ pc \in [Programs -> {"off", "copy", "fill", "read", "options", "running", "save", "transfer"}]
  /\ after \in [Programs -> {"off", "running"}]

AllSound == cfg = [p \in Programs |-> cfg[p]] /\ \A p \in Programs : Sound(cfg[p])

PicksSound == picked # Wrong /\ active \in TextField \union {None}

\* A file that is being saved undisturbed is empty, and belongs to one program alone.
SavingAlone ==
  \A p \in Programs : pc[p] = "save" /\ saved # None =>
    /\ saved = cfg[p] /\ usr = Empty
    /\ \A q \in Programs \ {p} : pc[q] \notin {"fill", "save"}

\* What the history says of the file is so.
FileIsSaved ==
  /\ saved # None => Sound(saved) /\ Fragment(usr, saved)
  /\ whole => /\ saved # None /\ usr = Good(SavedTable(saved))
              /\ \A p \in Programs : pc[p] \notin {"fill", "save"}

IInv == PcOK /\ AllSound /\ PicksSound /\ SavingAlone /\ FileIsSaved

-----------------------------------------------------------------------------
(* Tables.                                                                 *)

LEMMA SomeFields ==
  /\ "protocol" \in Fields /\ "mode" \in Fields /\ "log_file" \in Fields
  /\ {"auto_accept", "show_progress", "discovery_enabled", "port"} \subseteq Fields
BY DEF Fields, Defaults

LEMMA DefaultsSound == Sound(Defaults)
<1>1. DOMAIN Defaults = Fields
  BY DEF Fields
<1>2. Defaults["protocol"] = "TCP" /\ Defaults["mode"] = ""
  BY DEF Defaults
<1>3. QED
  BY <1>1, <1>2, WrongAssumption DEF Sound

LEMMA NormalSound ==
  ASSUME NEW k, NEW v, v # Wrong
  PROVE  /\ Normal(k, v) # Wrong
         /\ k = "protocol" => Normal(k, v) \in {"TCP", "UDP"}
         /\ k = "mode" => Normal(k, v) \in {"S", "R"}
BY WrongAssumption DEF Normal

LEMMA ToldSound ==
  ASSUME NEW k, NEW v, v # Wrong
  PROVE  /\ Told(k, v) # Wrong
         /\ k = "protocol" => Told(k, v) \in {"TCP", "UDP"}
         /\ k = "mode" => Told(k, v) \in {"S", "R"}
BY NormalSound, WrongAssumption DEF Told

\* Whatever a table holds, applying it keeps a configuration sound.
LEMMA ApplySound ==
  ASSUME NEW c, Sound(c), NEW t
  PROVE  Sound(Apply(c, t))
<1>1. DOMAIN Apply(c, t) = Fields
  BY DEF Apply
<1>2. ASSUME NEW k \in Fields
      PROVE  /\ Apply(c, t)[k] # Wrong
             /\ k = "protocol" => Apply(c, t)[k] \in {"TCP", "UDP"}
             /\ k = "mode" => Apply(c, t)[k] \in {"", "S", "R"}
  <2>1. CASE k \in DOMAIN t /\ Understood(k, t[k])
    BY <2>1, NormalSound DEF Apply, Understood
  <2>2. CASE ~(k \in DOMAIN t /\ Understood(k, t[k]))
    BY <2>2 DEF Apply, Sound
  <2>3. QED
    BY <2>1, <2>2
<1>3. QED
  BY <1>1, <1>2, SomeFields DEF Sound

\* A value of a sound configuration is understood as itself, but for a mode that is not set.
LEMMA SoundIsUnderstood ==
  ASSUME NEW c, Sound(c), NEW k \in Fields
  PROVE  /\ Normal(k, c[k]) = c[k] \/ (k = "mode" /\ c[k] = "")
         /\ Understood(k, c[k]) \/ (k = "mode" /\ c[k] = "")
         /\ k = "mode" /\ c[k] = "" => ~Understood(k, c[k])
BY DEF Sound, Normal, Understood

LEMMA SavedTableIs ==
  ASSUME NEW c, Sound(c)
  PROVE  /\ DOMAIN SavedTable(c) = {k \in Fields : k = "log_file" => c[k] # ""}
         /\ \A k \in DOMAIN SavedTable(c) : SavedTable(c)[k] = c[k]
BY DEF SavedTable, Only, Sound

\* Loading all the lines that were saved gives what was saved.
LEMMA LoadSaved ==
  ASSUME NEW c, Sound(c), NEW b, Sound(b), NEW k \in Fields
  PROVE  Apply(b, SavedTable(c))[k] =
           IF k \in {"mode", "log_file"} /\ c[k] = "" THEN b[k] ELSE c[k]
<1> DEFINE t == SavedTable(c)
<1>1. k \in DOMAIN t <=> (k = "log_file" => c[k] # "")
  BY SavedTableIs
<1>2. k \in DOMAIN t => t[k] = c[k]
  BY SavedTableIs
<1>3. Apply(b, t)[k] = IF k \in DOMAIN t /\ Understood(k, t[k]) THEN Normal(k, t[k]) ELSE b[k]
  BY DEF Apply
<1> HIDE DEF t
<1>4. CASE k \in DOMAIN t
  BY <1>1, <1>2, <1>3, <1>4, SoundIsUnderstood DEF t
<1>5. CASE k \notin DOMAIN t
  BY <1>1, <1>3, <1>5 DEF t
<1>6. QED
  BY <1>4, <1>5

LEMMA LineNumbers == \A k \in Fields : LineNumber[k] \in Int /\ 0 < LineNumber[k] /\ LineNumber[k] <= LastLine
BY DEF Fields, Defaults, LineNumber, LastLine

LEMMA LineRange == \A n \in 0 .. LastLine : n \in Int
BY DEF LastLine

LEMMA FieldKinds ==
  /\ NumberFields \subseteq Fields /\ TextFields \subseteq Fields
  /\ "mode" \notin NumberFields /\ "protocol" \notin NumberFields
  /\ "mode" \notin TextFields /\ "protocol" \notin TextFields
  /\ "log_file" \notin NumberFields /\ "log_file" \in TextFields
BY DEF Fields, Defaults, NumberFields, TextFields

\* A line of a text is read as some text; any other line is read as it is written.
LEMMA LineIs ==
  ASSUME NEW c, Sound(c), NEW k \in Fields
  PROVE  /\ Line(k, c[k]) # Wrong
         /\ k \notin TextFields => Line(k, c[k]) = c[k]
         /\ Readable(c) => Line(k, c[k]) = c[k]
         /\ Normal(k, Line(k, c[k])) = Line(k, c[k]) \/ (k = "mode" /\ c[k] = "")
         /\ Understood(k, Line(k, c[k])) \/ (k = "mode" /\ c[k] = "")
<1>1. CASE k \in TextFields
  <2>1. k # "mode" /\ k # "protocol"
    BY <1>1, FieldKinds
  <2>2. Line(k, c[k]) # Wrong
    BY WrongAssumption DEF Line, Sound
  <2>3. Readable(c) => Line(k, c[k]) = c[k]
    BY <1>1 DEF Line, Readable
  <2>4. QED
    BY <1>1, <2>1, <2>2, <2>3 DEF Normal, Understood
<1>2. CASE k \notin TextFields
  <2>1. Line(k, c[k]) = c[k]
    BY <1>2 DEF Line
  <2>2. QED
    BY <1>2, <2>1, SoundIsUnderstood DEF Sound
<1>3. QED
  BY <1>1, <1>2

\* A number that has been cut is a number.
LEMMA CutIs ==
  ASSUME NEW k \in NumberFields, NEW v, NEW n \in Cuts(v)
  PROVE  n # Wrong /\ Understood(k, n) /\ Normal(k, n) = n
<1>1. n \in Int
  BY DEF Cuts
<1>2. n # Wrong
  BY <1>1, WrongAssumption
<1>3. k # "mode" /\ k # "protocol"
  BY FieldKinds
<1>4. QED
  BY <1>2, <1>3 DEF Understood, Normal

\* What a whole line of a save of c makes of field k of b.
Kept(b, c, k) == IF k \in {"mode", "log_file"} /\ c[k] = "" THEN b[k] ELSE Line(k, c[k])

\* Loading the first lines of a save gives what they hold, and changes nothing else.
LEMMA LoadFragment ==
  ASSUME NEW c, Sound(c), NEW b, Sound(b), NEW f, NEW n \in Int, FragmentTo(f, c, n),
         NEW k \in Fields
  PROVE  /\ LineNumber[k] < n => Apply(b, Layer(f))[k] = Kept(b, c, k)
         /\ LineNumber[k] = n =>
              \/ Apply(b, Layer(f))[k] = Kept(b, c, k)
              \/ k \in NumberFields /\ Apply(b, Layer(f))[k] \in Cuts(c[k])
         /\ LineNumber[k] > n => Apply(b, Layer(f))[k] = b[k]
<1> DEFINE t == Layer(f)
           m == LineNumber[k]
           new == Apply(b, t)[k]
           kept == Kept(b, c, k)
<1>1. m \in Int /\ n \in Int
  BY LineNumbers
<1>2. /\ k \in DOMAIN t <=> (k = "log_file" => c[k] # "") /\ m <= n
      /\ k \in DOMAIN t => t[k] = Line(k, c[k]) \/ (m = n /\ k \in NumberFields /\ t[k] \in Cuts(c[k]))
  BY SavedTableIs DEF FragmentTo
<1>3. new = IF k \in DOMAIN t /\ Understood(k, t[k]) THEN Normal(k, t[k]) ELSE b[k]
  BY DEF Apply
<1> HIDE DEF t, m, new, kept
<1>4. CASE k \notin DOMAIN t
  <2>1. new = b[k]
    BY <1>3, <1>4
  <2>2. ~(m <= n) \/ (k = "log_file" /\ c[k] = "")
    BY ONLY <1>2, <1>4
  <2>3. m <= n => kept = b[k]
    BY ONLY <2>2 DEF kept, Kept
  <2>4. QED
    BY <1>1, <2>1, <2>3 DEF t, m, new, kept
<1>5. CASE k \in DOMAIN t /\ t[k] = Line(k, c[k])
  <2>1. m <= n
    BY <1>2, <1>5
  <2>2. CASE k = "mode" /\ c[k] = ""
    <3>1. t[k] = ""
      BY <1>5, <2>2, LineIs, FieldKinds
    <3>2. new = b[k] /\ kept = b[k]
      BY <1>3, <2>2, <3>1 DEF Understood, kept, Kept
    <3>3. QED
      BY <1>1, <2>1, <3>2 DEF t, m, new, kept
  <2>3. CASE ~(k = "mode" /\ c[k] = "")
    <3>1. new = Line(k, c[k])
      BY <1>3, <1>5, <2>3, LineIs
    <3>2. k = "log_file" => c[k] # ""
      BY <1>2, <1>5
    <3>3. kept = new
      BY <2>3, <3>1, <3>2 DEF kept, Kept
    <3>4. QED
      BY <1>1, <2>1, <3>3 DEF t, m, new, kept
  <2>4. QED
    BY <2>2, <2>3
<1>6. CASE k \in DOMAIN t /\ m = n /\ k \in NumberFields /\ t[k] \in Cuts(c[k])
  <2>1. new \in Cuts(c[k])
    BY <1>3, <1>6, CutIs
  <2>2. QED
    BY <1>1, <1>6, <2>1 DEF t, m, new, kept
<1>7. QED
  BY <1>2, <1>4, <1>5, <1>6

LEMMA EmptyFragment ==
  ASSUME NEW c
  PROVE  Fragment(Empty, c) /\ Fragment(Broken, c)
<1>1. 0 \in 0 .. LastLine
  BY DEF LastLine
<1>2. DOMAIN Layer(Empty) = {} /\ DOMAIN Layer(Broken) = {}
  BY DEF Layer, Empty, Broken, Good
<1>3. \A k \in Fields : ~(LineNumber[k] <= 0)
  BY LineNumbers
<1>4. FragmentTo(Empty, c, 0) /\ FragmentTo(Broken, c, 0)
  BY <1>2, <1>3 DEF FragmentTo
<1>5. QED
  BY <1>1, <1>4 DEF Fragment

LEMMA LinesAre ==
  ASSUME NEW c, Sound(c)
  PROVE  /\ DOMAIN Lines(SavedTable(c)) = DOMAIN SavedTable(c)
         /\ \A k \in DOMAIN SavedTable(c) : Lines(SavedTable(c))[k] = Line(k, c[k])
BY SavedTableIs DEF Lines

\* Texts that can be saved come back as they are.
LEMMA ReadableSaved ==
  ASSUME NEW c, Sound(c), Readable(c)
  PROVE  Saved(c) = {Good(SavedTable(c))}
<1> DEFINE t == SavedTable(c)
<1>1. t = [k \in DOMAIN t |-> t[k]]
  BY DEF SavedTable, Only
<1>2. ASSUME NEW k \in DOMAIN t PROVE Line(k, t[k]) = t[k]
  <2>1. k \in Fields /\ t[k] = c[k]
    BY SavedTableIs
  <2>2. Line(k, c[k]) = c[k]
    BY <2>1, LineIs
  <2>3. QED
    BY <2>1, <2>2
<1>3. Lines(t) = t
  <2> HIDE DEF t
  <2>1. QED
    BY <1>1, <1>2 DEF Lines
<1>4. QED
  BY <1>3 DEF Saved, Written

LEMMA SavedFragment ==
  ASSUME NEW c, Sound(c), NEW f \in Saved(c)
  PROVE  Fragment(f, c)
<1>1. CASE f = Broken
  BY <1>1, EmptyFragment
<1>2. CASE f = Good(Lines(SavedTable(c)))
  <2>1. Layer(f) = Lines(SavedTable(c))
    BY <1>2 DEF Layer, Good
  <2>2. \A k \in DOMAIN SavedTable(c) : LineNumber[k] <= LastLine
    BY LineNumbers, SavedTableIs
  <2>3. FragmentTo(f, c, LastLine)
    BY <2>1, <2>2, LinesAre DEF FragmentTo
  <2>4. LastLine \in 0 .. LastLine
    BY DEF LastLine
  <2>5. QED
    BY <2>3, <2>4 DEF Fragment
<1>3. QED
  BY <1>1, <1>2 DEF Saved, Written

LEMMA FirstLinesAre ==
  ASSUME NEW c, Sound(c), NEW n
  PROVE  /\ \A k \in Fields : k \in DOMAIN FirstLines(c, n) <=>
                                k \in DOMAIN SavedTable(c) /\ LineNumber[k] <= n
         /\ \A k \in DOMAIN FirstLines(c, n) : FirstLines(c, n)[k] = Line(k, c[k])
<1> DEFINE t == Lines(SavedTable(c))
           S == {k \in Fields : LineNumber[k] <= n}
<1>1. FirstLines(c, n) = [k \in DOMAIN t \intersect S |-> t[k]]
  BY DEF FirstLines, Only
<1>2. /\ DOMAIN t = DOMAIN SavedTable(c)
      /\ \A k \in DOMAIN t : t[k] = Line(k, c[k])
  BY LinesAre
<1> HIDE DEF t
<1>3. QED
  BY <1>1, <1>2

LEMMA TornFragment ==
  ASSUME NEW c, Sound(c), NEW f \in Torn(c)
  PROVE  Fragment(f, c)
<1>1. CASE f = Broken
  BY <1>1, EmptyFragment
<1>2. ASSUME NEW n \in 0 .. LastLine, f = Good(FirstLines(c, n))
      PROVE  Fragment(f, c)
  <2>1. Layer(f) = FirstLines(c, n)
    BY <1>2 DEF Layer, Good
  <2>2. FragmentTo(f, c, n)
    BY <2>1, FirstLinesAre DEF FragmentTo
  <2>3. QED
    BY <2>2 DEF Fragment
<1>3. ASSUME NEW j \in NumberFields, NEW v \in Cuts(c[j]),
             f = Good([FirstLines(c, LineNumber[j]) EXCEPT ![j] = v])
      PROVE  Fragment(f, c)
  <2> DEFINE n == LineNumber[j]
             t == FirstLines(c, n)
  <2>1. j \in Fields
    BY FieldKinds
  <2>2. n \in 0 .. LastLine
    BY <2>1, LineNumbers DEF LastLine
  <2>3. Layer(f) = [t EXCEPT ![j] = v]
    BY <1>3 DEF Layer, Good
  <2>4. /\ \A k \in Fields : k \in DOMAIN t <=> k \in DOMAIN SavedTable(c) /\ LineNumber[k] <= n
        /\ \A k \in DOMAIN t : t[k] = Line(k, c[k])
    BY FirstLinesAre
  <2>5. LineNumber[j] = n
    OBVIOUS
  <2> HIDE DEF n, t
  <2>6. FragmentTo(f, c, n)
    BY <1>3, <2>3, <2>4, <2>5 DEF FragmentTo
  <2>7. QED
    BY <2>2, <2>6 DEF Fragment
<1>4. QED
  BY <1>1, <1>2, <1>3 DEF Torn

-----------------------------------------------------------------------------
(* Every step keeps the configurations sound.                              *)

\* One field given a value of its own kind.
LEMMA SetFieldSound ==
  ASSUME NEW c, Sound(c), NEW k, NEW v, v # Wrong,
         k = "protocol" => v \in {"TCP", "UDP"},
         k = "mode" => v \in {"", "S", "R"}
  PROVE  Sound([c EXCEPT ![k] = v])
BY SomeFields DEF Sound

LEMMA PutSound ==
  ASSUME AllSound, NEW f, NEW v, Put(f, v), v # Wrong,
         f = "protocol" => v \in {"TCP", "UDP"},
         f = "mode" => v \in {"", "S", "R"}
  PROVE  AllSound'
<1>1. CASE f \in Fields
  <2>1. cfg' = [cfg EXCEPT !.gui[f] = v]
    BY <1>1 DEF Put
  <2>2. Sound([cfg["gui"] EXCEPT ![f] = v])
    BY SetFieldSound DEF AllSound, Programs
  <2>3. QED
    BY <2>1, <2>2 DEF AllSound, Programs
<1>2. CASE f \notin Fields
  BY <1>2 DEF Put, AllSound
<1>3. QED
  BY <1>1, <1>2

LEMMA NewCfgSound ==
  ASSUME AllSound, NEW p \in Programs, NEW c, Sound(c), cfg' = [cfg EXCEPT ![p] = c]
  PROVE  AllSound'
BY DEF AllSound

LEMMA SoundStep ==
  ASSUME IInv, Next
  PROVE  AllSound' /\ PicksSound'
<1> USE DEF IInv, gui
<1>1. ASSUME NEW p \in Programs,
             Start(p) \/ CopyOpen(p) \/ CopyFill(p) \/ Read(p) \/ SaveWrite(p) \/ Crash(p)
      PROVE  AllSound' /\ PicksSound'
  <2>1. CASE Start(p)
    <3>1. Sound(Apply(Defaults, Layer(sys)))
      BY DefaultsSound, ApplySound
    <3>2. AllSound'
      BY <2>1, <3>1, NewCfgSound DEF Start
    <3>3. PicksSound'
      BY <2>1, WrongAssumption DEF Start, PicksSound
    <3>4. QED
      BY <3>2, <3>3
  <2>2. CASE CopyOpen(p)  BY <2>2 DEF CopyOpen, AllSound, PicksSound
  <2>3. CASE CopyFill(p)  BY <2>3 DEF CopyFill, AllSound, PicksSound
  <2>4. CASE Read(p)
    <3>1. Sound(Loaded(cfg[p]))
      BY ApplySound DEF Loaded, AllSound
    <3>2. cfg' = [cfg EXCEPT ![p] = Loaded(cfg[p])] /\ UNCHANGED <<picked, active>>
      BY <2>4 DEF Read
    <3>3. QED
      BY <3>1, <3>2, NewCfgSound DEF PicksSound
  <2>5. CASE SaveWrite(p) BY <2>5 DEF SaveWrite, AllSound, PicksSound
  <2>6. CASE Crash(p)     BY <2>6 DEF Crash, AllSound, PicksSound
  <2>7. QED
    BY <1>1, <2>1, <2>2, <2>3, <2>4, <2>5, <2>6
<1>2. CASE Option
  <2>0. PICK k \in Optional : \E v \in Options(k) : cfg' = [cfg EXCEPT !.cli[k] = Told(k, v)]
    BY <1>2 DEF Option
  <2>1. PICK v \in Options(k) : cfg' = [cfg EXCEPT !.cli[k] = Told(k, v)]
    BY <2>0
  <2>2. k \in Fields /\ v # Wrong
    BY WrongAssumption DEF Optional, Options
  <2>3. Sound([cfg["cli"] EXCEPT ![k] = Told(k, v)])
    BY <2>2, ToldSound, SetFieldSound DEF AllSound, Programs
  <2>4. cfg' = [cfg EXCEPT !["cli"] = [cfg["cli"] EXCEPT ![k] = Told(k, v)]]
    BY <2>1
  <2>5. QED
    BY <1>2, <2>3, <2>4, NewCfgSound DEF Option, PicksSound, Programs
<1>3. CASE Profile
  <2>1. Sound(Apply(cfg["cli"], Layer(profile)))
    BY ApplySound DEF AllSound, Programs
  <2>2. QED
    BY <1>3, <2>1, NewCfgSound DEF Profile, PicksSound, Programs
<1>4. CASE Click
  <2>0. PICK f \in DOMAIN Button : \E v \in Button[f] \intersect Choices[f] : Put(f, v)
    BY <1>4 DEF Click
  <2>1. PICK v \in Button[f] \intersect Choices[f] : Put(f, v)
    BY <2>0
  <2>2. f \in Fields \union DOMAIN NoPage
    BY DEF Button, NoPage, Fields, Defaults
  <2>3. v # Wrong
    BY <2>2, WrongAssumption
  <2>4. (f = "protocol" => v \in {"TCP", "UDP"}) /\ (f = "mode" => v \in {"", "S", "R"})
    <3>1. v \in Button[f]
      BY <2>1
    <3>2. Button["protocol"] = {"TCP", "UDP"} /\ Button["mode"] = {"S", "R"}
      BY DEF Button
    <3>3. QED
      BY <3>1, <3>2
  <2>5. QED
    BY <1>4, <2>1, <2>3, <2>4, PutSound DEF Click, PicksSound
<1>5. CASE Key
  <2>1. PICK v \in Choices[active] : Put(active, v)
    BY <1>5 DEF Key
  <2>2. active \in TextField
    BY <1>5 DEF Key, PicksSound
  <2>3. active \in Fields \union DOMAIN NoPage /\ active # "protocol" /\ active # "mode"
    BY <2>2 DEF TextField, Button, NoPage
  <2>4. v # Wrong
    BY <2>3, WrongAssumption
  <2>5. QED
    BY <1>5, <2>1, <2>3, <2>4, PutSound DEF Key, PicksSound
<1>6. CASE PickDevice
  <2>1. PICK v \in Choices["send_target_ip"] : Put("send_target_ip", v)
    BY <1>6 DEF PickDevice
  <2>2. "send_target_ip" \in DOMAIN NoPage
    BY DEF NoPage
  <2>3. v # Wrong
    BY <2>2, WrongAssumption
  <2>4. QED
    BY <1>6, <2>1, <2>3, PutSound DEF PickDevice, PicksSound
<1>7. CASE DialogEnds
  <2>1. Dialogs \subseteq Fields \union DOMAIN NoPage
    BY DEF Dialogs, NoPage, Fields, Defaults
  <2>2. QED
    BY <1>7, <2>1, WrongAssumption DEF DialogEnds, AllSound, PicksSound
<1>8. CASE DialogResult
  <2>1. PICK d \in Dialogs :
               IF dialog[d] = "answered" THEN Put(d, picked) ELSE UNCHANGED <<cfg, page>>
    BY <1>8 DEF DialogResult
  <2>2. CASE Put(d, picked)
    BY <1>8, <2>2, PutSound DEF DialogResult, PicksSound, Dialogs
  <2>3. CASE UNCHANGED <<cfg, page>>
    BY <1>8, <2>3 DEF DialogResult, PicksSound, AllSound
  <2>4. QED
    BY <2>1, <2>2, <2>3
<1>9. CASE SaveConfig \/ GuiSave \/ ShowConfig \/ Begin \/ End \/ Focus \/ Browse \/ Frame \/ Edit
  BY <1>9 DEF SaveConfig, GuiSave, ShowConfig, Begin, End, Focus, Browse, Frame, Edit,
              AllSound, PicksSound
<1>10. QED
  BY <1>1, <1>2, <1>3, <1>4, <1>5, <1>6, <1>7, <1>8, <1>9 DEF Next

-----------------------------------------------------------------------------
(* Every step keeps the history true of the file.                          *)

FileInv == SavingAlone /\ FileIsSaved

LEMMA FileUntouched ==
  ASSUME FileInv, PcOK, AllSound, UNCHANGED <<usr, saved, whole>>,
         \A p \in Programs : pc'[p] = pc[p] \/ pc'[p] \notin {"fill", "save"},
         \A p \in Programs : pc[p] = "save" /\ pc'[p] = "save" => cfg'[p] = cfg[p]
  PROVE  FileInv'
BY DEF FileInv, SavingAlone, FileIsSaved, Fragment, FragmentTo, Layer, PcOK

\* config_save.
LEMMA SaveFile ==
  ASSUME FileInv, PcOK, AllSound, NEW p \in Programs, NEW next \in {"off", "running"},
         Save(p, next), UNCHANGED cfg, pc[p] \notin {"fill", "save"}
  PROVE  FileInv' /\ PcOK'
<1>1. CASE /\ Goto(p, "save") /\ after' = [after EXCEPT ![p] = next]
           /\ usr' = Empty /\ whole' = FALSE
           /\ saved' = IF OthersWrite(p) THEN None ELSE cfg[p]
  <2>1. PcOK'
    BY <1>1 DEF PcOK, Goto
  <2>2. saved' # None => Sound(saved') /\ Fragment(usr', saved')
    BY <1>1, EmptyFragment DEF AllSound
  <2>3. saved' # None => \A q \in Programs \ {p} : pc'[q] \notin {"fill", "save"}
    BY <1>1 DEF OthersWrite, Goto, PcOK
  <2>4. pc'[p] = "save"
    BY <1>1 DEF Goto, PcOK
  <2>5. SavingAlone'
    BY <1>1, <2>3, <2>4 DEF SavingAlone
  <2>6. FileIsSaved'
    BY <1>1, <2>2 DEF FileIsSaved, Fragment, FragmentTo, Layer
  <2>7. QED
    BY <2>1, <2>5, <2>6 DEF FileInv
<1>2. CASE Goto(p, next) /\ UNCHANGED <<usr, after, saved, whole>>
  <2>1. PcOK'
    BY <1>2 DEF PcOK, Goto
  <2>2. \A q \in Programs : pc'[q] = pc[q] \/ pc'[q] \notin {"fill", "save"}
    BY <1>2 DEF PcOK, Goto
  <2>3. QED
    BY <1>2, <2>1, <2>2, FileUntouched
<1>3. QED
  BY <1>1, <1>2 DEF Save

LEMMA SaveWriteFile ==
  ASSUME FileInv, PcOK, AllSound, NEW p \in Programs, SaveWrite(p)
  PROVE  FileInv' /\ PcOK'
<1>1. /\ PcOK' /\ pc[p] = "save" /\ pc' = [pc EXCEPT ![p] = after[p]]
      /\ saved' = saved /\ cfg' = cfg
  BY DEF SaveWrite, Goto, PcOK
<1>2. CASE saved = None
  <2>1. ~whole'
    BY <1>2 DEF SaveWrite, FileInv, FileIsSaved
  <2>2. QED
    BY <1>1, <1>2, <2>1 DEF FileInv, SavingAlone, FileIsSaved
<1>3. CASE saved # None
  <2>1. /\ saved = cfg[p] /\ usr = Empty /\ ~whole
        /\ \A q \in Programs : pc'[q] \notin {"fill", "save"}
    BY <1>1, <1>3 DEF FileInv, SavingAlone, FileIsSaved, PcOK
  <2>2. CASE /\ \E f \in Saved(cfg[p]) : Overlay(f)
             /\ whole' = (saved # None /\ Readable(cfg[p]))
    <3>1. PICK f \in Saved(cfg[p]) : Overlay(f)
      BY <2>2
    <3>2. usr' = f /\ Sound(saved)
      BY <2>1, <3>1 DEF Overlay, AllSound
    <3>3. Fragment(usr', saved')
      BY <1>1, <2>1, <3>2, SavedFragment
    <3>4. whole' => usr' = Good(SavedTable(saved'))
      BY <1>1, <2>1, <2>2, <3>2, ReadableSaved
    <3>5. SavingAlone'
      BY <2>1 DEF SavingAlone
    <3>6. FileIsSaved'
      BY <1>1, <1>3, <2>1, <3>2, <3>3, <3>4 DEF FileIsSaved, Fragment, FragmentTo, Layer
    <3>7. QED
      BY <1>1, <3>5, <3>6 DEF FileInv
  <2>3. CASE whole' = whole /\ \E f \in Torn(cfg[p]) : Overlay(f)
    <3>1. PICK f \in Torn(cfg[p]) : Overlay(f)
      BY <2>3
    <3>2. usr' = f /\ Sound(saved)
      BY <2>1, <3>1 DEF Overlay, AllSound
    <3>3. Fragment(usr', saved')
      BY <1>1, <2>1, <3>2, TornFragment
    <3>4. Sound(saved')
      BY <1>1, <3>2 DEF AllSound
    <3>5. SavingAlone' /\ ~whole'
      BY <2>1, <2>3 DEF SavingAlone
    <3>6. FileIsSaved'
      BY <3>3, <3>4, <3>5 DEF FileIsSaved, Fragment, FragmentTo, Layer
    <3>7. QED
      BY <1>1, <3>5, <3>6 DEF FileInv
  <2>4. QED
    BY <2>2, <2>3 DEF SaveWrite
<1>4. QED
  BY <1>2, <1>3

\* Whoever else writes the file ends the history.
LEMMA HistoryEnds ==
  ASSUME saved' = None, whole' = FALSE
  PROVE  FileInv'
BY DEF FileInv, SavingAlone, FileIsSaved

LEMMA FileStep ==
  ASSUME IInv, Next
  PROVE  FileInv' /\ PcOK'
<1> USE DEF IInv
<1>0. FileInv
  BY DEF FileInv
<1>1. ASSUME NEW p \in Programs,
             Start(p) \/ CopyOpen(p) \/ CopyFill(p) \/ Read(p) \/ SaveWrite(p) \/ Crash(p)
      PROVE  FileInv' /\ PcOK'
  <2>1. CASE Start(p)
    <3>1. /\ pc' \in [Programs -> {"off", "copy", "fill", "read", "options", "running", "save", "transfer"}]
          /\ \A q \in Programs : pc'[q] = pc[q] \/ pc'[q] \in {"copy", "read"}
          /\ UNCHANGED <<usr, after, saved, whole>>
      BY <2>1 DEF Start, Goto, PcOK, files
    <3>2. \A q \in Programs : pc'[q] = "save" => cfg'[q] = cfg[q]
      BY <2>1 DEF Start, Goto, PcOK, AllSound
    <3>3. QED
      BY <1>0, <3>1, <3>2, FileUntouched DEF PcOK
  <2>2. CASE CopyOpen(p)
    BY <2>2, HistoryEnds DEF CopyOpen, Goto, PcOK
  <2>3. CASE CopyFill(p)
    BY <2>3, HistoryEnds DEF CopyFill, Goto, PcOK
  <2>4. CASE Read(p)
    <3>1. /\ pc' \in [Programs -> {"off", "copy", "fill", "read", "options", "running", "save", "transfer"}]
          /\ \A q \in Programs : pc'[q] = pc[q] \/ pc'[q] \in {"options", "running"}
          /\ UNCHANGED <<usr, after, saved, whole>>
      BY <2>4 DEF Read, Goto, PcOK, files
    <3>2. \A q \in Programs : pc'[q] = "save" => cfg'[q] = cfg[q]
      BY <2>4 DEF Read, Goto, PcOK, AllSound
    <3>3. QED
      BY <1>0, <3>1, <3>2, FileUntouched DEF PcOK
  <2>5. CASE SaveWrite(p)
    BY <1>0, <2>5, SaveWriteFile
  <2>6. CASE Crash(p)
    <3>1. PcOK' /\ UNCHANGED <<usr, cfg, saved, whole>>
      BY <2>6 DEF Crash, Goto, PcOK, files, ghosts
    <3>2. \A q \in Programs : pc'[q] = pc[q] \/ pc'[q] \notin {"fill", "save"}
      BY <2>6 DEF Crash, Goto, PcOK
    <3>3. QED
      BY <1>0, <3>1, <3>2, FileUntouched
  <2>7. QED
    BY <1>1, <2>1, <2>2, <2>3, <2>4, <2>5, <2>6
<1>2. CASE Option \/ Profile
  <2>1. /\ UNCHANGED <<usr, pc, after, saved, whole>>
        /\ \A q \in Programs : pc[q] = "save" => cfg'[q] = cfg[q]
    BY <1>2 DEF Option, Profile, files, PcOK, AllSound, Programs
  <2>2. QED
    BY <1>0, <2>1, FileUntouched DEF PcOK
<1>3. CASE SaveConfig
  BY <1>0, <1>3, SaveFile DEF SaveConfig, Programs
<1>4. CASE GuiSave
  BY <1>0, <1>4, SaveFile DEF GuiSave, Programs, Running
<1>5. CASE ShowConfig \/ Begin \/ End
  <2>1. PcOK' /\ UNCHANGED <<usr, cfg, saved, whole>>
    BY <1>5 DEF ShowConfig, Begin, End, Goto, PcOK, files, ghosts
  <2>2. \A q \in Programs : pc'[q] = pc[q] \/ pc'[q] \notin {"fill", "save"}
    BY <1>5 DEF ShowConfig, Begin, End, Goto, PcOK
  <2>3. QED
    BY <1>0, <2>1, <2>2, FileUntouched
<1>6. CASE Click \/ Key \/ PickDevice \/ DialogResult
  <2>1. /\ UNCHANGED <<usr, pc, after, saved, whole>>
        /\ \A q \in Programs : pc[q] = "save" => cfg'[q] = cfg[q]
    BY <1>6 DEF Click, Key, PickDevice, DialogResult, Put, Running, files, ghosts, PcOK,
                AllSound, Programs
  <2>2. QED
    BY <1>0, <2>1, FileUntouched DEF PcOK
<1>7. CASE Focus \/ Browse \/ DialogEnds \/ Frame
  <2>1. UNCHANGED <<usr, pc, after, cfg, saved, whole>>
    BY <1>7 DEF Focus, Browse, DialogEnds, Frame, files, ghosts
  <2>2. QED
    BY <1>0, <2>1, FileUntouched DEF PcOK
<1>8. CASE Edit
  <2>1. UNCHANGED <<pc, after, cfg>>
    BY <1>8 DEF Edit
  <2>2. CASE UNCHANGED <<usr, saved, whole>>
    BY <1>0, <2>1, <2>2, FileUntouched DEF PcOK
  <2>3. CASE saved' = None /\ whole' = FALSE
    BY <2>1, <2>3, HistoryEnds DEF PcOK
  <2>4. QED
    BY <1>8, <2>2, <2>3 DEF Edit
<1>9. QED
  BY <1>1, <1>2, <1>3, <1>4, <1>5, <1>6, <1>7, <1>8 DEF Next

LEMMA InitIInv == Init => IInv
<1> SUFFICES ASSUME Init PROVE IInv
  OBVIOUS
<1>1. PcOK /\ PicksSound
  BY WrongAssumption DEF Init, PcOK, PicksSound
<1>2. AllSound
  BY DefaultsSound DEF Init, AllSound
<1>3. SavingAlone /\ FileIsSaved
  BY DEF Init, SavingAlone, FileIsSaved
<1>4. QED
  BY <1>1, <1>2, <1>3 DEF IInv

LEMMA StutterIInv ==
  ASSUME IInv, UNCHANGED vars
  PROVE  IInv'
BY DEF IInv, vars, files, gui, ghosts, PcOK, AllSound, PicksSound, SavingAlone, FileIsSaved,
       Fragment, FragmentTo, Layer

THEOREM Invariance == Spec => []IInv
<1>1. IInv /\ [Next]_vars => IInv'
  <2>1. ASSUME IInv, Next PROVE IInv'
    BY <2>1, SoundStep, FileStep DEF IInv, FileInv
  <2>2. QED
    BY <2>1, StutterIInv
<1>2. QED
  BY InitIInv, <1>1, PTL DEF Spec

-----------------------------------------------------------------------------
(* What was saved comes back, and nothing else does.                       *)

\* A program that loads the user's file applies what is in it.
LEMMA LoadsFile ==
  ASSUME IInv, Next, NEW p \in Programs, Loads(p)
  PROVE  cfg'[p] = Apply(cfg[p], Layer(usr))
<1> USE DEF IInv
<1>1. ASSUME NEW q \in Programs, q # p,
             Start(q) \/ CopyOpen(q) \/ CopyFill(q) \/ Read(q) \/ SaveWrite(q) \/ Crash(q)
      PROVE  FALSE
  BY <1>1 DEF Start, CopyOpen, CopyFill, Read, SaveWrite, Crash, Goto, PcOK, Loads
<1>2. CASE Start(p) \/ CopyOpen(p) \/ CopyFill(p) \/ SaveWrite(p) \/ Crash(p)
  BY <1>2 DEF Start, CopyOpen, CopyFill, SaveWrite, Crash, Goto, PcOK, Loads
<1>3. CASE Read(p)
  BY <1>3 DEF Read, Loaded, AllSound
<1>4. CASE Option \/ Profile \/ SaveConfig \/ ShowConfig \/ Begin \/ End
  BY <1>4 DEF Option, Profile, SaveConfig, Save, ShowConfig, Begin, End, Goto, PcOK, Loads
<1>5. CASE Click \/ Focus \/ Key \/ PickDevice \/ Browse \/ DialogEnds \/ DialogResult \/ Frame
             \/ Edit
  BY <1>5 DEF Click, Focus, Key, PickDevice, Browse, DialogEnds, DialogResult, Frame, Edit, Loads
<1>6. CASE GuiSave
  BY <1>6 DEF GuiSave, Save, Running, Goto, PcOK, Loads
<1>7. QED
  BY <1>1, <1>2, <1>3, <1>4, <1>5, <1>6 DEF Next

\* The last save, completed and left alone, is what the next program starts with
\* (config.c:236-287, 307-356).
THEOREM SavesComeBack == Spec => SavedComesBack
<1>1. ASSUME IInv, [Next]_vars, NEW p \in Programs, Loads(p), whole, NEW k \in Fields
      PROVE  cfg'[p][k] = IF k \in {"mode", "log_file"} /\ saved[k] = "" THEN cfg[p][k] ELSE saved[k]
  <2>1. Next
    BY <1>1 DEF vars, Loads
  <2>2. cfg'[p] = Apply(cfg[p], Layer(usr))
    BY <1>1, <2>1, LoadsFile
  <2>3. Layer(usr) = SavedTable(saved)
    BY <1>1 DEF IInv, FileIsSaved, Layer, Good
  <2>4. Sound(saved) /\ Sound(cfg[p])
    BY <1>1 DEF IInv, FileIsSaved, AllSound
  <2>5. Apply(cfg[p], SavedTable(saved))[k] =
          IF k \in {"mode", "log_file"} /\ saved[k] = "" THEN cfg[p][k] ELSE saved[k]
    BY <2>4, LoadSaved
  <2>6. QED
    BY <2>2, <2>3, <2>5
<1>2. IInv /\ [Next]_vars =>
        [\A p \in Programs : Loads(p) /\ whole =>
           \A k \in Fields :
             cfg'[p][k] = IF k \in {"mode", "log_file"} /\ saved[k] = "" THEN cfg[p][k] ELSE saved[k]]_vars
  BY <1>1
<1>3. QED
  BY Invariance, <1>2, PTL DEF Spec, SavedComesBack

\* Of a save that was cut short the first lines come back, the last of them perhaps with a number
\* that lost its last digits, and all else is the administrator's: nothing comes back of the
\* configuration that the save replaced (config.c:316-351).
THEOREM TornSavesMixNothing == Spec => NothingOldComesBack
<1> DEFINE Mixes(p, n) ==
             \A k \in Fields :
               /\ LineNumber[k] < n => cfg'[p][k] = Kept(cfg[p], saved, k)
               /\ LineNumber[k] = n =>
                    cfg'[p][k] = Kept(cfg[p], saved, k) \/ (k \in NumberFields /\ cfg'[p][k] \in Cuts(saved[k]))
               /\ LineNumber[k] > n => cfg'[p][k] = cfg[p][k]
<1>1. ASSUME IInv, [Next]_vars, NEW p \in Programs, Loads(p), saved # None
      PROVE  \E n \in 0 .. LastLine : Mixes(p, n)
  <2>1. Next
    BY <1>1 DEF vars, Loads
  <2>2. cfg'[p] = Apply(cfg[p], Layer(usr))
    BY <1>1, <2>1, LoadsFile
  <2>3. Sound(saved) /\ Fragment(usr, saved) /\ Sound(cfg[p])
    BY <1>1 DEF IInv, FileIsSaved, AllSound
  <2>4. PICK n \in 0 .. LastLine : FragmentTo(usr, saved, n)
    BY <2>3 DEF Fragment
  <2>5. ASSUME NEW k \in Fields
        PROVE  /\ LineNumber[k] < n => cfg'[p][k] = Kept(cfg[p], saved, k)
               /\ LineNumber[k] = n =>
                    cfg'[p][k] = Kept(cfg[p], saved, k) \/ (k \in NumberFields /\ cfg'[p][k] \in Cuts(saved[k]))
               /\ LineNumber[k] > n => cfg'[p][k] = cfg[p][k]
    <3>1. /\ LineNumber[k] < n => Apply(cfg[p], Layer(usr))[k] = Kept(cfg[p], saved, k)
          /\ LineNumber[k] = n =>
               \/ Apply(cfg[p], Layer(usr))[k] = Kept(cfg[p], saved, k)
               \/ k \in NumberFields /\ Apply(cfg[p], Layer(usr))[k] \in Cuts(saved[k])
          /\ LineNumber[k] > n => Apply(cfg[p], Layer(usr))[k] = cfg[p][k]
      BY <2>3, <2>4, LineRange, LoadFragment
    <3>2. QED
      BY <2>2, <3>1
  <2>6. Mixes(p, n)
    BY <2>5
  <2>7. QED
    BY <2>6
<1>2. IInv /\ [Next]_vars =>
        [\A p \in Programs : Loads(p) /\ saved # None => \E n \in 0 .. LastLine : Mixes(p, n)]_vars
  BY <1>1
<1>3. QED
  BY Invariance, <1>2, PTL DEF Spec, NothingOldComesBack, Kept

-----------------------------------------------------------------------------
(* What the layers amount to.                                              *)

IsSeq(ls) == \E S : ls \in Seq(S)

LEMMA AppendIs ==
  ASSUME NEW ls, IsSeq(ls), NEW t
  PROVE  /\ Len(ls) \in Nat /\ DOMAIN ls = 1 .. Len(ls)
         /\ IsSeq(Append(ls, t)) /\ DOMAIN Append(ls, t) = 1 .. Len(ls) + 1
         /\ \A i \in 1 .. Len(ls) : Append(ls, t)[i] = ls[i]
         /\ Append(ls, t)[Len(ls) + 1] = t
<1>1. PICK S : ls \in Seq(S)
  BY DEF IsSeq
<1> DEFINE U == S \union {t}
<1>2. ls \in Seq(U) /\ t \in U
  <2>1. ls \in [1 .. Len(ls) -> S] /\ Len(ls) \in Nat
    BY <1>1
  <2>2. ls \in [1 .. Len(ls) -> U]
    BY <2>1
  <2>3. QED
    BY <2>1, <2>2
<1> HIDE DEF U
<1>3. Append(ls, t) \in Seq(U) /\ Len(Append(ls, t)) = Len(ls) + 1
  BY <1>2, AppendProperties
<1>4. QED
  BY <1>2, <1>3, AppendProperties DEF IsSeq

LEMMA SameAppended ==
  ASSUME NEW ls, IsSeq(ls), NEW t, NEW u, Append(ls, t) = Append(ls, u)
  PROVE  t = u
BY AppendIs

LEMMA LargestOf ==
  ASSUME NEW n \in Nat, NEW T \in SUBSET (1 .. n), T # {}
  PROVE  \E m \in T : \A i \in T : i <= m
<1> DEFINE D == {n - i : i \in T}
<1>1. D \in SUBSET Nat /\ D # {}
  <2>1. \A i \in T : n - i \in Nat
    OBVIOUS
  <2>2. QED
    BY <2>1
<1>2. PICK d \in D : \A e \in D : <<e, d>> \notin OpToRel(<, Nat)
  BY <1>1, WFMin, NatLessThanWellFounded
<1>3. \A e \in D : ~(e < d)
  BY <1>1, <1>2 DEF OpToRel
<1>4. PICK m \in T : d = n - m
  OBVIOUS
<1>5. \A i \in T : ~(n - i < n - m)
  BY <1>3, <1>4
<1>6. QED
  BY <1>5

\* The layers that say something of the field k.
Says(k, ls) == {i \in DOMAIN ls : k \in DOMAIN ls[i] /\ Understood(k, ls[i][k])}

Last(k, ls) == CHOOSE i \in Says(k, ls) : \A j \in Says(k, ls) : j <= i

LEMMA EffectiveIs ==
  ASSUME NEW ls
  PROVE  /\ DOMAIN Effective(ls) = Fields
         /\ \A k \in Fields : Effective(ls)[k] =
              IF Says(k, ls) = {} THEN Defaults[k] ELSE Normal(k, ls[Last(k, ls)][k])
BY DEF Effective, Says, Last

LEMMA LastSays ==
  ASSUME NEW ls, IsSeq(ls), NEW k, Says(k, ls) # {}
  PROVE  Last(k, ls) \in Says(k, ls)
<1>1. Len(ls) \in Nat /\ Says(k, ls) \in SUBSET (1 .. Len(ls))
  BY AppendIs DEF Says
<1>2. \E m \in Says(k, ls) : \A j \in Says(k, ls) : j <= m
  BY <1>1, LargestOf
<1>3. QED
  BY <1>2 DEF Last

\* A new layer is applied to what the layers under it amount to.
LEMMA EffectiveAppend ==
  ASSUME NEW ls, IsSeq(ls), NEW t
  PROVE  Effective(Append(ls, t)) = Apply(Effective(ls), t)
<1> DEFINE n == Len(ls)
           more == Append(ls, t)
<1>1. /\ n \in Nat /\ DOMAIN ls = 1 .. n /\ DOMAIN more = 1 .. n + 1
      /\ \A i \in 1 .. n : more[i] = ls[i]
      /\ more[n + 1] = t
  BY AppendIs
<1> HIDE DEF n, more
<1>2. ASSUME NEW k \in Fields
      PROVE  Effective(more)[k] = Apply(Effective(ls), t)[k]
  <2>1. CASE k \in DOMAIN t /\ Understood(k, t[k])
    <3>1. n + 1 \in Says(k, more) /\ \A j \in Says(k, more) : j \in 1 .. n + 1
      BY <1>1, <2>1 DEF Says
    <3>2. \A i \in Says(k, more) : (\A j \in Says(k, more) : j <= i) <=> i = n + 1
      BY <1>1, <3>1
    <3>3. Last(k, more) = n + 1
      BY <3>1, <3>2 DEF Last
    <3>4. Effective(more)[k] = Normal(k, t[k])
      BY <1>1, <3>1, <3>3, EffectiveIs
    <3>5. QED
      BY <2>1, <3>4 DEF Apply
  <2>2. CASE ~(k \in DOMAIN t /\ Understood(k, t[k]))
    <3>1. Says(k, more) = Says(k, ls)
      <4>1. \A i : i \in 1 .. n + 1 <=> i \in 1 .. n \/ i = n + 1
        BY <1>1
      <4>2. QED
        BY <1>1, <2>2, <4>1 DEF Says
    <3>2. Last(k, more) = Last(k, ls)
      BY <3>1 DEF Last
    <3>3. Says(k, ls) # {} => more[Last(k, ls)] = ls[Last(k, ls)]
      BY <1>1, LastSays DEF Says
    <3>4. Effective(more)[k] = Effective(ls)[k]
      BY <3>1, <3>2, <3>3, EffectiveIs
    <3>5. QED
      BY <2>2, <3>4 DEF Apply
  <2>3. QED
    BY <2>1, <2>2
<1>3. DOMAIN Effective(more) = Fields /\ DOMAIN Apply(Effective(ls), t) = Fields
  BY EffectiveIs DEF Apply
<1>4. Effective(more) = [k \in Fields |-> Effective(more)[k]]
  BY DEF Effective
<1>5. Apply(Effective(ls), t) = [k \in Fields |-> Apply(Effective(ls), t)[k]]
  BY DEF Apply
<1>6. Effective(more) = Apply(Effective(ls), t)
  BY <1>2, <1>4, <1>5
<1>7. QED
  BY <1>6 DEF more

\* The first layer is applied to the defaults.
LEMMA EffectiveFirst ==
  ASSUME NEW t
  PROVE  IsSeq(<<t>>) /\ Effective(<<t>>) = Apply(Defaults, t)
<1>1. <<>> \in Seq({}) /\ <<t>> = Append(<<>>, t)
  OBVIOUS
<1>2. IsSeq(<<>>)
  BY <1>1 DEF IsSeq
<1>3. \A k : Says(k, <<>>) = {}
  BY DEF Says
<1>4. \A k \in Fields : Effective(<<>>)[k] = Defaults[k]
  BY <1>3, EffectiveIs
<1>5. Apply(Effective(<<>>), t) = Apply(Defaults, t)
  BY <1>4 DEF Apply
<1>6. IsSeq(Append(<<>>, t)) /\ Effective(Append(<<>>, t)) = Apply(Effective(<<>>), t)
  BY <1>2, EffectiveAppend, AppendIs
<1>7. QED
  BY <1>1, <1>5, <1>6

LEMMA ToldIsUnderstood ==
  ASSUME NEW k, NEW v, v # Wrong
  PROVE  Understood(k, Told(k, v)) /\ Normal(k, Told(k, v)) = Told(k, v)
<1>1. CASE k = "mode"
  BY <1>1, WrongAssumption DEF Told, Understood, Normal
<1>2. CASE k = "protocol"
  BY <1>2, WrongAssumption DEF Told, Understood, Normal
<1>3. CASE k \notin {"mode", "protocol"}
  BY <1>3 DEF Told, Understood, Normal
<1>4. QED
  BY <1>1, <1>2, <1>3

\* An option is a layer of one field.
LEMMA OptionApplies ==
  ASSUME NEW c, Sound(c), NEW k \in Fields, NEW v, v # Wrong,
         NEW d, d = [c EXCEPT ![k] = Told(k, v)], NEW t, t = [x \in {k} |-> Told(k, v)]
  PROVE  d = Apply(c, t)
<1>1. DOMAIN c = Fields
  BY DEF Sound
<1>2. d = [j \in Fields |-> IF j = k THEN Told(k, v) ELSE c[j]]
  BY <1>1
<1>3. ASSUME NEW j \in Fields
      PROVE  (IF j = k THEN Told(k, v) ELSE c[j])
               = IF j \in DOMAIN t /\ Understood(j, t[j]) THEN Normal(j, t[j]) ELSE c[j]
  <2>1. CASE j = k
    <3>1. j \in DOMAIN t /\ t[j] = Told(k, v)
      BY <2>1
    <3>2. QED
      BY <2>1, <3>1, ToldIsUnderstood
  <2>2. CASE j # k
    BY <2>2
  <2>3. QED
    BY <2>1, <2>2
<1>4. QED
  BY <1>2, <1>3 DEF Apply

-----------------------------------------------------------------------------
(* What is printed comes back.                                             *)

LayersAre == layers = [p \in Programs |-> layers[p]] /\ \A p \in Programs : IsSeq(layers[p])

\* The profile is the print of what was shown last, unless somebody has edited it since.
ShownInv == shown # None => Sound(shown) /\ profile \in Printed(shown)

LEMMA NewLayers ==
  ASSUME LayersAre, NEW p \in Programs, NEW ls, IsSeq(ls), layers' = [layers EXCEPT ![p] = ls]
  PROVE  LayersAre'
BY DEF LayersAre

LEMMA LayersStep ==
  ASSUME LayersAre, Next
  PROVE  LayersAre'
<1>1. ASSUME NEW p \in Programs, NEW t, layers' = [layers EXCEPT ![p] = Append(layers[p], t)]
      PROVE  LayersAre'
  <2>1. IsSeq(Append(layers[p], t))
    BY AppendIs DEF LayersAre
  <2>2. QED
    BY <1>1, <2>1, NewLayers
<1>2. ASSUME NEW p \in Programs,
             Start(p) \/ CopyOpen(p) \/ CopyFill(p) \/ Read(p) \/ SaveWrite(p) \/ Crash(p)
      PROVE  LayersAre'
  <2>1. CASE Start(p)
    BY <2>1, EffectiveFirst, NewLayers DEF Start
  <2>2. CASE Read(p)
    BY <1>1, <2>2 DEF Read, Took
  <2>3. CASE CopyOpen(p) \/ CopyFill(p) \/ SaveWrite(p) \/ Crash(p)
    BY <2>3 DEF CopyOpen, CopyFill, SaveWrite, Crash, ghosts, LayersAre
  <2>4. QED
    BY <1>2, <2>1, <2>2, <2>3
<1>3. CASE Option
  <2>1. \E t : layers' = [layers EXCEPT !.cli = Append(layers["cli"], t)]
    BY <1>3 DEF Option
  <2>2. QED
    BY <1>1, <2>1 DEF Programs
<1>4. CASE Profile
  BY <1>1, <1>4 DEF Profile, Took, Programs
<1>5. CASE SaveConfig \/ ShowConfig \/ Begin \/ End \/ GuiSave \/ Edit
  BY <1>5 DEF SaveConfig, ShowConfig, Begin, End, GuiSave, Edit, ghosts, LayersAre
<1>6. CASE Click \/ Focus \/ Key \/ PickDevice \/ Browse \/ DialogEnds \/ DialogResult \/ Frame
  BY <1>6 DEF Click, Focus, Key, PickDevice, Browse, DialogEnds, DialogResult, Frame, ghosts,
              LayersAre
<1>7. QED
  BY <1>2, <1>3, <1>4, <1>5, <1>6 DEF Next

LEMMA ShownStep ==
  ASSUME IInv, ShownInv, Next
  PROVE  ShownInv'
<1>1. CASE ShowConfig
  BY <1>1 DEF ShowConfig, ShownInv, IInv, AllSound, Programs
<1>2. CASE Edit
  BY <1>2 DEF Edit, ShownInv
<1>3. CASE UNCHANGED <<profile, shown>>
  BY <1>3 DEF ShownInv
<1>4. ASSUME NEW p \in Programs,
             Start(p) \/ CopyOpen(p) \/ CopyFill(p) \/ Read(p) \/ SaveWrite(p) \/ Crash(p)
      PROVE  UNCHANGED <<profile, shown>>
  BY <1>4 DEF Start, CopyOpen, CopyFill, Read, SaveWrite, Crash, files, ghosts
<1>5. Option \/ Profile \/ SaveConfig \/ Begin \/ End \/ GuiSave => UNCHANGED <<profile, shown>>
  BY DEF Option, Profile, SaveConfig, Begin, End, GuiSave, files, ghosts
<1>6. Click \/ Focus \/ Key \/ PickDevice \/ Browse \/ DialogEnds \/ DialogResult \/ Frame
        => UNCHANGED <<profile, shown>>
  BY DEF Click, Focus, Key, PickDevice, Browse, DialogEnds, DialogResult, Frame, files, ghosts
<1>7. QED
  BY <1>1, <1>2, <1>3, <1>4, <1>5, <1>6 DEF Next

PrintInv == IInv /\ LayersAre /\ ShownInv

LEMMA PrintInvariance == Spec => []PrintInv
<1>1. Init => PrintInv
  <2>1. <<>> \in Seq({})
    OBVIOUS
  <2>2. Init => LayersAre /\ ShownInv
    BY <2>1 DEF Init, LayersAre, ShownInv, IsSeq
  <2>3. QED
    BY <2>2, InitIInv DEF PrintInv
<1>2. PrintInv /\ [Next]_vars => PrintInv'
  <2>1. ASSUME PrintInv, Next PROVE PrintInv'
    BY <2>1, SoundStep, FileStep, LayersStep, ShownStep DEF PrintInv, IInv, FileInv
  <2>2. ASSUME PrintInv, UNCHANGED vars PROVE PrintInv'
    BY <2>2, StutterIInv DEF PrintInv, LayersAre, ShownInv, vars, ghosts, files
  <2>3. QED
    BY <2>1, <2>2
<1>3. QED
  BY <1>1, <1>2, PTL DEF Spec

\* The table that config_print prints.
PrintedTable(c) ==
  [c EXCEPT !.mode = IF @ = "" THEN "(unspecified)" ELSE @,
            !.log_file = IF @ = "" THEN "(stderr)" ELSE LogPath(c)]

LEMMA PrintedTableIs ==
  ASSUME NEW c, Sound(c)
  PROVE  /\ PrintedTable(c) = [k \in Fields |-> PrintedTable(c)[k]]
         /\ \A k \in Fields :
              PrintedTable(c)[k] =
                IF k = "log_file" THEN (IF c[k] = "" THEN "(stderr)" ELSE LogPath(c))
                ELSE IF k = "mode" /\ c[k] = "" THEN "(unspecified)" ELSE c[k]
BY SomeFields DEF PrintedTable, Sound

LEMMA PrintedIs ==
  ASSUME NEW c, Sound(c), Readable(c), NEW f \in Printed(c), NEW k \in Fields
  PROVE  /\ DOMAIN Layer(f) = Fields
         /\ Layer(f)[k] =
              IF k = "log_file" THEN (IF c[k] = "" THEN "(stderr)" ELSE LogPath(c))
              ELSE IF k = "mode" /\ c[k] = "" THEN "(unspecified)" ELSE c[k]
<1> DEFINE t == PrintedTable(c)
<1>1. /\ t = [j \in Fields |-> t[j]]
      /\ \A j \in Fields :
           t[j] = IF j = "log_file" THEN (IF c[j] = "" THEN "(stderr)" ELSE LogPath(c))
                  ELSE IF j = "mode" /\ c[j] = "" THEN "(unspecified)" ELSE c[j]
  BY PrintedTableIs
<1>2. Printed(c) = Written(t)
  BY DEF Printed, PrintedTable
<1> HIDE DEF t
<1>3. ASSUME NEW j \in Fields PROVE Line(j, t[j]) = t[j]
  <2>1. CASE j = "log_file"
    BY <1>1, <2>1, FieldKinds, WrongAssumption DEF Line, LogPath, Readable
  <2>2. CASE j # "log_file" /\ j \in TextFields
    BY <1>1, <2>2, FieldKinds DEF Line, Readable
  <2>3. CASE j \notin TextFields
    BY <2>3 DEF Line
  <2>4. QED
    BY <2>1, <2>2, <2>3
<1>4. Lines(t) = t
  BY <1>1, <1>3 DEF Lines
<1>5. f = Good(t)
  BY <1>2, <1>4 DEF Written
<1>6. Layer(f) = t
  BY <1>5 DEF Layer, Good
<1>7. QED
  BY <1>1, <1>6

LEMMA LoadPrinted ==
  ASSUME NEW c, Sound(c), Readable(c), NEW f \in Printed(c), NEW b, NEW k \in Fields
  PROVE  Apply(b, Layer(f))[k] =
           IF k = "log_file" THEN (IF c[k] = "" THEN "(stderr)" ELSE LogPath(c))
           ELSE IF k = "mode" /\ c[k] = "" THEN b[k] ELSE c[k]
<1> DEFINE t == Layer(f)
<1>1. /\ DOMAIN t = Fields
      /\ t[k] = IF k = "log_file" THEN (IF c[k] = "" THEN "(stderr)" ELSE LogPath(c))
                ELSE IF k = "mode" /\ c[k] = "" THEN "(unspecified)" ELSE c[k]
  BY PrintedIs
<1> HIDE DEF t
<1>2. Apply(b, t)[k] = IF Understood(k, t[k]) THEN Normal(k, t[k]) ELSE b[k]
  BY <1>1 DEF Apply
<1>3. CASE k = "log_file"
  <2>1. c["log_file"] # Wrong
    BY SomeFields DEF Sound
  <2>2. t[k] # Wrong
    BY <1>1, <1>3, <2>1, WrongAssumption DEF LogPath
  <2>3. Understood(k, t[k]) /\ Normal(k, t[k]) = t[k]
    BY <1>3, <2>2 DEF Understood, Normal
  <2>4. QED
    BY <1>1, <1>2, <1>3, <2>3 DEF t
<1>4. CASE k = "mode" /\ c[k] = ""
  <2>1. ~Understood(k, t[k])
    BY <1>1, <1>4 DEF Understood
  <2>2. QED
    BY <1>2, <1>4, <2>1 DEF t
<1>5. CASE k # "log_file" /\ ~(k = "mode" /\ c[k] = "")
  <2>1. t[k] = c[k]
    BY <1>1, <1>5
  <2>2. QED
    BY <1>2, <1>5, <2>1, SoundIsUnderstood DEF t
<1>6. QED
  BY <1>3, <1>4, <1>5

\* What --show-config prints, kept as a profile, gives back the configuration it shows, but for
\* a log that had no file or a directory (config.c:360-387, cli.c:273-275).
THEOREM PrintsComeBack == Spec => PrintedComesBack
<1> DEFINE Profiled == /\ pc["cli"] = "options" /\ shown # None /\ layers'["cli"] # layers["cli"]
                       /\ layers'["cli"] = Append(layers["cli"], Layer(profile))
                       /\ Readable(shown)
           Value(k) == IF k = "log_file" THEN (IF shown[k] = "" THEN "(stderr)" ELSE LogPath(shown))
                       ELSE IF k = "mode" /\ shown[k] = "" THEN cfg["cli"][k] ELSE shown[k]
<1>1. ASSUME PrintInv, [Next]_vars, Profiled, NEW k \in Fields
      PROVE  cfg'["cli"][k] = Value(k)
  <2>1. Next
    BY <1>1 DEF vars, ghosts
  <2>2. /\ Sound(shown) /\ profile \in Printed(shown) /\ IsSeq(layers["cli"])
        /\ layers = [p \in Programs |-> layers[p]] /\ "cli" \in Programs
    BY <1>1 DEF PrintInv, ShownInv, LayersAre, Programs
  <2>3. ~Option
    <3>1. SUFFICES ASSUME Option PROVE FALSE
      OBVIOUS
    <3>2. PICK j \in Optional : \E v :
                 layers' = [layers EXCEPT !.cli = Append(@, [x \in {j} |-> Told(j, v)])]
      BY <3>1 DEF Option
    <3>3. PICK v : layers' = [layers EXCEPT !.cli = Append(@, [x \in {j} |-> Told(j, v)])]
      BY <3>2
    <3> DEFINE t == [x \in {j} |-> Told(j, v)]
    <3>4. t = Layer(profile)
      <4> HIDE DEF t
      <4>1. layers' = [layers EXCEPT !.cli = Append(@, t)]
        BY <3>3 DEF t
      <4>2. Append(layers["cli"], t) = Append(layers["cli"], Layer(profile))
        BY <1>1, <2>2, <4>1
      <4>3. QED
        BY <2>2, <4>2, SameAppended
    <3>5. DOMAIN Layer(profile) = Fields
      BY <1>1, <2>2, PrintedIs
    <3>6. {j} = Fields
      BY <3>4, <3>5
    <3>7. QED
      BY <3>6, SomeFields
  <2>4. ASSUME NEW p \in Programs,
               Start(p) \/ CopyOpen(p) \/ CopyFill(p) \/ Read(p) \/ SaveWrite(p) \/ Crash(p)
        PROVE  layers'["cli"] = layers["cli"]
    <3>1. CASE Start(p) \/ Read(p)
      <4>1. p # "cli"
        BY <1>1, <3>1 DEF Start, Read
      <4>2. \E ls : layers' = [layers EXCEPT ![p] = ls]
        BY <3>1 DEF Start, Read, Took
      <4>3. QED
        BY <2>2, <4>1, <4>2
    <3>2. CASE CopyOpen(p) \/ CopyFill(p) \/ SaveWrite(p) \/ Crash(p)
      BY <3>2 DEF CopyOpen, CopyFill, SaveWrite, Crash, ghosts
    <3>3. QED
      BY <2>4, <3>1, <3>2
  <2>5. SaveConfig \/ ShowConfig \/ Begin \/ End \/ GuiSave \/ Edit => layers' = layers
    BY DEF SaveConfig, ShowConfig, Begin, End, GuiSave, Edit, ghosts
  <2>6. Click \/ Focus \/ Key \/ PickDevice \/ Browse \/ DialogEnds \/ DialogResult \/ Frame
          => layers' = layers
    BY DEF Click, Focus, Key, PickDevice, Browse, DialogEnds, DialogResult, Frame, ghosts
  <2>7. Profile
    BY <1>1, <2>1, <2>3, <2>4, <2>5, <2>6 DEF Next
  <2>8. cfg'["cli"] = Apply(cfg["cli"], Layer(profile))
    BY <1>1, <2>7 DEF Profile, PrintInv, IInv, AllSound, Programs
  <2>9. Sound(shown) /\ Readable(shown) /\ profile \in Printed(shown) /\ k \in Fields
    BY <1>1, <2>2
  <2> DEFINE b == cfg["cli"]
  <2>10. Apply(b, Layer(profile))[k] =
           IF k = "log_file" THEN (IF shown[k] = "" THEN "(stderr)" ELSE LogPath(shown))
           ELSE IF k = "mode" /\ shown[k] = "" THEN b[k] ELSE shown[k]
    <3> HIDE DEF b
    <3>1. QED
      BY <2>9, LoadPrinted
  <2>11. QED
    BY <2>8, <2>10
<1>2. PrintInv /\ [Next]_vars => [Profiled => \A k \in Fields : cfg'["cli"][k] = Value(k)]_vars
  BY <1>1
<1>3. QED
  BY PrintInvariance, <1>2, PTL DEF Spec, PrintedComesBack

-----------------------------------------------------------------------------
(* Types.                                                                  *)

SwitchesOK(c) == \A k \in Switches : c[k] \in BOOLEAN

TableOK(t) == \A k \in Switches : k \in DOMAIN t => t[k] \in BOOLEAN \union {Wrong}

FileOK(f) == f.state \in {"missing", "broken", "good"} /\ TableOK(Layer(f))

FilesOK == FileOK(sys) /\ FileOK(usr) /\ FileOK(profile)

CfgOK == \A p \in Programs : SwitchesOK(cfg[p])

\* A block is never larger than the buffer, and no timeout is negative.
Usable(u) ==
  /\ DOMAIN u = DOMAIN Unset
  /\ u.buffer_size \in 1 .. MaxChunk
  /\ u.timeout_seconds >= 0

UsedOK == used = [p \in Programs |-> used[p]] /\ \A p \in Programs : Usable(used[p])

GuiOK == dialog \in [Dialogs -> {"closed", "open", "answered", "given up"}]

BoundsOK == starts \in 0 .. MaxStarts /\ inputs \in 0 .. MaxInputs /\ faults \in 0 .. MaxFaults

TypeInv == IInv /\ FilesOK /\ CfgOK /\ UsedOK /\ GuiOK /\ BoundsOK

LEMMA SwitchFields ==
  /\ Switches \subseteq Fields
  /\ "mode" \notin Switches /\ "protocol" \notin Switches /\ "log_file" \notin Switches
BY SomeFields DEF Switches

LEMMA DefaultSwitches == SwitchesOK(Defaults)
<1>1. /\ Defaults["auto_accept"] = FALSE /\ Defaults["show_progress"] = TRUE
      /\ Defaults["discovery_enabled"] = TRUE
  BY DEF Defaults
<1>2. QED
  BY <1>1 DEF SwitchesOK, Switches

LEMMA ApplySwitches ==
  ASSUME NEW c, SwitchesOK(c), NEW t, TableOK(t)
  PROVE  SwitchesOK(Apply(c, t))
<1>1. ASSUME NEW k \in Switches
      PROVE  Apply(c, t)[k] \in BOOLEAN
  <2>1. k \in Fields /\ k # "mode" /\ k # "protocol"
    BY SwitchFields
  <2>2. CASE k \in DOMAIN t /\ Understood(k, t[k])
    BY <2>1, <2>2 DEF Apply, Understood, Normal, TableOK
  <2>3. CASE ~(k \in DOMAIN t /\ Understood(k, t[k]))
    BY <2>1, <2>3 DEF Apply, SwitchesOK
  <2>4. QED
    BY <2>2, <2>3
<1>2. QED
  BY <1>1 DEF SwitchesOK

LEMMA EmptyOK == FileOK(Empty) /\ FileOK(Broken) /\ FileOK(Missing)
BY DEF FileOK, TableOK, Layer, Empty, Broken, Missing, Good

LEMMA WrittenOK ==
  ASSUME NEW f \in SysFiles \union UserFiles
  PROVE  FileOK(f)
<1>1. CASE f.state = "good"
  BY <1>1, SwitchAssumption DEF FileOK, TableOK, Layer
<1>2. CASE f.state # "good"
  BY <1>2, SwitchAssumption DEF FileOK, TableOK, Layer
<1>3. QED
  BY <1>1, <1>2

LEMMA SavedOK ==
  ASSUME NEW c, Sound(c), SwitchesOK(c), NEW f \in Saved(c) \union Torn(c)
  PROVE  FileOK(f)
<1>1. PICK n \in 0 .. LastLine : FragmentTo(f, c, n)
  BY SavedFragment, TornFragment DEF Fragment
<1>2. \A k \in Switches : k \in Fields /\ k \notin NumberFields /\ k \notin TextFields
  BY SwitchFields DEF Switches, NumberFields, TextFields
<1>3. ASSUME NEW k \in Switches, k \in DOMAIN Layer(f)
      PROVE  Layer(f)[k] \in BOOLEAN
  <2>1. Layer(f)[k] = Line(k, c[k])
    BY <1>1, <1>2, <1>3 DEF FragmentTo
  <2>2. Line(k, c[k]) = c[k]
    BY <1>2 DEF Line
  <2>3. QED
    BY <2>1, <2>2 DEF SwitchesOK
<1>4. f = Broken \/ \E t : f = Good(t)
  BY DEF Saved, Written, Torn
<1>5. QED
  BY <1>3, <1>4 DEF FileOK, TableOK, Broken, Good

LEMMA PrintedOK ==
  ASSUME NEW c, Sound(c), SwitchesOK(c), NEW f \in Printed(c)
  PROVE  FileOK(f)
<1> DEFINE t == PrintedTable(c)
<1>1. CASE f = Broken
  BY <1>1, EmptyOK
<1>2. CASE f = Good(Lines(t))
  <2>1. \A k \in Switches : k \in Fields /\ k \notin TextFields /\ k # "mode" /\ k # "log_file"
    BY SwitchFields DEF Switches, TextFields
  <2>2. \A k \in Switches : Lines(t)[k] = c[k]
    BY <2>1, PrintedTableIs DEF Lines, Line
  <2>3. Layer(f) = Lines(t) /\ f.state = "good"
    BY <1>2 DEF Layer, Good
  <2>4. QED
    BY <2>2, <2>3 DEF FileOK, TableOK, SwitchesOK
<1>3. QED
  BY <1>1, <1>2 DEF Printed, PrintedTable, Written

LEMMA UnsetUsable == Usable(Unset)
<1>1. Unset.buffer_size = 65536 /\ Unset.timeout_seconds = 30
  BY DEF Unset
<1>2. MaxChunk \in Nat /\ 65536 <= MaxChunk
  BY DEF MaxChunk
<1>3. Unset.buffer_size \in 1 .. MaxChunk /\ Unset.timeout_seconds >= 0
  BY <1>1, <1>2
<1>4. QED
  BY <1>3 DEF Usable

LEMMA ConfigureUsable ==
  ASSUME NEW u, Usable(u), NEW c
  PROVE  Usable(Configure(u, c))
BY DEF Usable, Configure, Unset

LEMMA LogUsable ==
  ASSUME NEW u, Usable(u), NEW c
  PROVE  Usable(LogInit(u, c)) /\ Usable(Discovery(u, c))
BY DEF LogInit, Discovery, Unset, Usable

LEMMA BoundsStep ==
  ASSUME BoundsOK, Next
  PROVE  BoundsOK'
<1>0. UNCHANGED <<starts, inputs, faults>> => BoundsOK'
  BY DEF BoundsOK
<1>1. Input /\ UNCHANGED <<starts, faults>> => BoundsOK'
  BY BoundsAssumption DEF Input, BoundsOK
<1>2. faults < MaxFaults /\ faults' = faults + 1 /\ UNCHANGED <<starts, inputs>> => BoundsOK'
  BY BoundsAssumption DEF BoundsOK
<1>3. ASSUME NEW p \in Programs,
             Start(p) \/ CopyOpen(p) \/ CopyFill(p) \/ Read(p) \/ SaveWrite(p) \/ Crash(p)
      PROVE  BoundsOK'
  <2>1. CASE Start(p)
    <3>1. starts < MaxStarts /\ starts' = starts + 1 /\ UNCHANGED <<inputs, faults>>
      BY <2>1 DEF Start
    <3>2. QED
      BY <3>1, BoundsAssumption DEF BoundsOK
  <2>2. CASE CopyOpen(p) \/ CopyFill(p) \/ Read(p)
    BY <1>0, <2>2 DEF CopyOpen, CopyFill, Read, bounds
  <2>3. CASE SaveWrite(p) \/ Crash(p)
    BY <1>0, <1>2, <2>3 DEF SaveWrite, Crash
  <2>4. QED
    BY <1>3, <2>1, <2>2, <2>3
<1>4. Option \/ Profile \/ Edit => BoundsOK'
  BY <1>1 DEF Option, Profile, Edit
<1>5. SaveConfig => BoundsOK'
  BY <1>0, <1>2 DEF SaveConfig, Save
<1>6. GuiSave => BoundsOK'
  BY BoundsAssumption DEF GuiSave, Save, Input, BoundsOK
<1>7. ShowConfig \/ Begin \/ End \/ Focus \/ DialogEnds \/ DialogResult \/ Frame => BoundsOK'
  BY <1>0 DEF ShowConfig, Begin, End, Focus, DialogEnds, DialogResult, Frame, bounds
<1>8. Click \/ Key \/ PickDevice \/ Browse => BoundsOK'
  BY <1>1 DEF Click, Key, PickDevice, Browse
<1>9. QED
  BY <1>3, <1>4, <1>5, <1>6, <1>7, <1>8 DEF Next

LEMMA DialogStep ==
  ASSUME GuiOK, Next
  PROVE  GuiOK'
<1>0. dialog' = dialog => GuiOK'
  BY DEF GuiOK
<1>1. ASSUME NEW p \in Programs,
             Start(p) \/ CopyOpen(p) \/ CopyFill(p) \/ Read(p) \/ SaveWrite(p) \/ Crash(p)
      PROVE  GuiOK'
  <2>1. CASE Start(p)
    BY <1>0, <2>1 DEF Start, gui, GuiOK
  <2>2. CASE CopyOpen(p) \/ CopyFill(p) \/ Read(p) \/ SaveWrite(p) \/ Crash(p)
    BY <1>0, <2>2 DEF CopyOpen, CopyFill, Read, SaveWrite, Crash, gui
  <2>3. QED
    BY <1>1, <2>1, <2>2
<1>2. Option \/ Profile \/ SaveConfig \/ ShowConfig \/ Begin \/ End \/ GuiSave \/ Edit => GuiOK'
  BY <1>0 DEF Option, Profile, SaveConfig, ShowConfig, Begin, End, GuiSave, Edit, gui
<1>3. Click \/ Focus \/ Key \/ PickDevice \/ Frame => GuiOK'
  BY <1>0 DEF Click, Focus, Key, PickDevice, Frame, gui
<1>4. Browse \/ DialogEnds \/ DialogResult => GuiOK'
  BY DEF Browse, DialogEnds, DialogResult, GuiOK
<1>5. QED
  BY <1>1, <1>2, <1>3, <1>4 DEF Next

\* What is written over an open file is there, or a mixture that is no TOML.
LEMMA OverlayOK ==
  ASSUME NEW f, FileOK(f), Overlay(f)
  PROVE  FileOK(usr')
BY EmptyOK DEF Overlay

LEMMA SaveFileOK ==
  ASSUME FilesOK, NEW p, NEW next, Save(p, next)
  PROVE  FileOK(usr')
BY EmptyOK DEF Save, FilesOK, FileOK

LEMMA FilesStep ==
  ASSUME IInv, FilesOK, CfgOK, Next
  PROVE  FilesOK'
<1>0. UNCHANGED <<sys, usr, profile>> => FilesOK'
  BY DEF FilesOK, FileOK
<1>1. UNCHANGED <<sys, profile>> /\ FileOK(usr') => FilesOK'
  BY DEF FilesOK, FileOK
<1>2. \A p \in Programs : Sound(cfg[p]) /\ SwitchesOK(cfg[p])
  BY DEF IInv, AllSound, CfgOK
<1>3. ASSUME NEW p \in Programs,
             Start(p) \/ CopyOpen(p) \/ CopyFill(p) \/ Read(p) \/ SaveWrite(p) \/ Crash(p)
      PROVE  FilesOK'
  <2>1. CASE Start(p) \/ Read(p) \/ Crash(p)
    BY <1>0, <2>1 DEF Start, Read, Crash, files
  <2>2. CASE CopyOpen(p)
    BY <1>1, <2>2, EmptyOK DEF CopyOpen
  <2>3. CASE CopyFill(p)
    <3>1. FileOK(IF sys.state = "missing" THEN Empty ELSE sys)
      BY EmptyOK DEF FilesOK
    <3>2. QED
      BY <1>1, <2>3, <3>1, OverlayOK DEF CopyFill
  <2>4. CASE SaveWrite(p)
    <3>1. \A f \in Saved(cfg[p]) \union Torn(cfg[p]) : FileOK(f)
      BY <1>2, SavedOK
    <3>2. FileOK(usr')
      BY <2>4, <3>1, OverlayOK DEF SaveWrite
    <3>3. QED
      BY <1>1, <2>4, <3>2 DEF SaveWrite
  <2>5. QED
    BY <1>3, <2>1, <2>2, <2>3, <2>4
<1>4. Option \/ Profile \/ Begin \/ End => FilesOK'
  BY <1>0 DEF Option, Profile, Begin, End, files
<1>5. SaveConfig \/ GuiSave => FilesOK'
  BY <1>1, SaveFileOK DEF SaveConfig, GuiSave
<1>6. CASE ShowConfig
  <2>1. FileOK(profile') /\ UNCHANGED <<sys, usr>>
    BY <1>2, <1>6, PrintedOK DEF ShowConfig, Programs
  <2>2. QED
    BY <2>1 DEF FilesOK, FileOK
<1>7. Click \/ Focus \/ Key \/ PickDevice \/ Browse \/ DialogEnds \/ DialogResult \/ Frame => FilesOK'
  BY <1>0 DEF Click, Focus, Key, PickDevice, Browse, DialogEnds, DialogResult, Frame, files
<1>8. CASE Edit
  <2>1. \A f \in {sys', usr', profile'} : f \in {sys, usr, profile} \/ f \in SysFiles \union UserFiles
    BY <1>8 DEF Edit
  <2>2. \A f \in {sys', usr', profile'} : FileOK(f)
    BY <2>1, WrittenOK DEF FilesOK
  <2>3. FileOK(sys') /\ FileOK(usr') /\ FileOK(profile')
    BY <2>2
  <2>4. QED
    BY <2>3 DEF FilesOK, FileOK
<1>9. QED
  BY <1>3, <1>4, <1>5, <1>6, <1>7, <1>8 DEF Next

LEMMA PutOK ==
  ASSUME AllSound, CfgOK, NEW f, NEW v, Put(f, v), f \in Switches => v \in BOOLEAN
  PROVE  CfgOK'
<1>1. CASE f \in Fields
  <2>1. cfg' = [cfg EXCEPT !.gui[f] = v]
    BY <1>1 DEF Put
  <2>2. DOMAIN cfg["gui"] = Fields /\ SwitchesOK(cfg["gui"])
    BY DEF AllSound, Sound, CfgOK, Programs
  <2>3. SwitchesOK([cfg["gui"] EXCEPT ![f] = v])
    BY <2>2, SwitchFields DEF SwitchesOK
  <2>4. QED
    BY <2>1, <2>3 DEF AllSound, CfgOK, Programs
<1>2. CASE f \notin Fields
  BY <1>2 DEF Put, CfgOK
<1>3. QED
  BY <1>1, <1>2

LEMMA NewCfgOK ==
  ASSUME AllSound, CfgOK, NEW p \in Programs, NEW c, SwitchesOK(c), cfg' = [cfg EXCEPT ![p] = c]
  PROVE  CfgOK'
BY DEF AllSound, CfgOK

LEMMA CfgStep ==
  ASSUME IInv, FilesOK, CfgOK, Next
  PROVE  CfgOK'
<1>0. AllSound /\ (UNCHANGED cfg => CfgOK')
  BY DEF IInv, CfgOK
<1>1. ASSUME NEW p \in Programs,
             Start(p) \/ CopyOpen(p) \/ CopyFill(p) \/ Read(p) \/ SaveWrite(p) \/ Crash(p)
      PROVE  CfgOK'
  <2>1. CASE Start(p)
    <3>1. SwitchesOK(Apply(Defaults, Layer(sys)))
      BY DefaultSwitches, ApplySwitches DEF FilesOK, FileOK
    <3>2. QED
      BY <1>0, <2>1, <3>1, NewCfgOK DEF Start
  <2>2. CASE Read(p)
    <3>1. SwitchesOK(Loaded(cfg[p]))
      BY ApplySwitches DEF Loaded, FilesOK, FileOK, CfgOK
    <3>2. cfg' = [cfg EXCEPT ![p] = Loaded(cfg[p])]
      BY <2>2 DEF Read
    <3>3. QED
      BY <1>0, <3>1, <3>2, NewCfgOK
  <2>3. CASE CopyOpen(p) \/ CopyFill(p) \/ SaveWrite(p) \/ Crash(p)
    BY <1>0, <2>3 DEF CopyOpen, CopyFill, SaveWrite, Crash
  <2>4. QED
    BY <1>1, <2>1, <2>2, <2>3
<1>2. CASE Option
  <2>1. PICK k \in Optional : \E v \in Options(k) : cfg' = [cfg EXCEPT !.cli[k] = Told(k, v)]
    BY <1>2 DEF Option
  <2>2. PICK v \in Options(k) : cfg' = [cfg EXCEPT !.cli[k] = Told(k, v)]
    BY <2>1
  <2>3. k \in Switches => Told(k, v) \in BOOLEAN
    <3>1. k \in Switches => v \in BOOLEAN
      BY SwitchAssumption DEF Options
    <3>2. k \in Switches => Told(k, v) = v
      BY SwitchFields DEF Told, Normal
    <3>3. QED
      BY <3>1, <3>2
  <2>4. SwitchesOK([cfg["cli"] EXCEPT ![k] = Told(k, v)])
    BY <1>0, <2>3, SwitchFields DEF SwitchesOK, CfgOK, AllSound, Sound, Programs
  <2>5. cfg' = [cfg EXCEPT !["cli"] = [cfg["cli"] EXCEPT ![k] = Told(k, v)]]
    BY <2>2
  <2>6. QED
    BY <1>0, <2>4, <2>5, NewCfgOK DEF Programs
<1>3. CASE Profile
  <2>1. SwitchesOK(Apply(cfg["cli"], Layer(profile)))
    BY ApplySwitches DEF FilesOK, FileOK, CfgOK, Programs
  <2>2. QED
    BY <1>0, <1>3, <2>1, NewCfgOK DEF Profile, Programs
<1>4. CASE Click
  <2>1. PICK f \in DOMAIN Button : \E v \in Button[f] \intersect Choices[f] : Put(f, v)
    BY <1>4 DEF Click
  <2>2. PICK v \in Button[f] \intersect Choices[f] : Put(f, v)
    BY <2>1
  <2>3. f \in Switches => v \in BOOLEAN
    BY <2>2, SwitchAssumption
  <2>4. QED
    BY <1>0, <2>2, <2>3, PutOK
<1>5. CASE Key
  <2>1. PICK v \in Choices[active] : Put(active, v)
    BY <1>5 DEF Key
  <2>2. active \in Switches => v \in BOOLEAN
    BY <2>1, SwitchAssumption
  <2>3. QED
    BY <1>0, <2>1, <2>2, PutOK
<1>6. CASE PickDevice
  <2>1. PICK v \in Choices["send_target_ip"] : Put("send_target_ip", v)
    BY <1>6 DEF PickDevice
  <2>2. "send_target_ip" \notin Switches
    BY DEF Switches
  <2>3. QED
    BY <1>0, <2>1, <2>2, PutOK
<1>7. CASE DialogResult
  <2>1. PICK d \in Dialogs :
               IF dialog[d] = "answered" THEN Put(d, picked) ELSE UNCHANGED <<cfg, page>>
    BY <1>7 DEF DialogResult
  <2>2. d \notin Switches
    BY DEF Dialogs, Switches
  <2>3. QED
    BY <1>0, <2>1, <2>2, PutOK
<1>8. SaveConfig \/ ShowConfig \/ Begin \/ End \/ GuiSave \/ Edit => UNCHANGED cfg
  BY DEF SaveConfig, ShowConfig, Begin, End, GuiSave, Edit
<1>9. Focus \/ Browse \/ DialogEnds \/ Frame => UNCHANGED cfg
  BY DEF Focus, Browse, DialogEnds, Frame
<1>10. QED
  BY <1>0, <1>1, <1>2, <1>3, <1>4, <1>5, <1>6, <1>7, <1>8, <1>9 DEF Next

LEMMA NewUsed ==
  ASSUME UsedOK, NEW p \in Programs, NEW u, Usable(u), used' = [used EXCEPT ![p] = u]
  PROVE  UsedOK'
BY DEF UsedOK

LEMMA UsedStep ==
  ASSUME UsedOK, Next
  PROVE  UsedOK'
<1>0. UNCHANGED used => UsedOK'
  BY DEF UsedOK
<1>1. ASSUME NEW p \in Programs,
             Start(p) \/ CopyOpen(p) \/ CopyFill(p) \/ Read(p) \/ SaveWrite(p) \/ Crash(p)
      PROVE  UsedOK'
  <2>1. CASE Start(p)
    BY <2>1, UnsetUsable, NewUsed DEF Start
  <2>2. CASE Read(p)
    <3> DEFINE c == Loaded(cfg[p])
    <3>1. used' = [used EXCEPT ![p] = Configure(Discovery(LogInit(used[p], c), c), c)]
            \/ used' = [used EXCEPT ![p] = LogInit(used[p], c)]
      BY <2>2 DEF Read
    <3> HIDE DEF c
    <3>2. /\ Usable(LogInit(used[p], c))
          /\ Usable(Configure(Discovery(LogInit(used[p], c), c), c))
      BY LogUsable, ConfigureUsable DEF UsedOK
    <3>3. QED
      BY <3>1, <3>2, NewUsed
  <2>3. CASE CopyOpen(p) \/ CopyFill(p) \/ SaveWrite(p) \/ Crash(p)
    BY <1>0, <2>3 DEF CopyOpen, CopyFill, SaveWrite, Crash
  <2>4. QED
    BY <1>1, <2>1, <2>2, <2>3
<1>2. CASE Begin
  <2> DEFINE c == cfg["cli"]
             u == Discovery(LogInit(used["cli"], c), c)
  <2>1. \/ used' = [used EXCEPT !["cli"] = u]
        \/ \E w : used' = [used EXCEPT !["cli"] = [Configure(u, c) EXCEPT !.work_path = w]]
    BY <1>2 DEF Begin
  <2>2. Usable(u) /\ Usable(Configure(u, c)) /\ "cli" \in Programs
    BY LogUsable, ConfigureUsable DEF UsedOK, Programs
  <2> HIDE DEF u, c
  <2>3. \A w : Usable([Configure(u, c) EXCEPT !.work_path = w])
    BY <2>2 DEF Usable
  <2>4. QED
    BY <2>1, <2>2, <2>3, NewUsed
<1>3. CASE Frame
  <2>1. used' = [used EXCEPT !["gui"] = [used["gui"] EXCEPT !.auto_accept = cfg["gui"].auto_accept]]
    BY <1>3 DEF Frame
  <2>2. Usable([used["gui"] EXCEPT !.auto_accept = cfg["gui"].auto_accept]) /\ "gui" \in Programs
    BY DEF UsedOK, Usable, Programs
  <2>3. QED
    BY <2>1, <2>2, NewUsed
<1>4. Option \/ Profile \/ SaveConfig \/ ShowConfig \/ End \/ GuiSave \/ Edit => UNCHANGED used
  BY DEF Option, Profile, SaveConfig, ShowConfig, End, GuiSave, Edit
<1>5. Click \/ Focus \/ Key \/ PickDevice \/ Browse \/ DialogEnds \/ DialogResult => UNCHANGED used
  BY DEF Click, Focus, Key, PickDevice, Browse, DialogEnds, DialogResult
<1>6. QED
  BY <1>0, <1>1, <1>2, <1>3, <1>4, <1>5 DEF Next

LEMMA TypeInvariance == Spec => []TypeInv
<1>1. Init => TypeInv
  <2> SUFFICES ASSUME Init PROVE TypeInv
    OBVIOUS
  <2>1. IInv
    BY InitIInv
  <2>2. FilesOK
    BY WrittenOK, EmptyOK DEF Init, FilesOK
  <2>3. CfgOK
    BY DefaultSwitches DEF Init, CfgOK
  <2>4. UsedOK
    BY UnsetUsable DEF Init, UsedOK
  <2>5. GuiOK
    BY DEF Init, GuiOK
  <2>6. BoundsOK
    <3>1. starts = 0 /\ inputs = 0 /\ faults = 0
      BY DEF Init
    <3>2. QED
      BY <3>1, BoundsAssumption DEF BoundsOK
  <2>7. QED
    BY <2>1, <2>2, <2>3, <2>4, <2>5, <2>6 DEF TypeInv
<1>2. TypeInv /\ [Next]_vars => TypeInv'
  <2>1. ASSUME TypeInv, Next PROVE TypeInv'
    BY <2>1, SoundStep, FileStep, FilesStep, CfgStep, UsedStep, DialogStep, BoundsStep
       DEF TypeInv, IInv, FileInv
  <2>2. ASSUME TypeInv, UNCHANGED vars PROVE TypeInv'
    <3>1. IInv'
      BY <2>2, StutterIInv DEF TypeInv
    <3>2. FilesOK' /\ CfgOK' /\ UsedOK' /\ GuiOK' /\ BoundsOK'
      BY <2>2 DEF TypeInv, vars, files, gui, bounds, FilesOK, FileOK, CfgOK, UsedOK, GuiOK, BoundsOK
    <3>3. QED
      BY <3>1, <3>2 DEF TypeInv
  <2>3. QED
    BY <2>1, <2>2
<1>3. QED
  BY <1>1, <1>2, PTL DEF Spec

\* Whatever the files, the options and the pages say, every setting has its type, and no block
\* size or timeout that transfer.c cannot use reaches it (config.h:15-46, transfer.c:57-67).
THEOREM SettingsTypeCorrect == Spec => []TypeOK
<1>1. TypeInv => TypeOK
  <2> SUFFICES ASSUME TypeInv PROVE TypeOK
    OBVIOUS
  <2>1. \A p \in Programs : IsConfig(cfg[p])
    BY DEF TypeInv, IInv, AllSound, Sound, CfgOK, SwitchesOK, Switches, IsConfig
  <2>2. active \in Fields \union DOMAIN NoPage \union {None}
    <3>1. TextField \subseteq Fields \union DOMAIN NoPage
      BY DEF TextField, NoPage
    <3>2. QED
      BY <3>1 DEF TypeInv, IInv, PicksSound
  <2>3. \A p \in Programs : used[p].buffer_size \in 1 .. MaxChunk /\ used[p].timeout_seconds >= 0
    BY DEF TypeInv, UsedOK, Usable
  <2>4. \A f \in {sys, usr, profile} : f.state \in {"missing", "broken", "good"}
    BY DEF TypeInv, FilesOK, FileOK
  <2>5. whole => saved # None
    BY DEF TypeInv, IInv, FileIsSaved
  <2>6. QED
    BY <2>1, <2>2, <2>3, <2>4, <2>5 DEF TypeInv, IInv, PcOK, GuiOK, BoundsOK, TypeOK
<1>2. QED
  BY <1>1, TypeInvariance, PTL

-----------------------------------------------------------------------------
(* What the programs run under.                                            *)

Prepared(u, c) == Configure(Discovery(LogInit(u, c), c), c)

OnlyLogSet(u) ==
  /\ DOMAIN u = DOMAIN Unset
  /\ \A k \in DOMAIN Unset \ {"log_file", "log_level"} : u[k] = Unset[k]

\* Until the user's file is read, nothing has been told; nor more than the log until the
\* options are.
Fresh(p) == used[p] = Unset /\ cfg[p] = Effective(layers[p])

CliInv ==
  /\ pc["cli"] \in {"copy", "fill", "read"} => Fresh("cli")
  /\ pc["cli"] \in {"options", "transfer"} => cfg["cli"] = Effective(layers["cli"])
  /\ pc["cli"] = "options" => OnlyLogSet(used["cli"])
  /\ CliRunsAsTold

GuiInv == (pc["gui"] \in {"copy", "fill", "read"} => Fresh("gui")) /\ GuiRunsAsStarted

LEMMA LogInitIs ==
  ASSUME NEW u, DOMAIN u = DOMAIN Unset, NEW c
  PROVE  LogInit(u, c) = [k \in DOMAIN Unset |-> IF k = "log_level" THEN Level(c.log_level)
                                                 ELSE IF k = "log_file" THEN LogPath(c) ELSE u[k]]
BY DEF LogInit

LEMMA LogSet ==
  ASSUME NEW u, OnlyLogSet(u), NEW c
  PROVE  OnlyLogSet(LogInit(u, c)) /\ Prepared(u, c) = Prepared(Unset, c)
<1> DEFINE F(v) == [k \in DOMAIN Unset |-> IF k = "log_level" THEN Level(c.log_level)
                                           ELSE IF k = "log_file" THEN LogPath(c) ELSE v[k]]
<1>1. LogInit(u, c) = F(u) /\ LogInit(Unset, c) = F(Unset)
  BY LogInitIs DEF OnlyLogSet
<1>2. F(u) = F(Unset) /\ OnlyLogSet(F(u))
  BY DEF OnlyLogSet
<1> HIDE DEF F
<1>3. QED
  BY <1>1, <1>2 DEF Prepared

LEMMA UnsetOnlyLog == OnlyLogSet(Unset)
BY DEF OnlyLogSet

LEMMA PathAside ==
  ASSUME NEW D, NEW g, g = [k \in D |-> g[k]], NEW w, NEW x, g.work_path = x
  PROVE  [[g EXCEPT !.work_path = w] EXCEPT !.work_path = x] = g
OBVIOUS

LEMMA PreparedIs ==
  ASSUME NEW c
  PROVE  /\ Prepared(Unset, c) = [k \in DOMAIN Unset |-> Prepared(Unset, c)[k]]
         /\ Prepared(Unset, c).work_path = None /\ "work_path" \in DOMAIN Prepared(Unset, c)
<1> DEFINE v == LogInit(Unset, c)
           u == Discovery(v, c)
<1>1. DOMAIN v = DOMAIN Unset /\ v.work_path = None
  <2>1. Unset.work_path = None
    BY DEF Unset
  <2>2. QED
    BY <2>1 DEF LogInit
<1> HIDE DEF v
<1>2. DOMAIN u = DOMAIN Unset /\ u.work_path = None
  BY <1>1 DEF Discovery
<1> HIDE DEF u
<1>3. /\ Configure(u, c) = [k \in DOMAIN u |-> Configure(u, c)[k]]
      /\ Configure(u, c).work_path = u.work_path
  <2> DEFINE b == IF c.buffer_size \in 1 .. MaxChunk THEN c.buffer_size ELSE u.buffer_size
             t == IF c.timeout_seconds >= 0 THEN c.timeout_seconds ELSE u.timeout_seconds
             o == IF c.overwrite_policy # "" THEN c.overwrite_policy ELSE u.overwrite_policy
             l == Positive(c.send_bandwidth_limit)
             m == Positive(c.max_connections)
             g == [u EXCEPT !.auto_accept = c.auto_accept, !.buffer_size = b,
                            !.timeout_seconds = t, !.overwrite_policy = o,
                            !.send_bandwidth_limit = l, !.max_connections = m]
  <2>1. Configure(u, c) = g
    BY DEF Configure
  <2> HIDE DEF b, t, o, l, m
  <2>2. g.work_path = u.work_path
    BY <1>2
  <2>3. g = [k \in DOMAIN u |-> g[k]]
    OBVIOUS
  <2> HIDE DEF g
  <2>4. QED
    BY <2>1, <2>2, <2>3
<1>4. "work_path" \in DOMAIN Unset
  BY DEF Unset
<1>5. QED
  BY <1>2, <1>3, <1>4 DEF Prepared, u, v

\* All that a transfer knows of besides the settings is its path.
LEMMA PreparedPath ==
  ASSUME NEW c, NEW w
  PROVE  [[Prepared(Unset, c) EXCEPT !.work_path = w] EXCEPT !.work_path = None] = Prepared(Unset, c)
BY PreparedIs, PathAside

LEMMA CliGoesOn ==
  ASSUME CliInv, UNCHANGED <<used["cli"], cfg["cli"], layers["cli"]>>,
         \/ pc'["cli"] = pc["cli"]
         \/ {pc["cli"], pc'["cli"]} \subseteq {"copy", "fill", "read"}
         \/ pc'["cli"] \notin {"copy", "fill", "read", "options", "transfer"}
  PROVE  CliInv'
BY DEF CliInv, Fresh, CliRunsAsTold

LEMMA GuiGoesOn ==
  ASSUME GuiInv, UNCHANGED <<used["gui"], layers["gui"]>>,
         \/ pc'["gui"] = pc["gui"] /\ (pc["gui"] \in {"running", "save"} \/ cfg'["gui"] = cfg["gui"])
         \/ {pc["gui"], pc'["gui"]} \subseteq {"copy", "fill", "read"} /\ cfg'["gui"] = cfg["gui"]
         \/ {pc["gui"], pc'["gui"]} \subseteq {"running", "save"}
         \/ pc'["gui"] \notin {"copy", "fill", "read", "running", "save"}
  PROVE  GuiInv'
BY DEF GuiInv, Fresh, GuiRunsAsStarted

\* What one program does is nothing to the other.
LEMMA ProgramStep ==
  ASSUME IInv, LayersAre, UsedOK, NEW p \in Programs,
         Start(p) \/ CopyOpen(p) \/ CopyFill(p) \/ Read(p) \/ SaveWrite(p) \/ Crash(p),
         NEW q \in Programs \ {p}
  PROVE  UNCHANGED <<pc[q], used[q], cfg[q], layers[q]>>
<1>0. /\ pc = [r \in Programs |-> pc[r]] /\ used = [r \in Programs |-> used[r]]
      /\ cfg = [r \in Programs |-> cfg[r]] /\ layers = [r \in Programs |-> layers[r]]
  BY DEF IInv, PcOK, AllSound, UsedOK, LayersAre
<1>1. CASE Start(p)
  BY <1>0, <1>1 DEF Start, Goto
<1>2. CASE CopyOpen(p)
  BY <1>0, <1>2 DEF CopyOpen, Goto
<1>3. CASE CopyFill(p)
  BY <1>0, <1>3 DEF CopyFill, Goto
<1>4. CASE Read(p)
  <2>1. /\ \E x : pc' = [pc EXCEPT ![p] = x]
        /\ \E x : used' = [used EXCEPT ![p] = x]
        /\ \E x : cfg' = [cfg EXCEPT ![p] = x]
        /\ \E x : layers' = [layers EXCEPT ![p] = x]
    BY <1>4 DEF Read, Goto, Took
  <2>2. QED
    BY <1>0, <2>1
<1>5. CASE SaveWrite(p)
  BY <1>0, <1>5 DEF SaveWrite, Goto
<1>6. CASE Crash(p)
  BY <1>0, <1>6 DEF Crash, Goto, ghosts
<1>7. QED
  BY <1>1, <1>2, <1>3, <1>4, <1>5, <1>6

\* A program that starts knows the administrator's file.
LEMMA StartFresh ==
  ASSUME IInv, LayersAre, UsedOK, NEW p \in Programs, Start(p)
  PROVE  Fresh(p)' /\ pc'[p] \in {"copy", "read"}
<1>1. /\ used'[p] = Unset /\ cfg'[p] = Apply(Defaults, Layer(sys)) /\ layers'[p] = <<Layer(sys)>>
      /\ pc'[p] \in {"copy", "read"}
  BY DEF Start, Goto, IInv, PcOK, AllSound, UsedOK, LayersAre
<1>2. cfg'[p] = Effective(layers'[p])
  BY <1>1, EffectiveFirst
<1>3. QED
  BY <1>1, <1>2 DEF Fresh

\* A program that has read the user's file runs under all it has read.
LEMMA ReadKnows ==
  ASSUME IInv, LayersAre, UsedOK, NEW p \in Programs, Fresh(p), Read(p)
  PROVE  /\ cfg'[p] = Effective(layers'[p])
         /\ p = "gui" => used'[p] = Prepared(Unset, cfg'[p]) /\ pc'[p] = "running"
         /\ p = "cli" => used'[p] = LogInit(Unset, cfg'[p]) /\ pc'[p] = "options"
<1> DEFINE c == Loaded(cfg[p])
<1>1. cfg'[p] = c /\ layers'[p] = Append(layers[p], Layer(usr))
  BY DEF Read, Took, IInv, AllSound, LayersAre
<1>2. c = Apply(Effective(layers[p]), Layer(usr)) /\ IsSeq(layers[p])
  BY DEF Loaded, Fresh, LayersAre
<1>3. c = Effective(layers'[p])
  BY <1>1, <1>2, EffectiveAppend
<1>4. CASE p = "gui"
  <2>1. used' = [used EXCEPT ![p] = Prepared(used[p], c)] /\ pc' = [pc EXCEPT ![p] = "running"]
    BY <1>4 DEF Read, Prepared, Goto
  <2> HIDE DEF c
  <2>2. used'[p] = Prepared(Unset, c) /\ pc'[p] = "running"
    BY <2>1 DEF Fresh, UsedOK, IInv, PcOK
  <2>3. QED
    BY <1>1, <1>3, <1>4, <2>2
<1>5. CASE p = "cli"
  <2>1. used' = [used EXCEPT ![p] = LogInit(used[p], c)] /\ pc' = [pc EXCEPT ![p] = "options"]
    BY <1>5 DEF Read, Goto
  <2> HIDE DEF c
  <2>2. used'[p] = LogInit(Unset, c) /\ pc'[p] = "options"
    BY <2>1 DEF Fresh, UsedOK, IInv, PcOK
  <2>3. QED
    BY <1>1, <1>3, <1>5, <2>2
<1>6. QED
  BY <1>4, <1>5 DEF Programs

\* One more layer for the command line program, at its place among the options.
LEMMA OneMoreLayer ==
  ASSUME LayersAre, AllSound, CliInv, pc["cli"] = "options", UNCHANGED <<pc, used>>,
         NEW t, cfg' = [cfg EXCEPT !["cli"] = Apply(cfg["cli"], t)],
         layers' = [layers EXCEPT !["cli"] = Append(layers["cli"], t)]
  PROVE  CliInv'
<1>1. cfg'["cli"] = Apply(cfg["cli"], t) /\ layers'["cli"] = Append(layers["cli"], t)
  BY DEF LayersAre, AllSound, Programs
<1>2. IsSeq(layers["cli"]) /\ cfg["cli"] = Effective(layers["cli"])
  BY DEF LayersAre, CliInv, Programs
<1>3. cfg'["cli"] = Effective(layers'["cli"])
  BY <1>1, <1>2, EffectiveAppend
<1>4. QED
  BY <1>3 DEF CliInv, CliRunsAsTold

LEMMA BeginKnows ==
  ASSUME IInv, UsedOK, LayersAre, CliInv, Begin
  PROVE  CliInv'
<1> DEFINE c == cfg["cli"]
           u == Discovery(LogInit(used["cli"], c), c)
<1>1. /\ pc["cli"] = "options" /\ UNCHANGED <<cfg, layers>>
      /\ \/ pc' = [pc EXCEPT !["cli"] = "off"]
         \/ /\ pc' = [pc EXCEPT !["cli"] = "transfer"]
            /\ \E w \in {"PATH", Expand(c.save_dir)} :
                 used' = [used EXCEPT !["cli"] = [Configure(u, c) EXCEPT !.work_path = w]]
  BY DEF Begin, Goto, ghosts
<1>2. CASE pc' = [pc EXCEPT !["cli"] = "off"]
  <2>1. pc'["cli"] = "off"
    BY <1>2 DEF IInv, PcOK, Programs
  <2>2. QED
    BY <2>1 DEF CliInv, CliRunsAsTold
<1>3. CASE /\ pc' = [pc EXCEPT !["cli"] = "transfer"]
           /\ \E w \in {"PATH", Expand(c.save_dir)} :
                used' = [used EXCEPT !["cli"] = [Configure(u, c) EXCEPT !.work_path = w]]
  <2>1. PICK w \in {"PATH", Expand(c.save_dir)} :
               used' = [used EXCEPT !["cli"] = [Configure(u, c) EXCEPT !.work_path = w]]
    BY <1>3
  <2>2. Configure(u, c) = Prepared(Unset, c)
    <3>1. Configure(u, c) = Prepared(used["cli"], c)
      BY DEF Prepared
    <3> HIDE DEF c, u
    <3>2. OnlyLogSet(used["cli"])
      BY <1>1 DEF CliInv
    <3>3. QED
      BY <3>1, <3>2, LogSet
  <2> HIDE DEF u
  <2>3. used'["cli"] = [Prepared(Unset, c) EXCEPT !.work_path = w] /\ pc'["cli"] = "transfer"
    BY <1>3, <2>1, <2>2 DEF UsedOK, IInv, PcOK, Programs
  <2>4. c = Effective(layers["cli"])
    BY <1>1 DEF CliInv
  <2> HIDE DEF c
  <2>5. [used'["cli"] EXCEPT !.work_path = None] = Prepared(Unset, c)
    BY <2>3, PreparedPath
  <2>6. used'["cli"].work_path = w
    BY <2>3, PreparedIs
  <2>7. cfg'["cli"] = c /\ Effective(layers'["cli"]) = c
    BY <1>1, <2>4 DEF c
  <2>8. CliRunsAsTold'
    BY <2>5, <2>6, <2>7 DEF CliRunsAsTold, Prepared
  <2>9. QED
    BY <2>3, <2>7, <2>8 DEF CliInv
<1>4. QED
  BY <1>1, <1>2, <1>3

LEMMA CliStep ==
  ASSUME IInv, LayersAre, UsedOK, CliInv, Next
  PROVE  CliInv'
<1>0. "cli" \in Programs /\ "gui" \in Programs /\ "cli" # "gui"
  BY DEF Programs
<1>1. ASSUME NEW p \in Programs,
             Start(p) \/ CopyOpen(p) \/ CopyFill(p) \/ Read(p) \/ SaveWrite(p) \/ Crash(p)
      PROVE  CliInv'
  <2>1. CASE p # "cli"
    <3>1. UNCHANGED <<pc["cli"], used["cli"], cfg["cli"], layers["cli"]>>
      BY <1>0, <1>1, <2>1, ProgramStep
    <3>2. QED
      BY <3>1, CliGoesOn
  <2>2. CASE p = "cli" /\ Start(p)
    <3>1. Fresh("cli")' /\ pc'["cli"] \in {"copy", "read"}
      BY <2>2, StartFresh
    <3>2. QED
      BY <3>1 DEF CliInv, CliRunsAsTold
  <2>3. CASE p = "cli" /\ (CopyOpen(p) \/ CopyFill(p))
    <3>1. /\ UNCHANGED <<used["cli"], cfg["cli"], layers["cli"]>>
          /\ {pc["cli"], pc'["cli"]} \subseteq {"copy", "fill", "read"}
      BY <2>3 DEF CopyOpen, CopyFill, Goto, IInv, PcOK
    <3>2. QED
      BY <3>1, CliGoesOn
  <2>4. CASE p = "cli" /\ Read(p)
    <3>1. Fresh("cli")
      BY <2>4 DEF Read, CliInv
    <3>2. /\ cfg'["cli"] = Effective(layers'["cli"])
          /\ used'["cli"] = LogInit(Unset, cfg'["cli"]) /\ pc'["cli"] = "options"
      BY <2>4, <3>1, ReadKnows
    <3>3. OnlyLogSet(used'["cli"])
      BY <3>2, LogSet, UnsetOnlyLog
    <3>4. QED
      BY <3>2, <3>3 DEF CliInv, CliRunsAsTold
  <2>5. CASE p = "cli" /\ (SaveWrite(p) \/ Crash(p))
    <3>1. /\ UNCHANGED <<used["cli"], cfg["cli"], layers["cli"]>>
          /\ pc'["cli"] \in {"off", "running"}
      BY <2>5 DEF SaveWrite, Crash, Goto, IInv, PcOK, ghosts
    <3>2. QED
      BY <3>1, CliGoesOn
  <2>6. QED
    BY <1>1, <2>1, <2>2, <2>3, <2>4, <2>5
<1>2. CASE Option
  <2>1. PICK k \in Optional : \E v \in Options(k) :
               /\ cfg' = [cfg EXCEPT !.cli[k] = Told(k, v)]
               /\ layers' = [layers EXCEPT !.cli = Append(@, [x \in {k} |-> Told(k, v)])]
    BY <1>2 DEF Option
  <2>2. PICK v \in Options(k) :
               /\ cfg' = [cfg EXCEPT !.cli[k] = Told(k, v)]
               /\ layers' = [layers EXCEPT !.cli = Append(@, [x \in {k} |-> Told(k, v)])]
    BY <2>1
  <2> DEFINE t == [x \in {k} |-> Told(k, v)]
             d == [cfg["cli"] EXCEPT ![k] = Told(k, v)]
  <2>3. cfg' = [cfg EXCEPT !["cli"] = d]
    BY <2>2
  <2>4. layers' = [layers EXCEPT !["cli"] = Append(layers["cli"], t)]
    BY <2>2
  <2>5. d = Apply(cfg["cli"], t)
    <3>1. k \in Fields /\ v # Wrong
      BY WrongAssumption DEF Optional, Options
    <3>2. Sound(cfg["cli"])
      BY <1>0 DEF IInv, AllSound
    <3>3. d = [cfg["cli"] EXCEPT ![k] = Told(k, v)] /\ t = [x \in {k} |-> Told(k, v)]
      OBVIOUS
    <3> HIDE DEF d, t
    <3>4. QED
      BY <3>1, <3>2, <3>3, OptionApplies
  <2> HIDE DEF d, t
  <2>6. cfg' = [cfg EXCEPT !["cli"] = Apply(cfg["cli"], t)]
    BY <2>3, <2>5
  <2>7. pc["cli"] = "options" /\ UNCHANGED <<pc, used>>
    BY <1>2 DEF Option
  <2>8. QED
    BY <2>4, <2>6, <2>7, OneMoreLayer DEF IInv
<1>3. CASE Profile
  <2>1. /\ pc["cli"] = "options" /\ UNCHANGED <<pc, used>>
        /\ cfg' = [cfg EXCEPT !["cli"] = Apply(cfg["cli"], Layer(profile))]
        /\ layers' = [layers EXCEPT !["cli"] = Append(layers["cli"], Layer(profile))]
    BY <1>3 DEF Profile, Took
  <2>2. QED
    BY <2>1, OneMoreLayer DEF IInv
<1>4. CASE SaveConfig \/ ShowConfig \/ End
  <2>1. /\ UNCHANGED <<used["cli"], cfg["cli"], layers["cli"]>>
        /\ pc'["cli"] \in {"off", "save"}
    BY <1>0, <1>4 DEF SaveConfig, Save, ShowConfig, End, Goto, IInv, PcOK, ghosts
  <2>2. QED
    BY <2>1, CliGoesOn
<1>5. CASE Begin
  BY <1>5, BeginKnows
<1>6. CASE Click \/ Key \/ PickDevice \/ DialogResult
  <2>1. \E f, v : Put(f, v) \/ UNCHANGED cfg
    BY <1>6 DEF Click, Key, PickDevice, DialogResult
  <2>2. cfg'["cli"] = cfg["cli"]
    BY <1>0, <2>1 DEF Put, IInv, AllSound
  <2>3. UNCHANGED <<pc, used, layers>>
    BY <1>6 DEF Click, Key, PickDevice, DialogResult, ghosts
  <2>4. QED
    BY <2>2, <2>3, CliGoesOn
<1>7. CASE Focus \/ Browse \/ DialogEnds \/ Edit
  BY <1>7, CliGoesOn DEF Focus, Browse, DialogEnds, Edit, ghosts
<1>8. CASE Frame
  <2>1. used' = [used EXCEPT !["gui"] = [used["gui"] EXCEPT !.auto_accept = cfg["gui"].auto_accept]]
    BY <1>8 DEF Frame
  <2>2. used'["cli"] = used["cli"] /\ UNCHANGED <<pc, cfg, layers>>
    BY <1>0, <1>8, <2>1 DEF Frame, ghosts, UsedOK
  <2>3. QED
    BY <2>2, CliGoesOn
<1>9. CASE GuiSave
  <2>1. pc'["cli"] = pc["cli"] /\ UNCHANGED <<cfg, used, layers>>
    BY <1>0, <1>9 DEF GuiSave, Save, Goto, IInv, PcOK
  <2>2. QED
    BY <2>1, CliGoesOn
<1>10. QED
  BY <1>1, <1>2, <1>3, <1>4, <1>5, <1>6, <1>7, <1>8, <1>9 DEF Next

LEMMA GuiStep ==
  ASSUME IInv, LayersAre, UsedOK, GuiInv, Next
  PROVE  GuiInv'
<1>0. "cli" \in Programs /\ "gui" \in Programs /\ "cli" # "gui"
  BY DEF Programs
<1>1. ASSUME NEW p \in Programs,
             Start(p) \/ CopyOpen(p) \/ CopyFill(p) \/ Read(p) \/ SaveWrite(p) \/ Crash(p)
      PROVE  GuiInv'
  <2>1. CASE p # "gui"
    <3>1. UNCHANGED <<pc["gui"], used["gui"], cfg["gui"], layers["gui"]>>
      BY <1>0, <1>1, <2>1, ProgramStep
    <3>2. QED
      BY <3>1, GuiGoesOn
  <2>2. CASE p = "gui" /\ Start(p)
    <3>1. Fresh("gui")' /\ pc'["gui"] \in {"copy", "read"}
      BY <2>2, StartFresh
    <3>2. QED
      BY <3>1 DEF GuiInv, GuiRunsAsStarted
  <2>3. CASE p = "gui" /\ (CopyOpen(p) \/ CopyFill(p))
    <3>1. /\ UNCHANGED <<used["gui"], cfg["gui"], layers["gui"]>>
          /\ {pc["gui"], pc'["gui"]} \subseteq {"copy", "fill", "read"}
      BY <2>3 DEF CopyOpen, CopyFill, Goto, IInv, PcOK
    <3>2. QED
      BY <3>1, GuiGoesOn
  <2>4. CASE p = "gui" /\ Read(p)
    <3>1. Fresh("gui")
      BY <2>4 DEF Read, GuiInv
    <3>2. /\ cfg'["gui"] = Effective(layers'["gui"])
          /\ used'["gui"] = Prepared(Unset, cfg'["gui"]) /\ pc'["gui"] = "running"
      BY <2>4, <3>1, ReadKnows
    <3>3. used'["gui"] = Prepared(Unset, Effective(layers'["gui"]))
      BY <3>2
    <3>4. QED
      BY <3>2, <3>3 DEF GuiInv, GuiRunsAsStarted, Prepared
  <2>5. CASE p = "gui" /\ SaveWrite(p)
    <3>1. /\ UNCHANGED <<used["gui"], cfg["gui"], layers["gui"]>>
          /\ pc["gui"] = "save" /\ pc'["gui"] \in {"off", "running"}
      BY <2>5 DEF SaveWrite, Goto, IInv, PcOK
    <3>2. QED
      BY <3>1, GuiGoesOn
  <2>6. CASE p = "gui" /\ Crash(p)
    <3>1. UNCHANGED <<used["gui"], cfg["gui"], layers["gui"]>> /\ pc'["gui"] = "off"
      BY <2>6 DEF Crash, Goto, IInv, PcOK, ghosts
    <3>2. QED
      BY <3>1, GuiGoesOn
  <2>7. QED
    BY <1>1, <2>1, <2>2, <2>3, <2>4, <2>5, <2>6
<1>2. CASE Option \/ Profile
  <2>1. /\ \E x : cfg' = [cfg EXCEPT !["cli"] = x]
        /\ \E x : layers' = [layers EXCEPT !["cli"] = x]
        /\ UNCHANGED <<pc, used>>
    <3>1. CASE Option
      <4>1. \E x : cfg' = [cfg EXCEPT !["cli"] = x]
        BY <3>1 DEF Option
      <4>2. \E x : layers' = [layers EXCEPT !["cli"] = x]
        BY <3>1 DEF Option
      <4>3. QED
        BY <3>1, <4>1, <4>2 DEF Option
    <3>2. CASE Profile
      BY <3>2 DEF Profile, Took
    <3>3. QED
      BY <1>2, <3>1, <3>2
  <2>2. cfg'["gui"] = cfg["gui"] /\ layers'["gui"] = layers["gui"]
    BY <1>0, <2>1 DEF IInv, AllSound, LayersAre
  <2>3. QED
    BY <2>1, <2>2, GuiGoesOn
<1>3. CASE SaveConfig \/ ShowConfig \/ End
  <2>1. pc'["gui"] = pc["gui"] /\ UNCHANGED <<used, cfg, layers>>
    BY <1>0, <1>3 DEF SaveConfig, Save, ShowConfig, End, Goto, IInv, PcOK, ghosts
  <2>2. QED
    BY <2>1, GuiGoesOn
<1>4. CASE Begin
  <2>1. (\E x : used' = [used EXCEPT !["cli"] = x]) /\ (\E x : pc' = [pc EXCEPT !["cli"] = x])
        /\ UNCHANGED <<cfg, layers>>
    BY <1>4 DEF Begin, Goto, ghosts
  <2>2. used'["gui"] = used["gui"] /\ pc'["gui"] = pc["gui"]
    BY <1>0, <2>1 DEF IInv, PcOK, UsedOK
  <2>3. QED
    BY <2>1, <2>2, GuiGoesOn
<1>5. CASE Click \/ Key \/ PickDevice \/ DialogResult
  <2>1. pc["gui"] = "running" /\ UNCHANGED <<pc, used, layers>>
    BY <1>5 DEF Click, Key, PickDevice, DialogResult, Running, ghosts
  <2>2. QED
    BY <2>1, GuiGoesOn
<1>6. CASE Focus \/ Browse \/ DialogEnds \/ Edit
  BY <1>6, GuiGoesOn DEF Focus, Browse, DialogEnds, Edit, ghosts
<1>7. CASE Frame
  <2> DEFINE u == [used["gui"] EXCEPT !.auto_accept = cfg["gui"].auto_accept]
  <2>1. used' = [used EXCEPT !["gui"] = u] /\ UNCHANGED <<pc, cfg, layers>> /\ pc["gui"] = "running"
    BY <1>7 DEF Frame, Running, ghosts
  <2>2. \A k \in DOMAIN Unset \ {"auto_accept"} : u[k] = used["gui"][k]
    BY <1>0 DEF UsedOK, Usable
  <2> HIDE DEF u
  <2>3. used'["gui"] = u
    BY <1>0, <2>1 DEF UsedOK
  <2>4. \A k \in DOMAIN Unset \ {"auto_accept"} : used'["gui"][k] = used["gui"][k]
    BY <2>2, <2>3
  <2>5. QED
    BY <2>1, <2>4 DEF GuiInv, GuiRunsAsStarted
<1>8. CASE GuiSave
  <2>1. UNCHANGED <<cfg, used, layers>> /\ pc["gui"] = "running"
        /\ pc'["gui"] \in {"save", "running", "off"}
    BY <1>0, <1>8 DEF GuiSave, Save, Running, Goto, IInv, PcOK
  <2>2. QED
    BY <2>1, GuiGoesOn
<1>9. QED
  BY <1>1, <1>2, <1>3, <1>4, <1>5, <1>6, <1>7, <1>8 DEF Next

RunsInv == IInv /\ LayersAre /\ UsedOK /\ CliInv /\ GuiInv

LEMMA RunsInvariance == Spec => []RunsInv
<1>1. Init => RunsInv
  <2> SUFFICES ASSUME Init PROVE RunsInv
    OBVIOUS
  <2>1. IInv
    BY InitIInv
  <2>2. <<>> \in Seq({})
    OBVIOUS
  <2>3. LayersAre
    BY <2>2 DEF Init, LayersAre, IsSeq
  <2>4. UsedOK
    BY UnsetUsable DEF Init, UsedOK
  <2>5. pc["cli"] = "off" /\ pc["gui"] = "off"
    BY DEF Init, Programs
  <2>6. CliInv /\ GuiInv
    BY <2>5 DEF CliInv, GuiInv, CliRunsAsTold, GuiRunsAsStarted
  <2>7. QED
    BY <2>1, <2>3, <2>4, <2>6 DEF RunsInv
<1>2. RunsInv /\ [Next]_vars => RunsInv'
  <2>1. ASSUME RunsInv, Next PROVE RunsInv'
    BY <2>1, SoundStep, FileStep, LayersStep, UsedStep, CliStep, GuiStep
       DEF RunsInv, IInv, FileInv
  <2>2. ASSUME RunsInv, UNCHANGED vars PROVE RunsInv'
    <3>1. UNCHANGED <<pc, used, cfg, layers>>
      BY <2>2 DEF vars, ghosts
    <3>2. CliInv' /\ GuiInv'
      BY <2>2, <3>1, CliGoesOn, GuiGoesOn DEF RunsInv
    <3>3. IInv' /\ LayersAre' /\ UsedOK'
      BY <2>2, <3>1, StutterIInv DEF RunsInv, LayersAre, UsedOK
    <3>4. QED
      BY <3>2, <3>3 DEF RunsInv
  <2>3. QED
    BY <2>1, <2>2
<1>3. QED
  BY <1>1, <1>2, PTL DEF Spec

\* A transfer of the command line program runs under the last word on every setting, in
\* whatever order, and however often, files and options gave it (cli.c:170-280, 437-494).
THEOREM CliRunsUnderTheLastWord == Spec => []CliRunsAsTold
<1>1. RunsInv => CliRunsAsTold
  BY DEF RunsInv, CliInv
<1>2. QED
  BY <1>1, RunsInvariance, PTL

\* Whatever is clicked, typed, browsed and saved, the GUI's transfers, log and responder work
\* as the files said when it was started, but for auto_accept (main.c:381-386, 673).
THEOREM GuiRunsAsItStarted == Spec => []GuiRunsAsStarted
<1>1. RunsInv => GuiRunsAsStarted
  BY DEF RunsInv, GuiInv
<1>2. QED
  BY <1>1, RunsInvariance, PTL
=============================================================================
