--------------------------- MODULE SettingsForms ----------------------------
(***************************************************************************)
(* Two forms of the settings and what becomes of what they post.           *)
(*                                                                         *)
(* The config file of a scanner: a path and a template are typed into the   *)
(* form of a group (groups-section.tsx), judged when they are saved         *)
(* (actions/settings.ts), rendered for each box (deviceConfig.ts) and       *)
(* judged again by the box that writes the file (deviceconfig.go).  Two     *)
(* programs judge a path and two judge a template, each in its own way.     *)
(*                                                                         *)
(* The card of an app target (app-target-card.tsx, updateAppTarget): one    *)
(* form with two switches, of which one also locks the fields of the        *)
(* policy.  A locked field is not posted, and an emptied one is.            *)
(***************************************************************************)
EXTENDS Integers, Sequences, FiniteSets

\* A path is what stands between its slashes: "/a/b" is the absolute <<"a", "b">>.
\* The root is <<Void>>, since nothing follows its slash; Void is the empty text.
Void == "void"
Path(absolute, segments) == [absolute |-> absolute, segments |-> segments]
IsWithin(segments, root) ==
  Len(root) <= Len(segments) /\ \A i \in DOMAIN root : segments[i] = root[i]

SystemRoots ==
  {<<"system">>, <<"vendor">>, <<"product">>, <<"apex">>,
   <<"proc">>, <<"sys">>, <<"dev">>, <<"boot">>}
OwnDirectory == <<"data", "adb", "magnemite">>

\* normalisePath of the dashboard: a stack of names.
Stack(segments) ==
  LET stack[i \in 0..Len(segments)] ==
        IF i = 0 THEN <<>>
        ELSE IF segments[i] \in {Void, "."} THEN stack[i - 1]
        ELSE IF segments[i] = ".." THEN SubSeq(stack[i - 1], 1, Len(stack[i - 1]) - 1)
        ELSE Append(stack[i - 1], segments[i])
  IN stack
NormalisePath(segments) == Stack(segments)[Len(segments)]
Spelled(segments) == IF segments = <<>> THEN <<Void>> ELSE segments   \* join, behind a slash

CheckConfigPath(path) ==
  /\ path.absolute
  /\ path.segments = Spelled(NormalisePath(path.segments))
  /\ \A root \in SystemRoots : ~IsWithin(path.segments, root)
  /\ ~(IsWithin(path.segments, OwnDirectory) /\ path.segments # OwnDirectory)

\* path.Clean of Go leaves an absolute path alone if it names no step twice.
IsClean(segments) ==
  segments = <<Void>> \/ \A i \in DOMAIN segments : segments[i] \notin {Void, ".", ".."}

\* The box, which was started with a config of its own.
CheckPath(path, own) ==
  /\ path.absolute /\ IsClean(path.segments)
  /\ \A root \in SystemRoots \cup {OwnDirectory} : ~IsWithin(path.segments, root)
  /\ path.segments # own

------------------------------------------------------------------------------
\* A template is text with tokens in it.  "sound": it is JSON with a value in place
\* of each token that is not inside a string.
Placeholders ==
  {"device.id", "device.name", "device.serial", "device.model", "device.manufacturer",
   "device.androidVersion", "device.abi", "device.localIp", "device.publicIp",
   "device.rotomOrigin", "device.rotomDeviceId", "group.name"}
Token(name, quoted) == [token |-> TRUE, name |-> name, quoted |-> quoted]
Text(name) == [token |-> FALSE, name |-> name, quoted |-> TRUE]
TokensOf(pieces) == {pieces[i].name : i \in {j \in DOMAIN pieces : pieces[j].token}}

\* What the form saves: the stand-in is a bare word, which is JSON only in a string.
CheckConfigTemplate(template) ==
  LET pieces == template.pieces IN
  /\ TokensOf(pieces) \subseteq Placeholders
  /\ template.sound /\ \A i \in DOMAIN pieces : pieces[i].token => pieces[i].quoted

\* A device is what each placeholder reads from it: a text, or nothing.
IsSet(device, name) == device[name] # Void
Substituted(pieces, device) ==
  [i \in DOMAIN pieces |->
     IF pieces[i].token /\ pieces[i].name \in Placeholders /\ IsSet(device, pieces[i].name)
     THEN [pieces[i] EXCEPT !.token = FALSE, !.name = device[pieces[i].name]] ELSE pieces[i]]
RenderTemplate(pieces, device) ==
  LET unknown == TokensOf(pieces) \ Placeholders
      empty == {name \in TokensOf(pieces) \cap Placeholders : ~IsSet(device, name)}
  IN [reason |-> IF unknown # {} THEN "unknown" ELSE IF empty # {} THEN "empty" ELSE "none",
      about |-> IF unknown # {} THEN unknown ELSE empty,
      text |-> Substituted(pieces, device)]

\* What is substituted is escaped, so inside a string it stays one; outside it is
\* JSON only if the value is JSON by itself, which is for "plain" to say.
IsJson(template, text, plain) ==
  template.sound /\ \A i \in DOMAIN text :
    text[i].quoted \/ (text[i].name \in plain /\ ~text[i].token)

NoGroup == [there |-> FALSE]
NoFile == [what |-> "nothing"]
NotSent(reason, about) == [what |-> "refused", reason |-> reason, about |-> about]
RenderConfig(group, device, plain) ==
  IF ~group.there \/ ~group.configured THEN NoFile
  ELSE LET rendered == RenderTemplate(group.template.pieces, device) IN
       IF rendered.reason # "none" THEN NotSent(rendered.reason, rendered.about)
       ELSE IF ~IsJson(group.template, rendered.text, plain) THEN NotSent("json", {})
       ELSE [what |-> "file", path |-> group.path, text |-> rendered.text]

\* What goes along with an install: only of the scanner, only if the rollout writes
\* configs, and only to an agent that says it can.
Attached(writes, package, group, device, plain, capable) ==
  LET config == RenderConfig(group, device, plain) IN
  IF writes /\ group.there /\ group.package = package /\ config.what = "file" /\ capable
  THEN config ELSE NoFile

------------------------------------------------------------------------------
\* The form of a group.  A field left empty is none; path and template come together.
SavesGroup(form) ==
  /\ form.package # "wrong"
  /\ form.hasPath = form.hasTemplate
  /\ form.hasPath => CheckConfigPath(form.path)
  /\ form.hasTemplate => CheckConfigTemplate(form.template)
SavedGroup(form) ==
  [there |-> TRUE, configured |-> form.hasPath /\ form.hasTemplate,
   package |-> form.package, path |-> form.path, template |-> form.template]

\* What "fill from" puts into the form, whatever was there.
Presets ==
  LET inTmp(file) == Path(TRUE, <<"data", "local", "tmp", file>>)
      naming(names) == [sound |-> TRUE, pieces |-> [i \in DOMAIN names |-> Token(names[i], TRUE)]]
      preset(package, file, names) ==
        [package |-> package, path |-> inTmp(file), template |-> naming(names)]
  IN {preset("aegis", "aegis_config.json", <<"device.name">>),
      preset("atlas", "atlas_config.json", <<"device.name">>),
      preset("gocheats", "config.json", <<"device.name">>),
      preset("cosmog", "cosmog.json", <<"device.name", "device.publicIp">>)}
ApplyPreset(form, preset) ==
  [form EXCEPT !.package = preset.package, !.hasPath = TRUE, !.path = preset.path,
               !.hasTemplate = TRUE, !.template = preset.template]

------------------------------------------------------------------------------
(* The card of an app target. *)

Numbers == {"canaryCount", "soakMinutes", "maxAttempts", "retryBackoffSeconds",
            "updateCooldownMinutes"}
Default(name) ==
  CASE name = "canaryCount" -> 1 [] name = "soakMinutes" -> 30 [] name = "maxAttempts" -> 3
    [] name = "retryBackoffSeconds" -> 60 [] name = "updateCooldownMinutes" -> 0

\* A posted field: not there, not a number, or a number; Number("") is 0.
Unsent == [sent |-> FALSE, finite |-> FALSE, value |-> 0]
Junk == [sent |-> TRUE, finite |-> FALSE, value |-> 0]
Typed(n) == [sent |-> TRUE, finite |-> TRUE, value |-> n]
Emptied == Typed(0)

\* A time of day as it is typed: left blank, HH:MM, or something else.
BlankTime == "blank"
WrongTime == "wrong"
NoTime == [sent |-> FALSE, text |-> BlankTime]
Time(text) == [sent |-> TRUE, text |-> text]

\* The card as it opens on a row.
CardOf(row) ==
  [enabled |-> row.enabled, approve |-> row.approve, sources |-> row.sources,
   package |-> row.package, named |-> TRUE,
   numbers |-> [name \in Numbers |-> Typed(row.numbers[name])],
   start |-> row.start, end |-> row.end]

\* What a submit posts: the policy only while the switch is on.
Posted(card) ==
  [enabled |-> card.enabled, approve |-> card.approve, sources |-> card.sources,
   package |-> card.package, named |-> card.named,
   numbers |-> [name \in Numbers |-> IF card.enabled THEN card.numbers[name] ELSE Unsent],
   start |-> IF card.enabled THEN Time(card.start) ELSE NoTime,
   end |-> IF card.enabled THEN Time(card.end) ELSE NoTime]

\* int(name, fallback), and the floor under the attempts.
ParsedNumber(name, field) ==
  LET n == IF field.finite /\ field.value >= 0 THEN field.value ELSE Default(name) IN
  IF name = "maxAttempts" /\ n < 1 THEN 1 ELSE n

SendsWindow(form) == form.start.sent \/ form.end.sent
RefusesApp(form, feeds, taken) ==
  \/ form.package = "wrong" \/ ~form.named
  \/ form.package \in taken
  \/ form.sources = {} \/ ~(form.sources \subseteq feeds)
RefusesTarget(form, feeds, taken) ==
  \/ RefusesApp(form, feeds, taken)
  \/ SendsWindow(form) /\ (WrongTime \in {form.start.text, form.end.text}
                            \/ (form.start.text = BlankTime) # (form.end.text = BlankTime))

Updated(row, form) ==
  [row EXCEPT !.enabled = form.enabled, !.approve = form.approve, !.sources = form.sources,
              !.package = form.package,
              !.numbers = [name \in Numbers |->
                 IF form.numbers[name].sent THEN ParsedNumber(name, form.numbers[name]) ELSE @[name]],
              !.start = IF SendsWindow(form) THEN form.start.text ELSE @,
              !.end = IF SendsWindow(form) THEN form.end.text ELSE @]

\* The card is saved over the row, by others' packages and the feeds there are.
Save(row, card, feeds, taken) ==
  IF RefusesTarget(Posted(card), feeds, taken) THEN row ELSE Updated(row, Posted(card))

\* A new one starts from the defaults of the table, with both switches off.
Create(form, feeds, taken) ==
  IF RefusesApp(form, feeds, taken) THEN {} ELSE
  {[enabled |-> FALSE, approve |-> FALSE, sources |-> form.sources, package |-> form.package,
    numbers |-> [name \in Numbers |-> Default(name)], start |-> BlankTime, end |-> BlankTime]}

\* A target is removed with its versions, unless a rollout holds one of them.
MayDelete(there, rollouts) == there /\ rollouts = 0
=============================================================================
