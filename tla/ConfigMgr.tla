------------------------------ MODULE ConfigMgr ------------------------------
(***************************************************************************)
(* The configuration of the server (Config.cpp).  The options come from    *)
(* layers of files: the .dist file of the application, which is mandatory, *)
(* its .conf file, and a .dist and a .conf file for every module.  A       *)
(* mandatory file defines options; an optional one may only give another   *)
(* value to an option that is there.                                       *)
(*                                                                         *)
(* A line is a sequence of lexemes, a file a sequence of lines; blanks are *)
(* not lexemes, since the parser trims them.  Files may be edited at any   *)
(* time, so every load reads any of the contents its file may have.  The   *)
(* owner calls Configure, LoadAppConfigs and LoadModulesConfigs in any     *)
(* order, from one thread, as main does; each file is a step of its own,   *)
(* taken under _configLock.                                                *)
(***************************************************************************)
EXTENDS Integers, Sequences, FiniteSets, SequencesExt

CONSTANTS Contents,     \* per file: what it may contain
          ModuleLists,  \* the lists given to Configure, as lexemes
          MaxModules,   \* bound on the modules configured; one more may be listed
          MaxLoaded,    \* bound on the files loaded since the last LoadInitial
          Missing       \* a file that cannot be opened or read

App == <<"app">>
Dist(n) == <<n, ".conf.dist">>
Conf(n) == <<n, ".conf">>
Files == DOMAIN Contents

VARIABLES options,     \* _configOptions
          usingDist,   \* _usingDistConfig
          additional,  \* _additionalFiles
          listed,      \* _moduleConfigFiles
          step,        \* the call that is running and the file it loads next
          returned,    \* the last call that returned, and its result
          loaded       \* history: the files loaded since options was empty

cvars == <<options, usingDist, additional, listed, step, returned, loaded>>

NoOptions == [k \in {} |-> <<>>]
Idle == [call |-> "none", reload |-> FALSE, at |-> 0, next |-> "dist"]

-----------------------------------------------------------------------------
(* Text.                                                                   *)

\* The position of the first x of s, or the one behind s.
FirstOf(s, x) == Min({Len(s) + 1} \cup {i \in DOMAIN s : s[i] = x})
Before(s, x) == SubSeq(s, 1, FirstOf(s, x) - 1)
After(s, x) == SubSeq(s, FirstOf(s, x) + 1, Len(s))

\* The k-th of the positions P.
Nth(P, k) == CHOOSE i \in P : Cardinality({j \in P : j <= i}) = k

\* s without its elements x.
Without(s, x) ==
    LET P == {i \in DOMAIN s : s[i] # x}
    IN  [k \in 1..Cardinality(P) |-> s[Nth(P, k)]]

\* The texts between the two ends of str and the separators in it.
Tokenize(str, sep, keepEmpty) ==
    LET P == {0, Len(str) + 1} \cup {i \in DOMAIN str : str[i] = sep}
        tokens == [k \in 1..(Cardinality(P) - 1) |-> SubSeq(str, Nth(P, k) + 1, Nth(P, k + 1) - 1)]
    IN  IF keepEmpty THEN tokens ELSE Without(tokens, <<>>)

\* The names of modules that a list given to Configure holds.
Names(list) == Tokenize(list, ",", FALSE)

\* A file is a sequence of lines, a line one of lexemes, and no module has the
\* name of the application, whose files it would share.
ASSUME ConfigAssumption ==
    /\ \A f \in Files : \A t \in Contents[f] \ {Missing} :
          t \in Seq(ToSet(t)) /\ \A i \in DOMAIN t : t[i] \in Seq(ToSet(t[i]))
    /\ \A list \in ModuleLists : Names(list) \in Seq(ToSet(Names(list)))
                                /\ App \notin ToSet(Names(list))

\* A line up to its comment.
Uncommented(line) == Before(line, "#")

IsOption(line) == /\ line # <<>>
                  /\ Head(line) \notin {"#", "["}
                  /\ "=" \in ToSet(Uncommented(line))

EntryOf(line) == Before(Uncommented(line), "=")
ValueOf(line) == Without(After(Uncommented(line), "="), "quote")

\* The first line of text for option k.
FirstFor(text, k) ==
    CHOOSE i \in DOMAIN text : /\ IsOption(text[i]) /\ EntryOf(text[i]) = k
                              /\ \A j \in 1..(i - 1) : IsOption(text[j]) => EntryOf(text[j]) # k

\* fileConfigs: of several lines for an option the first counts.
FileConfigs(text) ==
    [k \in {EntryOf(text[i]) : i \in {j \in DOMAIN text : IsOption(text[j])}} |->
        ValueOf(text[FirstFor(text, k)])]

\* ParseFile succeeds: the file can be read and has an option.
Parses(text) == text # Missing /\ FileConfigs(text) # NoOptions

AddKeys(opts, new, isOptional) ==
    [k \in DOMAIN opts \cup (IF isOptional THEN {} ELSE DOMAIN new) |->
        IF k \in DOMAIN new THEN new[k] ELSE opts[k]]

-----------------------------------------------------------------------------
(* The operations.                                                         *)

CInit == /\ options = NoOptions
         /\ usingDist = FALSE
         /\ additional = <<>>
         /\ listed = <<>>
         /\ step = Idle
         /\ returned = [call |-> "none", reload |-> FALSE, ok |-> FALSE]
         /\ loaded = <<>>

Return(ok) == /\ step' = Idle
              /\ returned' = [call |-> step.call, reload |-> step.reload, ok |-> ok]

\* LoadFile puts text over opts; the files so far are old.
LoadFile(opts, old, file, text, isOptional) ==
    /\ options' = AddKeys(opts, FileConfigs(text), isOptional)
    /\ loaded' = Append(old, [file |-> file, text |-> text, optional |-> isOptional])

\* Names are added to those of earlier calls.
Configure(list) ==
    /\ step = Idle
    /\ Len(additional) + Len(Names(list)) <= MaxModules
    /\ additional' = additional \o Names(list)
    /\ returned' = [call |-> "Configure", reload |-> FALSE, ok |-> TRUE]
    /\ UNCHANGED <<options, usingDist, listed, step, loaded>>

CallLoadAppConfigs(isReload) ==
    /\ step = Idle
    /\ step' = [call |-> "LoadAppConfigs", reload |-> isReload, at |-> 1, next |-> "dist"]
    /\ UNCHANGED <<options, usingDist, additional, listed, returned, loaded>>

\* A plausible bug of LoadInitial: the options are cleared only when the file
\* can be parsed.
LoadInitialLate(text) ==
    /\ step.call = "LoadAppConfigs" /\ step.next = "dist"
    /\ IF Parses(text)
       THEN /\ LoadFile(NoOptions, <<>>, Dist(App), text, FALSE)
            /\ step' = [step EXCEPT !.next = "conf"]
            /\ UNCHANGED returned
       ELSE /\ loaded' = <<>>
            /\ Return(FALSE)
            /\ UNCHANGED options
    /\ UNCHANGED <<usingDist, additional, listed>>

\* The options are cleared before the mandatory file is opened.
LoadInitial(text) ==
    /\ step.call = "LoadAppConfigs" /\ step.next = "dist"
    /\ IF Parses(text)
       THEN /\ LoadFile(NoOptions, <<>>, Dist(App), text, FALSE)
            /\ step' = [step EXCEPT !.next = "conf"]
            /\ UNCHANGED returned
       ELSE /\ options' = NoOptions
            /\ loaded' = <<>>
            /\ Return(FALSE)
    /\ UNCHANGED <<usingDist, additional, listed>>

\* A plausible bug of LoadAppConfigs: an optional file without an option is
\* reported as used.
LoadAppConfUsed(text) ==
    /\ step.call = "LoadAppConfigs" /\ step.next = "conf"
    /\ IF Parses(text) THEN LoadFile(options, loaded, Conf(App), text, TRUE)
                       ELSE UNCHANGED <<options, loaded>>
    /\ usingDist' = (usingDist \/ text = Missing)
    /\ Return(TRUE)
    /\ UNCHANGED <<additional, listed>>

\* _usingDistConfig is set and never reset.
LoadAppConf(text) ==
    /\ step.call = "LoadAppConfigs" /\ step.next = "conf"
    /\ IF Parses(text) THEN LoadFile(options, loaded, Conf(App), text, TRUE)
                       ELSE UNCHANGED <<options, loaded>>
    /\ usingDist' = (usingDist \/ ~Parses(text))
    /\ Return(TRUE)
    /\ UNCHANGED <<additional, listed>>

CallLoadModulesConfigs(isReload) ==
    /\ step = Idle
    /\ Len(loaded) + 2 * Len(additional) <= MaxLoaded
    /\ Len(listed) + Len(additional) <= MaxModules + 1
    /\ step' = [call |-> "LoadModulesConfigs", reload |-> isReload, at |-> 1, next |-> "dist"]
    /\ UNCHANGED <<options, usingDist, additional, listed, returned, loaded>>

Module == additional[step.at]
InModules == step.call = "LoadModulesConfigs" /\ step.at <= Len(additional)

\* A plausible bug of LoadModulesConfigs: a module without its file is skipped.
LoadModuleDistSkip(text) ==
    /\ InModules /\ step.next = "dist"
    /\ step' = IF Parses(text) THEN [step EXCEPT !.next = "conf"] ELSE [step EXCEPT !.at = @ + 1]
    /\ IF Parses(text) THEN LoadFile(options, loaded, Dist(Module), text, FALSE)
                       ELSE UNCHANGED <<options, loaded>>
    /\ UNCHANGED <<usingDist, additional, listed, returned>>

\* The .dist file of a module: missing, it ends the call unless this is a
\* reload; the modules before it stay loaded.
LoadModuleDist(text) ==
    /\ InModules /\ step.next = "dist"
    /\ IF Parses(text) THEN LoadFile(options, loaded, Dist(Module), text, FALSE)
                       ELSE UNCHANGED <<options, loaded>>
    /\ IF Parses(text) \/ step.reload
       THEN /\ step' = [step EXCEPT !.next = IF Parses(text) THEN "conf" ELSE "orphan"]
            /\ UNCHANGED returned
       ELSE Return(FALSE)
    /\ UNCHANGED <<usingDist, additional, listed>>

\* The .conf file of a module.  A module whose .dist file a reload did not
\* find (an orphan) is not listed.
LoadModuleConf(text) ==
    /\ InModules /\ step.next # "dist"
    /\ IF Parses(text) THEN LoadFile(options, loaded, Conf(Module), text, TRUE)
                       ELSE UNCHANGED <<options, loaded>>
    /\ listed' = IF step.next = "orphan" THEN listed
                 ELSE Append(listed, IF Parses(text) THEN Conf(Module) ELSE Dist(Module))
    /\ step' = [step EXCEPT !.at = @ + 1, !.next = "dist"]
    /\ UNCHANGED <<usingDist, additional, returned>>

LoadModulesEnd ==
    /\ step.call = "LoadModulesConfigs" /\ step.at > Len(additional)
    /\ Return(TRUE)
    /\ UNCHANGED <<options, usingDist, additional, listed, loaded>>

\* What opening file f finds: some content of it, and nothing if there is no f.
Found(f) == IF f \in Files THEN Contents[f] ELSE {Missing}

\* The steps that read a file.
ReadStep == \/ \E text \in Found(Dist(App)) : LoadInitial(text)
            \/ \E text \in Found(Conf(App)) : LoadAppConf(text)
            \/ InModules /\ \E text \in Found(Dist(Module)) : LoadModuleDist(text)
            \/ InModules /\ \E text \in Found(Conf(Module)) : LoadModuleConf(text)

CNext == \/ \E list \in ModuleLists : Configure(list)
         \/ \E isReload \in BOOLEAN : CallLoadAppConfigs(isReload)
                                      \/ CallLoadModulesConfigs(isReload)
         \/ ReadStep
         \/ LoadModulesEnd

-----------------------------------------------------------------------------
(* Properties.                                                             *)

Texts == UNION {Contents[f] : f \in Files}
Lines == UNION {ToSet(t) : t \in Texts \ {Missing}}
OptionLines == {l \in Lines : IsOption(l)}
KeyOf == [l \in OptionLines |-> EntryOf(l)]
Keys == {KeyOf[l] : l \in OptionLines}

\* What line i of the n-th loaded file says of option k counts there: it is
\* the first line of that file for k.
Says(n, i, k) ==
    LET text == loaded[n].text IN
    /\ text[i] \in OptionLines /\ KeyOf[text[i]] = k
    /\ \A j \in 1..(i - 1) : text[j] \in OptionLines => KeyOf[text[j]] # k

Mentions(n, k) == \E i \in DOMAIN loaded[n].text : Says(n, i, k)

\* Option k is introduced by file n: it is mandatory and mentions k.
Introduces(n, k) == Mentions(n, k) /\ ~loaded[n].optional

\* After every load, in any order of calls, repetitions and edits: an option
\* exists exactly if a mandatory file has introduced it since the options were
\* last cleared, and has the value of the last file behind that one that
\* mentions it, from that file's first line for it (LoadFile, AddKey, and the
\* clear in LoadInitial that also a failing load leaves behind).
OptionsLayered ==
    /\ DOMAIN options = {k \in Keys : \E n \in DOMAIN loaded : Introduces(n, k)}
    /\ \A k \in DOMAIN options : \E n \in DOMAIN loaded :
          /\ \E m \in 1..n : Introduces(m, k)
          /\ \A m \in (n + 1)..Len(loaded) : ~Mentions(m, k)
          /\ \E i \in DOMAIN loaded[n].text :
                Says(n, i, k) /\ options[k] = ValueOf(loaded[n].text[i])

\* GetFilename names the .conf file, which the banner of main shows as the
\* file in use, only if the last LoadAppConfigs really took options from it.
\* The converse does not hold: _usingDistConfig is never reset, so that after a
\* load without the .conf file GetFilename names the .dist file for ever.
FilenameTruthful ==
    step = Idle /\ ~usingDist /\ (\E n \in DOMAIN loaded : loaded[n].file = Dist(App)) =>
        \E n \in DOMAIN loaded : loaded[n].file = Conf(App)

\* What the loader reports as loaded is loaded: the .conf file, if GetFilename
\* names it, and, when LoadModulesConfigs has returned true for a first load, the .dist
\* file of every configured module, also when Configure was called twice and an
\* earlier load had stopped half way.
ReportsTruthful ==
    /\ FilenameTruthful
    /\ returned = [call |-> "LoadModulesConfigs", reload |-> FALSE, ok |-> TRUE] /\ step = Idle =>
         \A i \in DOMAIN additional :
            \E n \in DOMAIN loaded : loaded[n].file = Dist(additional[i])
=============================================================================
