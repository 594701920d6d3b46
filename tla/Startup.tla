------------------------------- MODULE Startup -------------------------------
(***************************************************************************)
(* From the command line to the first transfer: Config, the Logger made    *)
(* from it, and Transfers, which groups the files of a copyjobfile by the  *)
(* hosts and ports they are copied between.                                *)
(*                                                                         *)
(* A text is a token: its quotes are written as in the file, '30' being    *)
(* the text 30 within quotes, ' a quote alone and the empty text no text   *)
(* at all.  Values that are no texts are in capitals.                      *)
(***************************************************************************)
EXTENDS Naturals, Sequences

CONSTANTS
    Names,        \* options that may be given on both ways
    MandInt,      \* those that have to be integers
    MandStr,      \* those that have to be present
    Texts,        \* what may be given for them
    Keys,         \* pairs of host:port the URLs of a line may name
    MaxSections,  \* bound of the exploration: sections of the file
    MaxLines      \* bound of the exploration: lines of the copyjobfile

AllTexts == {"DEBUG", "'DEBUG'", "info", "logThreads", "30", "'30'", "true", "'true'", "false", "", "'"}

ASSUME StartupAssumption ==
    /\ "debug" \in MandStr /\ MandInt \cup MandStr \subseteq Names
    /\ "debug" \notin MandInt
    /\ Texts \subseteq AllTexts
    /\ MaxSections \in Nat /\ MaxLines \in Nat

None == "NONE"

Booleans == {"TRUE", "FALSE"}

Values == AllTexts \cup Booleans \cup {None, "INT", "LEVEL", "NUMBER", "FUNCTION"}

Faults == {"short", "badSrc", "badDest"}

VARIABLES
    pc,         \* what comes next, or how the start ended
    cli,        \* the options of the command line
    copyjobfile,\* a copyjobfile is given rather than two URLs
    sections,   \* the sections of the file read so far
    options,    \* Config.options
    lines,      \* the lines of the copyjobfile read so far, or the two URLs
    transfers   \* Transfers.transfers: the files of each pair of hosts

vars == <<pc, cli, copyjobfile, sections, options, lines, transfers>>

-----------------------------------------------------------------------------
\* Texts.

\* A mutant of Unquoted: only the first quote is taken away.
UnquotedFirst(t) == IF t = "'DEBUG'" THEN "DEBUG'" ELSE t

Unquoted(t) == CASE t = "'DEBUG'" -> "DEBUG" [] t = "'30'" -> "30" [] t = "'true'" -> "true" [] OTHER -> t

\* Without its first quote nothing is left to look at the end of.
Unreadable(t) == t \in {"", "'"}

Boolean == [t \in {"true", "false"} |-> IF t = "true" THEN "TRUE" ELSE "FALSE"]

\* What int() takes.
IntLike == {"30", "INT"} \cup Booleans

-----------------------------------------------------------------------------
Init ==
    /\ pc = "arguments"
    /\ cli \in [Names -> Texts \cup {None}]
    /\ copyjobfile \in BOOLEAN
    /\ sections = <<>>
    /\ options = cli
    /\ lines = <<>>
    /\ transfers = [k \in Keys |-> <<>>]

\* processCommandLineOptions of fdtcp: two URLs, or a copyjobfile and nothing else.
Arguments ==
    /\ pc = "arguments"
    /\ \E args \in {"none", "one", "more"} :
          pc' = IF args = (IF copyjobfile THEN "none" ELSE "more") THEN "locate" ELSE "refused"
    /\ UNCHANGED <<cli, copyjobfile, sections, options, lines, transfers>>

\* processConfigFile: the file of the command line, or the first that exists of the
\* default locations; without any, ConfigurationException.
Locate ==
    /\ pc = "locate"
    /\ \E given, exists \in BOOLEAN, found \in SUBSET {1, 2} :
          pc' = IF (IF given THEN exists ELSE found # {}) THEN "file" ELSE "refused"
    /\ UNCHANGED <<cli, copyjobfile, sections, options, lines, transfers>>

-----------------------------------------------------------------------------
\* parseConfigFile.

\* A mutant of Merged: the file overrides the command line.
MergedFile(v, t) ==
    IF t = None THEN v
    ELSE IF t \in DOMAIN Boolean THEN Boolean[t] ELSE Unquoted(t)

\* An option whose value is v, after an entry t of the file: the entry counts if there
\* is no value yet.  But if the value is a text and the entry is a boolean, then the
\* boolean is taken, whatever the text was and wherever it came from.
Merged(v, t) ==
    LET w == IF v = None THEN t ELSE v
    IN IF t = None \/ w \notin AllTexts THEN v
       ELSE IF t \in DOMAIN Boolean THEN Boolean[t] ELSE Unquoted(w)

Fails(v, t) ==
    /\ t # None /\ t \notin DOMAIN Boolean
    /\ Unreadable(IF v = None THEN t ELSE v)

\* A section names an option once at most; the values of [configcontrols] are literals
\* kept apart.  Any exception becomes a ConfigurationException.
Section ==
    /\ pc = "file" /\ Len(sections) < MaxSections
    /\ \E s \in [Names -> Texts \cup {None}] :
        /\ sections' = Append(sections, s)
        /\ IF \E n \in Names : Fails(options[n], s[n])
              THEN pc' = "refused" /\ UNCHANGED options
              ELSE /\ options' = [n \in Names |-> Merged(options[n], s[n])]
                   /\ UNCHANGED pc
    /\ UNCHANGED <<cli, copyjobfile, lines, transfers>>

ConfigControls ==
    /\ pc = "file"
    /\ \E literal \in BOOLEAN : pc' = IF literal THEN pc ELSE "refused"
    /\ UNCHANGED <<cli, copyjobfile, sections, options, lines, transfers>>

EndOfFile ==
    /\ pc = "file"
    /\ pc' = "sanitize"
    /\ UNCHANGED <<cli, copyjobfile, sections, options, lines, transfers>>

-----------------------------------------------------------------------------
\* sanitize, and the Logger.

\* getattr(logging, name): a level, another integer of the module, something that is no
\* integer, or AttributeError.  (Of a boolean: TypeError, which nobody expects.)
LevelOf(v) == CASE v = "DEBUG"      -> "LEVEL"
                [] v = "logThreads" -> "NUMBER"
                [] v = "info"       -> "FUNCTION"
                [] OTHER            -> None

Sanitize ==
    /\ pc = "sanitize"
    /\ IF \/ \E n \in MandInt : options[n] \notin IntLike
          \/ \E n \in MandStr : options[n] = None
          \/ options["debug"] \in AllTexts /\ LevelOf(options["debug"]) = None
          THEN pc' = "refused" /\ UNCHANGED options
          ELSE /\ options' = [n \in Names |-> IF n \in MandInt THEN "INT"
                                              ELSE IF n = "debug" /\ options[n] \in AllTexts
                                                   THEN LevelOf(options[n])
                                              ELSE options[n]]
               /\ pc' = IF options["debug"] \in AllTexts THEN "logger" ELSE "crashed"
    /\ UNCHANGED <<cli, copyjobfile, sections, lines, transfers>>

\* A mutant of MakeLogger: any level will do.
MakeAnyLogger ==
    /\ pc = "logger"
    /\ pc' = "transfers"
    /\ UNCHANGED <<cli, copyjobfile, sections, options, lines, transfers>>

\* Logger takes any integer and nothing else; its exception is a plain one.
MakeLogger ==
    /\ pc = "logger"
    /\ pc' = IF options["debug"] \in {"LEVEL", "NUMBER"} THEN "transfers" ELSE "crashed"
    /\ UNCHANGED <<cli, copyjobfile, sections, options, lines, transfers>>

-----------------------------------------------------------------------------
\* Transfers.

\* A mutant of AddFile: a transfer that is there already is made anew.
NewTransfer(k, file) == [transfers EXCEPT ![k] = <<file>>]

\* _setTransfer: the file joins the transfer between the same hosts and ports, if
\* there is one.
AddFile(k, file) == [transfers EXCEPT ![k] = Append(@, file)]

\* The next line: two URLs, too few, or one of the wrong form.  Any fault ends it all.
ReadLine ==
    /\ pc = "transfers"
    /\ Len(lines) < IF copyjobfile THEN MaxLines ELSE 1
    /\ \E l \in Keys \cup (IF copyjobfile THEN Faults ELSE Faults \ {"short"}) :
        /\ lines' = Append(lines, l)
        /\ IF l \in Faults
              THEN pc' = "refused" /\ UNCHANGED transfers
              ELSE transfers' = AddFile(l, Len(lines')) /\ UNCHANGED pc
    /\ UNCHANGED <<cli, copyjobfile, sections, options>>

\* The file cannot be read.
NoCopyJobFile ==
    /\ pc = "transfers" /\ copyjobfile /\ lines = <<>>
    /\ pc' = "refused"
    /\ UNCHANGED <<cli, copyjobfile, sections, options, lines, transfers>>

\* Its end; without any line there is nothing to do.
EndOfLines ==
    /\ pc = "transfers"
    /\ ~ copyjobfile => lines # <<>>
    /\ pc' = IF \A k \in Keys : transfers[k] = <<>> THEN "refused" ELSE "running"
    /\ UNCHANGED <<cli, copyjobfile, sections, options, lines, transfers>>

-----------------------------------------------------------------------------
Next ==
    \/ Arguments \/ Locate
    \/ Section \/ ConfigControls \/ EndOfFile
    \/ Sanitize \/ MakeLogger
    \/ ReadLine \/ NoCopyJobFile \/ EndOfLines

Spec == Init /\ [][Next]_vars

-----------------------------------------------------------------------------
\* The values the variables range over.
StartupTypeOK ==
    /\ pc \in {"arguments", "locate", "file", "sanitize", "logger", "transfers", "running",
               "refused", "crashed"}
    /\ cli \in [Names -> Texts \cup {None}] /\ copyjobfile \in BOOLEAN
    /\ sections \in Seq([Names -> Texts \cup {None}])
    /\ options \in [Names -> Values]
    /\ lines \in Seq(Keys \cup Faults)
    /\ transfers \in [Keys -> Seq(Nat)]

\* The sections that name an option, those that give it a boolean, and the first of them.
Naming(n)    == {i \in DOMAIN sections : sections[i][n] # None}
Switching(n) == {i \in DOMAIN sections : sections[i][n] \in DOMAIN Boolean}

First(S) == CHOOSE i \in S : \A j \in S : i <= j

\* What an entry of the file says, as a value.
Read(t) == IF t \in DOMAIN Boolean THEN Boolean[t] ELSE Unquoted(t)

\* The value an option should have: "such value takes precedence over configuration
\* file", the one of the command line, else the one the file gives first.  The quotes
\* of a value are removed; those of the command line only where the file names the
\* option, too.
Reference(n) ==
    IF cli[n] # None THEN (IF Naming(n) = {} THEN cli[n] ELSE Unquoted(cli[n]))
    ELSE IF Naming(n) # {} THEN Read(sections[First(Naming(n))][n])
    ELSE None

\* A boolean of the file comes after a text that was given first.
Overruled(n) ==
    Switching(n) # {} /\ (cli[n] # None \/ First(Naming(n)) \notin Switching(n))

\* parseConfigFile, which looks at one entry after the other, leaves every option at
\* that value, whatever sections name it and in whichever order: unless a boolean
\* comes after a text, see CommandLineWins.
OptionsAreReference ==
    pc = "sanitize" => \A n \in Names : Overruled(n) \/ options[n] = Reference(n)

\* No transfer begins without the integers and the options it has to have, or with a
\* level that is no number: what sanitize lets through, Logger stops.
StartsSane ==
    pc \in {"transfers", "running"} =>
        /\ \A n \in MandInt : options[n] = "INT"
        /\ \A n \in MandStr : options[n] # None
        /\ options["debug"] \in {"LEVEL", "NUMBER"}

\* Every line is a file of the transfer between its hosts, once, in the order of the
\* lines.
Grouped(k) ==
    /\ {transfers[k][i] : i \in DOMAIN transfers[k]} = {i \in DOMAIN lines : lines[i] = k}
    /\ \A i, j \in DOMAIN transfers[k] : i < j => transfers[k][i] < transfers[k][j]

GroupedInOrder == pc = "running" => \A k \in Keys : Grouped(k)

\* Config.py:7: "defined command line options override values from the config file".
CommandLineWins ==
    pc = "sanitize" =>
        \A n \in Names : cli[n] # None => options[n] \in {cli[n], Unquoted(cli[n])}

\* Logger.py:19: "Check that level is int and one of the values from logging constants".
LevelIsChecked == pc \in {"transfers", "running"} => options["debug"] = "LEVEL"
=============================================================================
