---------------------------- MODULE StartupProofs ----------------------------
(***************************************************************************)
(* How fdtcp and fdtd start: what a start has checked, whatever the        *)
(* options, the file and the lines (Startup), and what the PID file says   *)
(* of the daemon (Daemonization).                                          *)
(***************************************************************************)
EXTENDS Startup, Daemonization, TLAPS

\* Values of options stay values: a text loses its quotes, a boolean is read.
LEMMA MergedIsValue ==
    ASSUME NEW v \in Values, NEW t \in AllTexts \cup {None}
    PROVE  Merged(v, t) \in Values
<1> DEFINE w == IF v = None THEN t ELSE v
<1>1. CASE t = None \/ w \notin AllTexts
    BY <1>1 DEF Merged
<1>2. CASE t # None /\ w \in AllTexts
    <2>1. CASE t \in DOMAIN Boolean
        BY <1>2, <2>1 DEF Merged, Boolean, Values, Booleans
    <2>2. CASE t \notin DOMAIN Boolean
        <3>1. Unquoted(w) \in AllTexts
            BY <1>2 DEF Unquoted, AllTexts
        <3> QED BY <1>2, <2>2, <3>1 DEF Merged, Values
    <2> QED BY <2>1, <2>2
<1> QED BY <1>1, <1>2

\* What sanitize lets through: integers where they have to be, and nothing missing.
Sane ==
    /\ \A n \in MandInt : options[n] = "INT"
    /\ \A n \in MandStr : options[n] # None

SaneInv ==
    /\ pc \in {"logger", "transfers", "running"} => Sane
    /\ pc \in {"transfers", "running"} => options["debug"] \in {"LEVEL", "NUMBER"}

-----------------------------------------------------------------------------
\* Nothing has been read yet.
LEMMA StartInit == Init => StartupTypeOK /\ SaneInv
<1> SUFFICES ASSUME Init PROVE StartupTypeOK /\ SaneInv
    OBVIOUS
<1>1. options \in [Names -> Values]
    BY StartupAssumption DEF Init, Values
<1> QED BY <1>1 DEF Init, StartupTypeOK, SaneInv

\* The types are kept by every step.
LEMMA StartTypeStep == StartupTypeOK /\ [Next]_vars => StartupTypeOK'
<1> SUFFICES ASSUME StartupTypeOK, [Next]_vars PROVE StartupTypeOK'
    OBVIOUS
<1> USE DEF StartupTypeOK
<1>1. CASE Arguments
    BY <1>1 DEF Arguments
<1>2. CASE Locate
    BY <1>2 DEF Locate
<1>3. CASE Section
    <2>1. PICK s \in [Names -> Texts \cup {None}] :
              /\ sections' = Append(sections, s)
              /\ IF \E n \in Names : Fails(options[n], s[n])
                    THEN pc' = "refused" /\ UNCHANGED options
                    ELSE /\ options' = [n \in Names |-> Merged(options[n], s[n])]
                         /\ UNCHANGED pc
        BY <1>3 DEF Section
    <2>2. \A n \in Names : Merged(options[n], s[n]) \in Values
        BY MergedIsValue, StartupAssumption
    <2>3. options' \in [Names -> Values] /\ pc' \in {pc, "refused"}
        BY <2>1, <2>2
    <2>4. UNCHANGED <<cli, copyjobfile, lines, transfers>>
        BY <1>3 DEF Section
    <2>5. sections' \in Seq([Names -> Texts \cup {None}])
        BY <2>1
    <2> QED BY <2>3, <2>4, <2>5
<1>4. CASE ConfigControls \/ EndOfFile \/ NoCopyJobFile
    BY <1>4 DEF ConfigControls, EndOfFile, NoCopyJobFile
<1>5. CASE Sanitize
    <2>1. UNCHANGED <<cli, copyjobfile, sections, lines, transfers>>
        BY <1>5 DEF Sanitize
    <2>2. pc' \in {"refused", "logger", "crashed"}
        BY <1>5 DEF Sanitize
    <2>3. \A v : LevelOf(v) \in Values
        BY DEF LevelOf, Values
    <2>4. options' \in [Names -> Values]
        <3>1. \A n \in Names : (IF n \in MandInt THEN "INT"
                                ELSE IF n = "debug" /\ options[n] \in AllTexts
                                     THEN LevelOf(options[n]) ELSE options[n]) \in Values
            BY <2>3 DEF Values
        <3> QED BY <1>5, <3>1 DEF Sanitize
    <2> QED BY <2>1, <2>2, <2>4
<1>6. CASE MakeLogger \/ EndOfLines
    BY <1>6 DEF MakeLogger, EndOfLines
<1>7. CASE ReadLine
    <2>1. PICK l \in Keys \cup Faults :
              /\ lines' = Append(lines, l)
              /\ IF l \in Faults THEN pc' = "refused" /\ UNCHANGED transfers
                 ELSE transfers' = AddFile(l, Len(lines')) /\ UNCHANGED pc
        BY <1>7 DEF ReadLine
    <2>2. lines' \in Seq(Keys \cup Faults) /\ Len(lines') \in Nat
        BY <2>1
    <2>3. transfers' \in [Keys -> Seq(Nat)]
        <3>1. CASE l \in Faults
            BY <2>1, <3>1
        <3>2. CASE l \notin Faults
            <4>1. transfers' = [transfers EXCEPT ![l] = Append(@, Len(lines'))]
                BY <2>1, <3>2 DEF AddFile
            <4>2. l \in Keys /\ transfers[l] \in Seq(Nat)
                BY <3>2
            <4>3. Append(transfers[l], Len(lines')) \in Seq(Nat)
                BY <2>2, <4>2
            <4> QED BY <4>1, <4>3
        <3> QED BY <3>1, <3>2
    <2>4. UNCHANGED <<cli, copyjobfile, sections, options>> /\ pc' \in {pc, "refused"}
        BY <1>7, <2>1 DEF ReadLine
    <2> QED BY <2>2, <2>3, <2>4
<1>8. CASE UNCHANGED vars
    BY <1>8 DEF vars
<1> QED BY <1>1, <1>2, <1>3, <1>4, <1>5, <1>6, <1>7, <1>8 DEF Next

\* sanitize checks, the Logger checks the rest, and nothing changes the options after.
LEMMA SaneStep == StartupTypeOK /\ SaneInv /\ [Next]_vars => SaneInv'
<1> SUFFICES ASSUME StartupTypeOK, SaneInv, [Next]_vars PROVE SaneInv'
    OBVIOUS
<1>1. CASE Arguments \/ Locate \/ Section \/ ConfigControls \/ EndOfFile
    <2>1. pc' \notin {"logger", "transfers", "running"}
        BY <1>1 DEF Arguments, Locate, Section, ConfigControls, EndOfFile
    <2> QED BY <2>1 DEF SaneInv
<1>2. CASE Sanitize
    <2> SUFFICES ASSUME pc' = "logger" PROVE Sane'
        BY <1>2 DEF Sanitize, SaneInv
    <2>1. /\ \A n \in MandStr : options[n] # None
          /\ options["debug"] \in AllTexts /\ LevelOf(options["debug"]) # None
          /\ options' = [n \in Names |-> IF n \in MandInt THEN "INT"
                                         ELSE IF n = "debug" /\ options[n] \in AllTexts
                                              THEN LevelOf(options[n])
                                         ELSE options[n]]
        BY <1>2 DEF Sanitize
    <2>2. \A n \in MandInt : options'[n] = "INT"
        BY <2>1, StartupAssumption
    <2>3. \A n \in MandStr : options'[n] # None
        BY <2>1, StartupAssumption DEF None
    <2> QED BY <2>2, <2>3 DEF Sane
<1>3. CASE MakeLogger
    BY <1>3 DEF MakeLogger, SaneInv, Sane
<1>4. CASE ReadLine \/ NoCopyJobFile \/ EndOfLines
    <2>1. UNCHANGED options /\ pc = "transfers" /\ pc' \in {"transfers", "refused", "running"}
        BY <1>4 DEF ReadLine, NoCopyJobFile, EndOfLines
    <2> QED BY <2>1 DEF SaneInv, Sane
<1>5. CASE UNCHANGED vars
    BY <1>5 DEF vars, SaneInv, Sane
<1> QED BY <1>1, <1>2, <1>3, <1>4, <1>5 DEF Next

-----------------------------------------------------------------------------
\* The variables keep their types: options are texts, booleans or what sanitize makes of
\* them, whatever the file has.
THEOREM StartupTypeHolds == Spec => []StartupTypeOK
BY StartInit, StartTypeStep, PTL DEF Spec

\* No transfer begins without the integers and the options it needs, or with a level
\* that is no number.
THEOREM StartsSaneHolds == Spec => []StartsSane
<1>1. StartupTypeOK /\ SaneInv /\ [Next]_vars => (StartupTypeOK /\ SaneInv)'
    BY StartTypeStep, SaneStep
<1>2. SaneInv => StartsSane
    BY DEF SaneInv, Sane, StartsSane
<1> QED BY <1>1, <1>2, StartInit, PTL DEF Spec

-----------------------------------------------------------------------------
\* The options: the value parseConfigFile computes, in one piece.  It is the first boolean
\* of the file; without one, what was given first, less its quotes.
Computed(n) ==
    IF Switching(n) # {} THEN Boolean[sections[First(Switching(n))][n]]
    ELSE IF Naming(n) = {} THEN cli[n]
    ELSE Unquoted(IF cli[n] # None THEN cli[n] ELSE sections[First(Naming(n))][n])

\* That each option has it is inductive from section to section with the fact that the
\* first section that names the option, or switches it, is there.
HasFirst(S) == S # {} => \E i \in S : \A j \in S : i <= j

Firsts(n) == HasFirst(Naming(n)) /\ HasFirst(Switching(n))

Reading == {"arguments", "locate", "file", "sanitize"}

OptionsInv ==
    \A n \in Names : Firsts(n) /\ (pc \in Reading => options[n] = Computed(n))

\* A later section does not become the first one.
LEMMA FirstStays ==
    ASSUME NEW S \in SUBSET Nat, HasFirst(S), NEW m \in Nat, \A i \in S : i < m
    PROVE  /\ HasFirst(S \cup {m})
           /\ First(S \cup {m}) = IF S = {} THEN m ELSE First(S)
           /\ S # {} => First(S) \in S
<1>1. CASE S = {}
    BY <1>1 DEF HasFirst, First
<1>2. CASE S # {}
    <2>1. PICK i \in S : \A j \in S : i <= j
        BY <1>2 DEF HasFirst
    <2>2. \A k \in S : (\A j \in S : k <= j) => k = i
        BY <2>1
    <2>3. First(S) = i
        BY <2>1, <2>2 DEF First
    <2>4. i \in S \cup {m} /\ \A j \in S \cup {m} : i <= j
        BY <2>1
    <2>5. \A k \in S \cup {m} : (\A j \in S \cup {m} : k <= j) => k = i
        BY <2>1, <2>2
    <2>6. First(S \cup {m}) = i
        BY <2>4, <2>5 DEF First
    <2> QED BY <1>2, <2>1, <2>3, <2>4, <2>6 DEF HasFirst
<1> QED BY <1>1, <1>2

\* Texts are neither booleans nor missing, and have their quotes taken away once.
LEMMA TextFacts ==
    /\ None \notin AllTexts
    /\ \A b \in DOMAIN Boolean : b \in AllTexts /\ Boolean[b] \notin AllTexts \cup {None}
    /\ \A t \in AllTexts : Unquoted(t) \in AllTexts /\ Unquoted(Unquoted(t)) = Unquoted(t)
BY DEF None, AllTexts, Boolean, Unquoted

\* One more section: what Merged makes of an option is the value with that section.
LEMMA SectionOption ==
    ASSUME StartupTypeOK, NEW s \in [Names -> Texts \cup {None}],
           sections' = Append(sections, s), UNCHANGED cli,
           NEW n \in Names, Firsts(n), options[n] = Computed(n)
    PROVE  Firsts(n)' /\ Merged(options[n], s[n]) = Computed(n)'
<1> DEFINE m == Len(sections) + 1
           v == options[n]
           t == s[n]
<1>1. /\ m \in Nat /\ DOMAIN sections = 1 .. Len(sections) /\ Len(sections) \in Nat
      /\ DOMAIN sections' = DOMAIN sections \cup {m}
      /\ sections'[m] = s /\ \A i \in DOMAIN sections : sections'[i] = sections[i]
    BY DEF StartupTypeOK
<1>2. /\ t \in AllTexts \cup {None} /\ cli[n] \in AllTexts \cup {None}
      /\ \A i \in DOMAIN sections : sections[i][n] \in AllTexts \cup {None}
    BY StartupAssumption DEF StartupTypeOK
<1>3. /\ Naming(n)' = Naming(n) \cup (IF t # None THEN {m} ELSE {})
      /\ Switching(n)' = Switching(n) \cup (IF t \in DOMAIN Boolean THEN {m} ELSE {})
    BY <1>1 DEF Naming, Switching
<1>4. /\ Naming(n) \in SUBSET DOMAIN sections /\ Switching(n) \in SUBSET DOMAIN sections
      /\ Naming(n) \in SUBSET Nat /\ Switching(n) \in SUBSET Nat
      /\ \A i \in Naming(n) \cup Switching(n) : i < m
    BY <1>1 DEF Naming, Switching
<1>5. /\ HasFirst(Naming(n) \cup {m}) /\ HasFirst(Switching(n) \cup {m})
      /\ First(Naming(n) \cup {m}) = IF Naming(n) = {} THEN m ELSE First(Naming(n))
      /\ First(Switching(n) \cup {m}) = IF Switching(n) = {} THEN m ELSE First(Switching(n))
      /\ Naming(n) # {} => First(Naming(n)) \in Naming(n)
      /\ Switching(n) # {} => First(Switching(n)) \in Switching(n)
    BY <1>1, <1>4, FirstStays DEF Firsts
<1>6. Firsts(n)'
    <2>1. HasFirst(Naming(n)') /\ HasFirst(Switching(n)')
        BY <1>3, <1>5 DEF Firsts
    <2> QED BY <2>1 DEF Firsts, HasFirst
<1>7. CASE t = None
    <2>1. t \notin DOMAIN Boolean
        BY <1>7, TextFacts
    <2>2. Naming(n)' = Naming(n) /\ Switching(n)' = Switching(n)
        BY <1>3, <1>7, <2>1
    <2>3. Computed(n)' = Computed(n)
        BY <1>1, <1>4, <1>5, <2>2 DEF Computed
    <2> QED BY <1>6, <1>7, <2>3 DEF Merged
<1>8. CASE Switching(n) # {}
    <2>1. Switching(n)' # {} /\ First(Switching(n)') = First(Switching(n))
        BY <1>3, <1>5, <1>8
    <2>2. sections'[First(Switching(n))] = sections[First(Switching(n))]
        BY <1>1, <1>4, <1>5, <1>8
    <2>3. Computed(n)' = Computed(n)
        BY <1>8, <2>1, <2>2 DEF Computed
    <2>4. v \notin AllTexts \cup {None}
        BY <1>5, <1>8, TextFacts DEF Computed, Switching
    <2>5. Merged(v, t) = v
        BY <2>4 DEF Merged
    <2> QED BY <1>6, <2>3, <2>5
<1>9. CASE Switching(n) = {} /\ t \in DOMAIN Boolean
    <2>1. Switching(n)' = {m} /\ First(Switching(n)') = m
        BY <1>3, <1>5, <1>9
    <2>2. Computed(n)' = Boolean[t]
        BY <1>1, <2>1 DEF Computed
    <2>3. v \in AllTexts \cup {None}
        BY <1>2, <1>4, <1>5, <1>9, TextFacts DEF Computed, Naming
    <2>4. Merged(v, t) = Boolean[t]
        BY <1>9, <2>3, TextFacts DEF Merged
    <2> QED BY <1>6, <2>2, <2>4
<1>10. CASE Switching(n) = {} /\ t \notin DOMAIN Boolean /\ t # None
    <2>1. Switching(n)' = {} /\ Naming(n)' = Naming(n) \cup {m}
        BY <1>3, <1>10
    <2>2. CASE cli[n] # None
        <3>1. Computed(n)' = Unquoted(cli[n])
            BY <2>1, <2>2 DEF Computed
        <3>2. v \in {cli[n], Unquoted(cli[n])}
            BY <1>10, <2>2 DEF Computed
        <3>3. v \in AllTexts /\ Unquoted(v) = Unquoted(cli[n])
            BY <1>2, <2>2, <3>2, TextFacts
        <3>4. Merged(v, t) = Unquoted(v)
            BY <1>10, <3>3, TextFacts DEF Merged
        <3> QED BY <1>6, <3>1, <3>3, <3>4
    <2>3. CASE cli[n] = None /\ Naming(n) = {}
        <3>1. First(Naming(n)') = m
            BY <1>5, <2>1, <2>3
        <3>2. Computed(n)' = Unquoted(t)
            BY <1>1, <2>1, <2>3, <3>1 DEF Computed
        <3>3. v = None
            BY <1>10, <2>3 DEF Computed
        <3>4. Merged(v, t) = Unquoted(t)
            BY <1>2, <1>10, <3>3 DEF Merged
        <3> QED BY <1>6, <3>2, <3>4
    <2>4. CASE cli[n] = None /\ Naming(n) # {}
        <3> DEFINE f == sections[First(Naming(n))][n]
        <3>1. First(Naming(n)') = First(Naming(n))
            BY <1>5, <2>1, <2>4
        <3>2. First(Naming(n)) \in DOMAIN sections /\ f \in AllTexts
            BY <1>2, <1>4, <1>5, <2>4 DEF Naming
        <3>3. Computed(n)' = Unquoted(f)
            BY <1>1, <2>1, <2>4, <3>1, <3>2 DEF Computed
        <3>4. v = Unquoted(f)
            BY <1>10, <2>4 DEF Computed
        <3>5. v \in AllTexts /\ Unquoted(v) = v
            BY <3>2, <3>4, TextFacts
        <3>6. Merged(v, t) = Unquoted(v)
            BY <1>10, <3>5, TextFacts DEF Merged
        <3> QED BY <1>6, <3>3, <3>4, <3>5, <3>6
    <2> QED BY <2>2, <2>3, <2>4
<1> QED BY <1>7, <1>8, <1>9, <1>10

LEMMA OptionsStep == StartupTypeOK /\ OptionsInv /\ [Next]_vars => OptionsInv'
<1> SUFFICES ASSUME StartupTypeOK, OptionsInv, [Next]_vars PROVE OptionsInv'
    OBVIOUS
<1>1. CASE Section
    <2>1. PICK s \in [Names -> Texts \cup {None}] :
              /\ sections' = Append(sections, s)
              /\ IF \E n \in Names : Fails(options[n], s[n])
                    THEN pc' = "refused" /\ UNCHANGED options
                    ELSE /\ options' = [n \in Names |-> Merged(options[n], s[n])]
                         /\ UNCHANGED pc
        BY <1>1 DEF Section
    <2>2. UNCHANGED cli /\ pc \in Reading
        BY <1>1 DEF Section, Reading
    <2>3. \A n \in Names : Firsts(n)' /\ Merged(options[n], s[n]) = Computed(n)'
        BY <2>1, <2>2, SectionOption DEF OptionsInv
    <2>4. pc' \in Reading => options' = [n \in Names |-> Merged(options[n], s[n])]
        BY <2>1 DEF Reading
    <2> QED BY <2>3, <2>4 DEF OptionsInv
<1>2. CASE ~ Section
    <2>1. UNCHANGED <<sections, cli>>
        BY <1>2 DEF Next, vars, Arguments, Locate, ConfigControls, EndOfFile, Sanitize, MakeLogger,
                    ReadLine, NoCopyJobFile, EndOfLines
    <2>2. pc' \in Reading => pc \in Reading /\ UNCHANGED options
        BY <1>2 DEF Next, vars, Arguments, Locate, ConfigControls, EndOfFile, Sanitize, MakeLogger,
                    ReadLine, NoCopyJobFile, EndOfLines, Reading
    <2>3. \A n \in Names : (Firsts(n)' <=> Firsts(n)) /\ Computed(n)' = Computed(n)
        BY <2>1 DEF Firsts, HasFirst, Naming, Switching, Computed, First
    <2> QED BY <2>2, <2>3 DEF OptionsInv
<1> QED BY <1>1, <1>2

\* No boolean that comes after a text: then it is the value the documentation names.
LEMMA ComputedIsReference ==
    ASSUME StartupTypeOK, NEW n \in Names, Firsts(n), ~ Overruled(n)
    PROVE  Computed(n) = Reference(n)
<1> DEFINE N == Naming(n)
           S == Switching(n)
<1>1. /\ S \subseteq N /\ N \subseteq Nat
      /\ \A i \in N : sections[i][n] \in DOMAIN Boolean => i \in S
    <2>1. DOMAIN sections \subseteq Nat
        BY DEF StartupTypeOK
    <2> QED BY <2>1, TextFacts DEF Naming, Switching
<1>2. N # {} => First(N) \in N /\ \A j \in N : First(N) <= j
    BY <1>1 DEF Firsts, HasFirst, First
<1>3. CASE S = {}
    <2>1. N # {} => sections[First(N)][n] \notin DOMAIN Boolean
        BY <1>1, <1>2, <1>3
    <2> QED BY <1>3, <2>1 DEF Computed, Reference, Read
<1>4. CASE S # {}
    <2>1. cli[n] = None /\ First(N) \in S /\ N # {}
        BY <1>1, <1>4 DEF Overruled
    <2>2. First(S) = First(N)
        <3>1. \A i \in S : (\A j \in S : i <= j) => i = First(N)
            BY <1>1, <1>2, <2>1
        <3>2. \A j \in S : First(N) <= j
            BY <1>1, <1>2, <2>1
        <3> QED BY <2>1, <3>1, <3>2 DEF First
    <2>3. sections[First(N)][n] \in DOMAIN Boolean
        BY <2>1 DEF Switching
    <2> QED BY <1>4, <2>1, <2>2, <2>3 DEF Computed, Reference, Read
<1> QED BY <1>3, <1>4

\* Whatever the command line and the sections give, in whichever order: parseConfigFile,
\* which looks at one entry after the other, leaves every option at the value the
\* documentation names, unless a boolean of the file comes after a text.
THEOREM OptionsAreAsReferred == Spec => []OptionsAreReference
<1>1. Init => OptionsInv
    BY DEF Init, OptionsInv, Firsts, HasFirst, Naming, Switching, Computed
<1>2. StartupTypeOK /\ OptionsInv /\ [Next]_vars => (StartupTypeOK /\ OptionsInv)'
    BY StartTypeStep, OptionsStep
<1>3. StartupTypeOK /\ OptionsInv => OptionsAreReference
    BY ComputedIsReference DEF OptionsInv, OptionsAreReference, Reading
<1> QED BY <1>1, <1>2, <1>3, StartInit, PTL DEF Spec

-----------------------------------------------------------------------------
\* The lines: as long as none was at fault, those read so far are grouped.
GroupInv == pc # "refused" => \A k \in Keys : Grouped(k)

LEMMA GroupStep == StartupTypeOK /\ GroupInv /\ [Next]_vars => GroupInv'
<1> SUFFICES ASSUME StartupTypeOK, GroupInv, [Next]_vars, pc' # "refused", NEW k \in Keys
             PROVE  Grouped(k)'
    BY DEF GroupInv
<1>1. CASE ReadLine
    <2>1. PICK l \in Keys \cup Faults :
              /\ lines' = Append(lines, l)
              /\ IF l \in Faults THEN pc' = "refused" /\ UNCHANGED transfers
                 ELSE transfers' = AddFile(l, Len(lines')) /\ UNCHANGED pc
        BY <1>1 DEF ReadLine
    <2> DEFINE m == Len(lines) + 1
    <2>2. l \in Keys /\ transfers' = AddFile(l, Len(lines')) /\ Grouped(k)
        BY <1>1, <2>1 DEF ReadLine, GroupInv
    <2>3. /\ m \in Nat /\ Len(lines') = m /\ DOMAIN lines = 1 .. Len(lines) /\ Len(lines) \in Nat
          /\ DOMAIN lines' = DOMAIN lines \cup {m}
          /\ lines'[m] = l /\ \A i \in DOMAIN lines : lines'[i] = lines[i]
        BY <2>1 DEF StartupTypeOK
    <2>4. CASE k # l
        <3>1. transfers'[k] = transfers[k]
            BY <2>2, <2>4 DEF AddFile, StartupTypeOK
        <3>2. {i \in DOMAIN lines' : lines'[i] = k} = {i \in DOMAIN lines : lines[i] = k}
            BY <2>3, <2>4
        <3> QED BY <2>2, <3>1, <3>2 DEF Grouped
    <2>5. CASE k = l
        <3> DEFINE q == transfers[k]
                   r == transfers'[k]
        <3>1. q \in Seq(Nat) /\ r = Append(q, m)
            BY <2>2, <2>3, <2>5 DEF AddFile, StartupTypeOK
        <3>2. /\ Len(q) \in Nat /\ DOMAIN q = 1 .. Len(q) /\ DOMAIN r = DOMAIN q \cup {Len(q) + 1}
              /\ r[Len(q) + 1] = m /\ \A i \in DOMAIN q : r[i] = q[i] /\ q[i] \in Nat
            BY <2>3, <3>1
        <3>3. {i \in DOMAIN lines' : lines'[i] = k} = {i \in DOMAIN lines : lines[i] = k} \cup {m}
            BY <2>3, <2>5
        <3>4. {r[i] : i \in DOMAIN r} = {q[i] : i \in DOMAIN q} \cup {m}
            BY <3>2
        <3>5. {q[i] : i \in DOMAIN q} = {i \in DOMAIN lines : lines[i] = k}
            BY <2>2 DEF Grouped
        <3>6. ASSUME NEW i \in DOMAIN q PROVE q[i] < m
            <4>1. q[i] \in {x \in DOMAIN lines : lines[x] = k}
                BY <3>5
            <4> QED BY <2>3, <4>1
        <3>7. \A i, j \in DOMAIN r : i < j => r[i] < r[j]
            <4> SUFFICES ASSUME NEW i \in DOMAIN r, NEW j \in DOMAIN r, i < j PROVE r[i] < r[j]
                OBVIOUS
            <4>1. i \in DOMAIN q
                BY <3>2
            <4>2. CASE j \in DOMAIN q
                BY <2>2, <3>2, <4>1, <4>2 DEF Grouped
            <4>3. CASE j = Len(q) + 1
                BY <3>2, <3>6, <4>1, <4>3
            <4> QED BY <3>2, <4>2, <4>3
        <3> QED BY <3>3, <3>4, <3>5, <3>7 DEF Grouped
    <2> QED BY <2>4, <2>5
<1>2. CASE ~ ReadLine
    <2>1. UNCHANGED <<lines, transfers>> /\ pc # "refused"
        BY <1>2 DEF Next, vars, Arguments, Locate, Section, ConfigControls, EndOfFile, Sanitize,
                    MakeLogger, NoCopyJobFile, EndOfLines
    <2> QED BY <2>1 DEF GroupInv, Grouped
<1> QED BY <1>1, <1>2

\* Whatever the lines and however many, each of them is in one transfer, once, and the
\* files of a transfer are in their order.
THEOREM GroupsAreInOrder == Spec => []GroupedInOrder
<1>1. Init => GroupInv
    BY DEF Init, GroupInv, Grouped
<1>2. StartupTypeOK /\ GroupInv /\ [Next]_vars => (StartupTypeOK /\ GroupInv)'
    BY StartTypeStep, GroupStep
<1>3. GroupInv => GroupedInOrder
    BY DEF GroupInv, GroupedInOrder
<1> QED BY <1>1, <1>2, <1>3, StartInit, PTL DEF Spec

-----------------------------------------------------------------------------
(***************************************************************************)
(* The PID file, for every number of invocations of fdtd and of processes  *)
(* that are killed.                                                        *)
(***************************************************************************)

\* Where an instance has a file of its own: from its creation to its removal.
Owning == {"write", "bind", "serve", "remove"}

Places == {"new", "check", "open", "refused", "exit", "gone"} \cup Owning

\* The values the proofs need.
FileTypeOK ==
    /\ place \in [Instances -> Places]
    /\ pidFile \in Instances \cup {Absent, Empty}
    /\ crashes \in Nat
    /\ overlap \in BOOLEAN

LEMMA FileTypeStep ==
    ASSUME FileTypeOK, [DaemonizeNext]_daemonizeVars
    PROVE  FileTypeOK'
  <1> USE DEF FileTypeOK, Places, Owning
  <1>1. ASSUME NEW i \in Instances, Start(i)
        PROVE  FileTypeOK'
    <2>1. overlap' \in BOOLEAN
      BY <1>1 DEF Start
    <2>. QED
      BY <1>1, <2>1 DEF Goto, Start
  <1>2. ASSUME NEW i \in Instances, ~ Start(i),
               \/ CheckFile(i) \/ OpenFile(i) \/ WritePid(i) \/ InitPYRO(i)
               \/ Shutdown(i) \/ RemovePidFile(i) \/ ProcessExits(i) \/ Crash(i)
        PROVE  FileTypeOK'
    BY <1>2 DEF Goto, CheckFile, OpenFile, WritePid, InitPYRO, Shutdown, RemovePidFile,
                ProcessExits, Crash
  <1>3. CASE UNCHANGED daemonizeVars
    BY <1>3 DEF daemonizeVars
  <1>. QED
    BY <1>1, <1>2, <1>3 DEF DaemonizeNext

LEMMA FileTypeHolds == DaemonizeSpec => []FileTypeOK
  <1>1. DaemonizeInit => FileTypeOK
    <2> SUFFICES ASSUME DaemonizeInit
                 PROVE  FileTypeOK
      OBVIOUS
    <2>1. overlap \in BOOLEAN
      BY DEF DaemonizeInit
    <2>2. place \in [Instances -> Places] /\ crashes \in Nat
      BY DEF DaemonizeInit, Places
    <2>3. pidFile \in Instances \cup {Absent, Empty}
      BY DEF DaemonizeInit
    <2>. QED
      BY <2>1, <2>2, <2>3 DEF FileTypeOK
  <1>. QED
    BY <1>1, FileTypeStep, PTL DEF DaemonizeSpec

-----------------------------------------------------------------------------
\* While nothing crashed, a file that exists belongs to an instance that is still
\* going to remove it.
FileHasOwner ==
    crashes = 0 /\ pidFile # Absent => \E i \in Instances : place[i] \in Owning

LEMMA FileHasOwnerStep ==
    ASSUME FileTypeOK, FileHasOwner, [DaemonizeNext]_daemonizeVars
    PROVE  FileHasOwner'
  <1> USE DEF FileTypeOK, FileHasOwner, Goto
  <1>1. ASSUME NEW i \in Instances, Start(i) \/ CheckFile(i) \/ ProcessExits(i)
        PROVE  FileHasOwner'
    BY <1>1 DEF Start, CheckFile, ProcessExits, Owning
  <1>2. ASSUME NEW i \in Instances, OpenFile(i)
        PROVE  FileHasOwner'
    <2>1. CASE place' = [place EXCEPT ![i] = "write"]
      BY <2>1 DEF Owning
    <2>2. CASE place' = [place EXCEPT ![i] = "refused"] /\ UNCHANGED pidFile
      BY <1>2, <2>2 DEF OpenFile, Owning
    <2>. QED
      BY <1>2, <2>1, <2>2 DEF OpenFile
  <1>3. ASSUME NEW i \in Instances, WritePid(i) \/ InitPYRO(i) \/ Shutdown(i)
        PROVE  FileHasOwner'
    <2>1. place'[i] \in Owning
      BY <1>3 DEF WritePid, InitPYRO, Shutdown, Owning
    <2>. QED
      BY <2>1
  <1>4. ASSUME NEW i \in Instances, RemovePidFile(i)
        PROVE  FileHasOwner'
    BY <1>4 DEF RemovePidFile
  <1>5. ASSUME NEW i \in Instances, Crash(i)
        PROVE  FileHasOwner'
    BY <1>5 DEF Crash
  <1>6. CASE UNCHANGED daemonizeVars
    BY <1>6 DEF daemonizeVars
  <1>. QED
    BY <1>1, <1>2, <1>3, <1>4, <1>5, <1>6 DEF DaemonizeNext

\* However many starts overlap: once all processes are gone without a crash, no PID
\* file is left to block the next start.
THEOREM NoFileIsLeftBehind == DaemonizeSpec => []NoFileLeftBehind
  <1>1. DaemonizeInit => FileHasOwner
    BY DEF DaemonizeInit, FileHasOwner
  <1>2. FileHasOwner => NoFileLeftBehind
    BY DEF FileHasOwner, NoFileLeftBehind, Owning
  <1>. QED
    BY <1>1, <1>2, FileTypeHolds, FileHasOwnerStep, PTL DEF DaemonizeSpec

-----------------------------------------------------------------------------
\* The invariant behind PidFileNamesServer.  As long as starts do not overlap, one
\* instance at a time is between its look at the file and the exit of its parent
\* process; when it has found no file, no other has one, and so one instance at a
\* time has a file, which holds its PID once it was written.
Alone(i) == \A j \in Instances \ {i} : place[j] \notin Owning

FileInv ==
    ~ overlap =>
        /\ \A i, j \in Instances : {place[i], place[j]} \subseteq {"check", "open"} => i = j
        /\ \A i \in Instances : place[i] = "open" => pidFile = Absent /\ Alone(i)
        /\ \A i \in Instances : place[i] \in Owning => Alone(i) /\ pidFile # Absent
        /\ \A i \in Instances : place[i] \in Owning \ {"write"} => pidFile = i

LEMMA FileInvStep ==
    ASSUME FileTypeOK, FileInv, [DaemonizeNext]_daemonizeVars
    PROVE  FileInv'
  <1> SUFFICES ASSUME ~ overlap'
               PROVE  FileInv'
    BY DEF FileInv
  <1>0. ~ overlap
    BY DEF DaemonizeNext, Start, CheckFile, OpenFile, WritePid, InitPYRO, Shutdown, RemovePidFile,
           ProcessExits, Crash, daemonizeVars, FileTypeOK
  <1> USE <1>0, InstancesAssumption DEF FileTypeOK, FileInv, Goto, Alone, Owning
  <1>1. ASSUME NEW i \in Instances, Start(i)
        PROVE  FileInv'
    BY <1>1 DEF Start
  <1>2. ASSUME NEW i \in Instances, CheckFile(i)
        PROVE  FileInv'
    BY <1>2 DEF CheckFile
  <1>3. ASSUME NEW i \in Instances, OpenFile(i)
        PROVE  FileInv'
    BY <1>3 DEF OpenFile, Absent, Empty
  <1>4. ASSUME NEW i \in Instances, WritePid(i)
        PROVE  FileInv'
    BY <1>4 DEF WritePid, Absent, Empty
  <1>5. ASSUME NEW i \in Instances, InitPYRO(i) \/ Shutdown(i)
        PROVE  FileInv'
    BY <1>5 DEF InitPYRO, Shutdown
  <1>6. ASSUME NEW i \in Instances, RemovePidFile(i)
        PROVE  FileInv'
    BY <1>6 DEF RemovePidFile
  <1>7. ASSUME NEW i \in Instances, ProcessExits(i) \/ Crash(i)
        PROVE  FileInv'
    BY <1>7 DEF ProcessExits, Crash
  <1>8. CASE UNCHANGED daemonizeVars
    BY <1>8 DEF daemonizeVars
  <1>. QED
    BY <1>1, <1>2, <1>3, <1>4, <1>5, <1>6, <1>7, <1>8 DEF DaemonizeNext

\* As long as starts do not overlap, the daemon that serves is the one the PID file
\* names, whatever is killed and whichever starts are refused.
THEOREM PidFileAlwaysNamesServer == DaemonizeSpec => []PidFileNamesServer
  <1>1. DaemonizeInit => FileInv
    BY DEF DaemonizeInit, FileInv, Owning
  <1>2. FileInv => PidFileNamesServer
    BY DEF FileInv, PidFileNamesServer, Owning
  <1>. QED
    BY <1>1, <1>2, FileTypeHolds, FileInvStep, PTL DEF DaemonizeSpec
=============================================================================
