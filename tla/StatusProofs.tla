----------------------------- MODULE StatusProofs -----------------------------
(***************************************************************************)
(* The counts shown by the outputs are exact, the total never falls below  *)
(* the number of started actions, and between calls the build's counts are *)
(* the sums of the tools' counts, for any tools and actions.               *)
(***************************************************************************)
EXTENDS Status, FiniteSetTheorems, TLAPS

Started == {a \in Actions : call[a] \in {"running", "finish", "finished"}}
Finished == {a \in Actions : call[a] = "finished"}

\* The actions of t whose start is counted by the tool, and not yet by Status
\* although the total is.
Starting(t) == {a \in Actions : ToolOf[a] = t /\ call[a] = "start"}

(***************************************************************************)
(* What tool t contributes to counts.total - counts.started: its own       *)
(* difference, without the part of the total that Status has not seen, and *)
(* with the starts that Status has not seen.                               *)
(***************************************************************************)
Slack(t) == local[t].total - setting[t] - local[t].started + Cardinality(Starting(t))

\* One element per unit of slack; sums over the tools become cardinalities.
Units(f) == UNION {{t} \X (1 .. f[t]) : t \in Tools}

SlackOf == [t \in Tools |-> Slack(t)]

\* Each tool's own counts, and the calls of other goroutines on it.
ToolInv ==
    \A t \in Tools :
        /\ local[t].total >= local[t].started
        /\ local[t].total - setting[t] >= local[t].started
        /\ setting[t] # 0 => ~ InStartAction(t)
        /\ IsFiniteSet(Starting(t))

\* The build's counts, against the calls and against the tools.
BuildInv ==
    /\ IsFiniteSet(Started)
    /\ counts.started = Cardinality(Started)
    /\ counts.finished = Cardinality(Finished)
    /\ counts.running = counts.started - counts.finished
    /\ IsFiniteSet(Units(SlackOf))
    /\ counts.total = counts.started + Cardinality(Units(SlackOf))

\* TypeOK without the build's counts.
ToolTypes ==
    /\ local \in [Tools -> [total : Nat, running : Int, started : Nat, finished : Nat]]
    /\ call \in [Actions -> Calls]
    /\ setting \in [Tools -> Int]
    /\ closed \subseteq Tools

IInv == TypeOK /\ ToolInv /\ BuildInv
-----------------------------------------------------------------------------
\* A tool's slack is never negative.
LEMMA SlackIsNat ==
    ASSUME ToolTypes, ToolInv
    PROVE  SlackOf \in [Tools -> Nat]
<1> SUFFICES ASSUME NEW t \in Tools
             PROVE  Slack(t) \in Nat
  BY Zenon DEF SlackOf
<1>1. Cardinality(Starting(t)) \in Nat
  BY FS_CardinalityType, Zenon DEF ToolInv
<1>2. /\ local[t].total \in Nat
      /\ local[t].started \in Nat
      /\ setting[t] \in Int
      /\ local[t].total - setting[t] >= local[t].started
  BY Zenon DEF ToolTypes, ToolInv
<1> QED
  BY <1>1, <1>2, SMTT(30) DEF Slack

\* Changing one tool's slack changes the number of units by as much.
LEMMA UnitsUpdate ==
    ASSUME NEW f \in [Tools -> Nat], NEW t \in Tools, NEW n \in Nat,
           IsFiniteSet(Units(f))
    PROVE  /\ IsFiniteSet(Units([f EXCEPT ![t] = n]))
           /\ Cardinality(Units([f EXCEPT ![t] = n])) = Cardinality(Units(f)) - f[t] + n
<1> DEFINE rest == Units([f EXCEPT ![t] = 0])
           Own(m) == {t} \X (1 .. m)
<1>1. \A m \in Nat : IsFiniteSet(Own(m)) /\ Cardinality(Own(m)) = m
  <2> TAKE m \in Nat
  <2>1. IsFiniteSet({t}) /\ Cardinality({t}) = 1
    BY FS_Singleton, Zenon
  <2>2. IsFiniteSet(1 .. m) /\ Cardinality(1 .. m) = m
    <3>1. 1 \in Int /\ m \in Int /\ (IF 1 > m THEN 0 ELSE m - 1 + 1) = m
      BY SMTT(30)
    <3>2. /\ IsFiniteSet(1 .. m)
          /\ Cardinality(1 .. m) = IF 1 > m THEN 0 ELSE m - 1 + 1
      BY ONLY <3>1, FS_Interval, Zenon
    <3> QED
      BY <3>1, <3>2, SMTT(30)
  <2>3. IsFiniteSet(Own(m)) /\ Cardinality(Own(m)) = Cardinality({t}) * Cardinality(1 .. m)
    BY <2>1, <2>2, FS_Product, Zenon
  <2> QED
    BY <2>1, <2>2, <2>3, SMTT(30)
<1>2. rest \subseteq Units(f)
  <2> SUFFICES ASSUME NEW u \in rest PROVE u \in Units(f)
    BY Zenon
  <2>1. PICK s \in Tools : u \in {s} \X (1 .. [f EXCEPT ![t] = 0][s])
    BY Zenon DEF Units
  <2>2. s # t
    BY <2>1, SMTT(30)
  <2> QED
    BY <2>1, <2>2, Zenon DEF Units
<1>3. IsFiniteSet(rest)
  BY <1>2, FS_Subset, Zenon
<1>4. ASSUME NEW m \in Nat
      PROVE  /\ IsFiniteSet(Units([f EXCEPT ![t] = m]))
             /\ Cardinality(Units([f EXCEPT ![t] = m])) = Cardinality(rest) + m
  <2>1. Units([f EXCEPT ![t] = m]) = rest \cup Own(m)
    <3>1. \A s \in Tools \ {t} : [f EXCEPT ![t] = m][s] = [f EXCEPT ![t] = 0][s]
      BY Zenon
    <3>2. [f EXCEPT ![t] = m][t] = m /\ 1 .. [f EXCEPT ![t] = 0][t] = {}
      BY SMTT(30)
    <3> QED
      BY <3>1, <3>2, SMTT(30) DEF Units
  <2>2. rest \cap Own(m) = {}
    <3>1. 1 .. [f EXCEPT ![t] = 0][t] = {}
      BY SMTT(30)
    <3> QED
      BY <3>1, SMTT(30) DEF Units
  <2>3. IsFiniteSet(Own(m)) /\ Cardinality(Own(m)) = m
    BY <1>1, Zenon
  <2>4. /\ IsFiniteSet(rest \cup Own(m))
        /\ Cardinality(rest \cup Own(m))
              = Cardinality(rest) + Cardinality(Own(m)) - Cardinality(rest \cap Own(m))
    BY <1>3, <2>3, FS_Union, Zenon
  <2>5. Cardinality(rest \cap Own(m)) = 0
    BY <2>2, FS_EmptySet, Zenon
  <2>6. Cardinality(rest) \in Nat
    BY <1>3, FS_CardinalityType, Zenon
  <2>7. Cardinality(rest \cup Own(m)) = Cardinality(rest) + m
    BY <2>3, <2>4, <2>5, <2>6, SMTT(30)
  <2> QED
    BY <2>1, <2>4, <2>7, Zenon
<1>5. f = [f EXCEPT ![t] = f[t]] /\ f[t] \in Nat
  BY Zenon
<1>6. Cardinality(Units(f)) = Cardinality(rest) + f[t]
  BY <1>4, <1>5, Zenon
<1>7. Cardinality(rest) \in Nat
  BY <1>3, FS_CardinalityType, Zenon
<1>8. /\ IsFiniteSet(Units([f EXCEPT ![t] = n]))
      /\ Cardinality(Units([f EXCEPT ![t] = n])) = Cardinality(rest) + n
  BY <1>4, Zenon
<1> QED
  BY <1>5, <1>6, <1>7, <1>8, SMTT(30)

\* A step that moves one tool's slack from Slack(t) to n, and the difference of
\* the build's total and started counts by as much, keeps their relation.
LEMMA SlackStep ==
    ASSUME IInv, counts'.total \in Int, counts'.started \in Nat,
           NEW t \in Tools, NEW n \in Nat,
           SlackOf' = [SlackOf EXCEPT ![t] = n],
           counts'.total - counts'.started = counts.total - counts.started - Slack(t) + n
    PROVE  /\ IsFiniteSet(Units(SlackOf'))
           /\ counts'.total = counts'.started + Cardinality(Units(SlackOf'))
<1>1. SlackOf \in [Tools -> Nat] /\ SlackOf[t] = Slack(t)
  BY SlackIsNat, Zenon DEF IInv, SlackOf, TypeOK, ToolTypes
<1>2. IsFiniteSet(Units(SlackOf))
  BY Zenon DEF IInv, BuildInv
<1>3. /\ IsFiniteSet(Units([SlackOf EXCEPT ![t] = n]))
      /\ Cardinality(Units([SlackOf EXCEPT ![t] = n])) = Cardinality(Units(SlackOf)) - SlackOf[t] + n
  BY <1>1, <1>2, UnitsUpdate, Zenon
<1>4. Cardinality(Units(SlackOf)) \in Nat
  BY <1>2, FS_CardinalityType, Zenon
<1>5. /\ counts.total \in Nat /\ counts.started \in Nat
      /\ counts'.total \in Int /\ counts'.started \in Nat
      /\ counts.total = counts.started + Cardinality(Units(SlackOf))
  BY Zenon DEF IInv, BuildInv, TypeOK
<1>6. Slack(t) \in Nat
  BY <1>1, Zenon
<1> QED
  BY <1>1, <1>3, <1>4, <1>5, <1>6, SMTT(30)

\* Adding an element to a finite set.
LEMMA CountAdd ==
    ASSUME NEW S, NEW x, IsFiniteSet(S), x \notin S
    PROVE  IsFiniteSet(S \cup {x}) /\ Cardinality(S \cup {x}) = Cardinality(S) + 1
  BY FS_AddElement, Zenon

\* Taking an element away.
LEMMA CountRemove ==
    ASSUME NEW S, NEW x, IsFiniteSet(S), x \in S
    PROVE  IsFiniteSet(S \ {x}) /\ Cardinality(S \ {x}) = Cardinality(S) - 1
  BY FS_RemoveElement, Zenon

\* A call on one tool leaves the slack of the others alone.
LEMMA SlackElsewhere ==
    ASSUME NEW t \in Tools,
           \A s \in Tools \ {t} : local'[s] = local[s] /\ setting'[s] = setting[s],
           \A s \in Tools \ {t} : Starting(s)' = Starting(s)
    PROVE  SlackOf' = [SlackOf EXCEPT ![t] = Slack(t)']
<1>1. \A s \in Tools \ {t} : Slack(s)' = Slack(s)
  BY Zenon DEF Slack
<1> QED
  BY <1>1, Zenon DEF SlackOf

\* A goroutine that moves action a on changes the sets of its own tool only.
LEMMA CallMoves ==
    ASSUME TypeOK, NEW a \in Actions, NEW v \in Calls, call' = [call EXCEPT ![a] = v]
    PROVE  /\ \A s \in Tools \ {ToolOf[a]} : Starting(s)' = Starting(s)
           /\ v # "start" /\ call[a] # "start" => Starting(ToolOf[a])' = Starting(ToolOf[a])
           /\ v = "start" => Starting(ToolOf[a])' = Starting(ToolOf[a]) \cup {a}
           /\ v # "start" => Starting(ToolOf[a])' = Starting(ToolOf[a]) \ {a}
           /\ (v \in {"running", "finish", "finished"} <=> call[a] \in {"running", "finish", "finished"})
                => Started' = Started
           /\ v = "running" => Started' = Started \cup {a}
           /\ (v = "finished" <=> call[a] = "finished") => Finished' = Finished
           /\ v = "finished" => Finished' = Finished \cup {a}
  BY ToolOfAssumption, Zenon DEF Starting, Started, Finished, TypeOK

\* What is left to show for a step on tool t, once its effect on the calls and
\* on t's slack is known.
LEMMA Conclude ==
    ASSUME IInv, NEW t \in Tools,
           counts' \in [total : Int, running : Int, started : Nat, finished : Nat],
           ToolTypes', ToolInv',
           \A s \in Tools \ {t} : local'[s] = local[s] /\ setting'[s] = setting[s],
           \A s \in Tools \ {t} : Starting(s)' = Starting(s),
           IsFiniteSet(Started'),
           counts'.started = Cardinality(Started'),
           counts'.finished = Cardinality(Finished'),
           counts'.running = counts'.started - counts'.finished,
           counts'.total - counts'.started
               = counts.total - counts.started - Slack(t) + Slack(t)'
    PROVE  IInv'
<1>1. SlackOf' \in [Tools -> Nat]
  <2>1. (ToolTypes /\ ToolInv => SlackOf \in [Tools -> Nat])'
    BY SlackIsNat, PTL
  <2> QED
    BY <2>1, Zenon
<1>2. SlackOf' = [SlackOf EXCEPT ![t] = Slack(t)'] /\ Slack(t)' \in Nat
  <2>1. Slack(t)' = SlackOf'[t]
    BY Zenon DEF SlackOf
  <2> QED
    BY <1>1, <2>1, SlackElsewhere, SMTT(30)
<1>3. counts'.total \in Int /\ counts'.started \in Nat
  BY Zenon
<1>4. /\ IsFiniteSet(Units(SlackOf'))
      /\ counts'.total = counts'.started + Cardinality(Units(SlackOf'))
  BY <1>2, <1>3, SlackStep, Zenon
<1>5. BuildInv'
  BY <1>4, Zenon DEF BuildInv, Units
<1>6. counts'.total \in Nat
  <2>1. Cardinality(Units(SlackOf')) \in Nat
    BY <1>4, FS_CardinalityType, Zenon
  <2> QED
    BY <1>3, <1>4, <2>1, SMTT(30)
<1>7. counts'.running \in Nat
  <2>1. Finished' \subseteq Started'
    BY Zenon DEF Finished, Started
  <2>2. Cardinality(Finished') <= Cardinality(Started')
    BY <2>1, FS_Subset, Zenon
  <2>3. counts'.started \in Nat /\ counts'.finished \in Nat
    BY Zenon
  <2> QED
    BY <2>2, <2>3, SMTT(30)
<1>8. TypeOK'
  <2>1. counts' \in [total : Nat, running : Nat, started : Nat, finished : Nat]
    BY <1>6, <1>7, Zenon
  <2> QED
    BY <2>1, Zenon DEF TypeOK, ToolTypes
<1> QED
  BY <1>5, <1>8, Zenon DEF IInv

\* SetTotalActions, updateTotalActions and Finish: no call moves on.
LEMMA ToolStepIInv ==
    ASSUME IInv, NEW t \in Tools, ToolStep(t)
    PROVE  IInv'
<1>1. /\ counts \in [total : Nat, running : Nat, started : Nat, finished : Nat]
      /\ local \in [Tools -> [total : Nat, running : Int, started : Nat, finished : Nat]]
      /\ call \in [Actions -> Calls] /\ setting \in [Tools -> Int] /\ closed \subseteq Tools
  BY Zenon DEF IInv, TypeOK
<1>2. /\ local[t].total >= local[t].started
      /\ local[t].total - setting[t] >= local[t].started
      /\ setting[t] # 0 => ~ InStartAction(t)
      /\ Cardinality(Starting(t)) \in Nat
  BY FS_CardinalityType, Zenon DEF IInv, ToolInv
<1>3. /\ counts.started = Cardinality(Started)
      /\ counts.finished = Cardinality(Finished)
      /\ counts.running = counts.started - counts.finished
      /\ IsFiniteSet(Started)
  BY Zenon DEF IInv, BuildInv
<1>4. ASSUME NEW d \in Int, NEW n \in Nat, NEW m \in Int,
             call' = call, ToolTypes',
             counts' \in [total : Int, running : Int, started : Nat, finished : Nat],
             counts'.total = counts.total + d, counts'.started = counts.started,
             counts'.finished = counts.finished, counts'.running = counts.running,
             local'[t].total = n, local'[t].started = local[t].started, setting'[t] = m,
             \A s \in Tools \ {t} : local'[s] = local[s] /\ setting'[s] = setting[s],
             n >= local[t].started, n - m >= local[t].started,
             m # 0 => ~ InStartAction(t),
             d = (n - m) - (local[t].total - setting[t])
      PROVE  IInv'
  <2>1. /\ \A s \in Tools : Starting(s)' = Starting(s)
        /\ Started' = Started /\ Finished' = Finished
        /\ \A s \in Tools : InStartAction(s)' = InStartAction(s)
    BY <1>4, Zenon DEF Starting, Started, Finished, InStartAction, ActionsOf
  <2>2. ToolInv'
    <3> SUFFICES ASSUME NEW s \in Tools
                 PROVE  /\ local'[s].total >= local'[s].started
                        /\ local'[s].total - setting'[s] >= local'[s].started
                        /\ setting'[s] # 0 => ~ InStartAction(s)'
                        /\ IsFiniteSet(Starting(s)')
      BY Zenon DEF ToolInv
    <3>1. CASE s = t
      BY <1>4, <2>1, <3>1, Zenon DEF IInv, ToolInv
    <3>2. CASE s # t
      BY <1>4, <2>1, <3>2, Zenon DEF IInv, ToolInv
    <3> QED
      BY <3>1, <3>2, Zenon
  <2>3. Slack(t)' = n - m - local[t].started + Cardinality(Starting(t))
    BY <1>4, <2>1, Zenon DEF Slack
  <2>4. counts'.total - counts'.started
            = counts.total - counts.started - Slack(t) + Slack(t)'
    BY <1>1, <1>2, <1>4, <2>3, SMTT(30) DEF Slack
  <2> QED
    BY <1>3, <1>4, <2>1, <2>2, <2>4, Conclude, Zenon
<1>5. ASSUME NEW total \in Totals, SetTotalActions(t, total) PROVE IInv'
  <2>1. total \in Nat /\ setting[t] = 0 /\ total - local[t].total \in Int
    BY <1>1, <1>5, TotalsAssumption, SMTT(30) DEF SetTotalActions
  <2>2. ToolTypes'
    BY <1>1, <1>5, <2>1, Zenon DEF SetTotalActions, ToolTypes
  <2>3. /\ local'[t].total = total /\ local'[t].started = local[t].started
        /\ setting'[t] = total - local[t].total
        /\ \A s \in Tools \ {t} : local'[s] = local[s] /\ setting'[s] = setting[s]
    BY <1>1, <1>5, Zenon DEF SetTotalActions
  <2>4. counts' = counts /\ call' = call /\ ~ InStartAction(t) /\ total >= local[t].started
    BY <1>5, Zenon DEF SetTotalActions
  <2>5. /\ counts' \in [total : Int, running : Int, started : Nat, finished : Nat]
        /\ counts'.total = counts.total + 0
    BY <1>1, <2>4, SMTT(30)
  <2>6. /\ total - (total - local[t].total) >= local[t].started
        /\ 0 = (total - (total - local[t].total)) - (local[t].total - setting[t])
    BY <1>1, <1>2, <2>1, SMTT(30)
  <2> QED
    BY <1>4, <2>1, <2>2, <2>3, <2>4, <2>5, <2>6, SMTT(30)
<1>6. ASSUME UpdateTotalActions(t) PROVE IInv'
  <2>1. local' = local /\ call' = call /\ closed' = closed
    BY <1>6, Zenon DEF UpdateTotalActions
  <2>2. setting' \in [Tools -> Int] /\ setting'[t] = 0 /\ \A s \in Tools \ {t} : setting'[s] = setting[s]
    BY <1>1, <1>6, SMTT(30) DEF UpdateTotalActions
  <2>3. ToolTypes'
    BY <1>1, <2>1, <2>2, Zenon DEF ToolTypes
  <2>4. /\ counts' \in [total : Int, running : Int, started : Nat, finished : Nat]
        /\ counts'.total = counts.total + setting[t] /\ counts'.started = counts.started
        /\ counts'.finished = counts.finished /\ counts'.running = counts.running
    BY <1>1, <1>6, SMTT(30) DEF UpdateTotalActions
  <2>5. /\ local[t].total \in Nat /\ setting[t] \in Int /\ local[t].total - 0 >= local[t].started
        /\ setting[t] = (local[t].total - 0) - (local[t].total - setting[t])
    BY <1>1, <1>2, SMTT(30)
  <2> QED
    BY <1>2, <1>4, <2>1, <2>2, <2>3, <2>4, <2>5, Zenon
<1>7. ASSUME ToolFinish(t) PROVE IInv'
  <2> DEFINE d == local[t].started - local[t].total
  <2>1. setting' = setting /\ call' = call /\ closed' \subseteq Tools /\ setting[t] = 0
    BY <1>1, <1>7, Zenon DEF ToolFinish
  <2>2. /\ local' \in [Tools -> [total : Nat, running : Int, started : Nat, finished : Nat]]
        /\ local'[t].total = local[t].started /\ local'[t].started = local[t].started
        /\ \A s \in Tools \ {t} : local'[s] = local[s]
    BY <1>1, <1>7, Zenon DEF ToolFinish
  <2>3. ToolTypes'
    BY <1>1, <2>1, <2>2, Zenon DEF ToolTypes
  <2>4. /\ counts' \in [total : Int, running : Int, started : Nat, finished : Nat]
        /\ counts'.total = counts.total + d /\ counts'.started = counts.started
        /\ counts'.finished = counts.finished /\ counts'.running = counts.running
    BY <1>1, <1>7, SMTT(30) DEF ToolFinish
  <2>5. /\ d \in Int /\ local[t].started \in Nat /\ local[t].started - 0 >= local[t].started
        /\ d = (local[t].started - 0) - (local[t].total - setting[t])
    BY <1>1, <2>1, SMTT(30)
  <2> HIDE DEF d
  <2> QED
    BY <1>2, <1>4, <2>1, <2>2, <2>3, <2>4, <2>5, SMTT(30)
<1> QED
  BY <1>5, <1>6, <1>7, Zenon DEF ToolStep

\* StartAction and FinishAction, in their two or three steps: one call moves on.
LEMMA ActionStepIInv ==
    ASSUME IInv, NEW a \in Actions, ActionStep(a)
    PROVE  IInv'
<1> DEFINE t == ToolOf[a]
<1>0. t \in Tools
  BY ToolOfAssumption, Zenon
<1>1. /\ counts \in [total : Nat, running : Nat, started : Nat, finished : Nat]
      /\ local \in [Tools -> [total : Nat, running : Int, started : Nat, finished : Nat]]
      /\ call \in [Actions -> Calls] /\ setting \in [Tools -> Int] /\ closed \subseteq Tools
  BY Zenon DEF IInv, TypeOK
<1>2. /\ local[t].total >= local[t].started
      /\ local[t].total - setting[t] >= local[t].started
      /\ setting[t] # 0 => ~ InStartAction(t)
      /\ IsFiniteSet(Starting(t)) /\ Cardinality(Starting(t)) \in Nat
  BY <1>0, FS_CardinalityType, Zenon DEF IInv, ToolInv
<1>3. /\ counts.started = Cardinality(Started)
      /\ counts.finished = Cardinality(Finished)
      /\ counts.running = counts.started - counts.finished
      /\ IsFiniteSet(Started) /\ IsFiniteSet(Finished)
  <2>1. Finished \subseteq Started
    BY Zenon DEF Finished, Started
  <2> QED
    BY <2>1, FS_Subset, Zenon DEF IInv, BuildInv
<1>4. ASSUME NEW v \in Calls, call' = [call EXCEPT ![a] = v],
             counts' \in [total : Int, running : Int, started : Nat, finished : Nat],
             counts'.started = Cardinality(Started'), IsFiniteSet(Started'),
             counts'.finished = Cardinality(Finished'),
             counts'.running = counts'.started - counts'.finished,
             local' \in [Tools -> [total : Nat, running : Int, started : Nat, finished : Nat]],
             \A s \in Tools \ {t} : local'[s] = local[s],
             setting' = setting, closed' = closed,
             local'[t].total >= local'[t].started,
             setting[t] # 0 => /\ local'[t].total = local[t].total
                               /\ local'[t].started = local[t].started
                               /\ v \notin {"total", "start"},
             IsFiniteSet(Starting(t)'),
             counts'.total - counts'.started
                 = counts.total - counts.started - Slack(t) + Slack(t)'
      PROVE  IInv'
  <2>1. \A s \in Tools \ {t} : Starting(s)' = Starting(s)
    BY <1>4, CallMoves, Zenon DEF IInv
  <2>2. ToolTypes'
    BY <1>1, <1>4, Zenon DEF ToolTypes
  <2>3. \A s \in Tools \ {t} : InStartAction(s)' = InStartAction(s)
    BY <1>1, <1>4, Zenon DEF InStartAction, ActionsOf
  <2>4. ToolInv'
    <3> SUFFICES ASSUME NEW s \in Tools
                 PROVE  /\ local'[s].total >= local'[s].started
                        /\ local'[s].total - setting'[s] >= local'[s].started
                        /\ setting'[s] # 0 => ~ InStartAction(s)'
                        /\ IsFiniteSet(Starting(s)')
      BY Zenon DEF ToolInv
    <3>1. CASE s # t
      BY <1>4, <2>1, <2>3, <3>1, Zenon DEF IInv, ToolInv
    <3>2. CASE s = t /\ setting[t] = 0
      BY <1>0, <1>1, <1>4, <3>2, SMTT(30)
    <3>3. CASE s = t /\ setting[t] # 0
      <4>1. ~ InStartAction(t)'
        BY <1>1, <1>2, <1>4, <3>3, Zenon DEF InStartAction, ActionsOf
      <4> QED
        BY <1>2, <1>4, <3>3, <4>1, Zenon
    <3> QED
      BY <3>1, <3>2, <3>3, Zenon
  <2> QED
    BY <1>0, <1>4, <2>1, <2>2, <2>4, Conclude, Zenon
<1>5. ASSUME StartAction(a) PROVE IInv'
  <2>1. PICK v \in {"total", "start"} : call' = [call EXCEPT ![a] = v]
    BY <1>5, Zenon DEF StartAction
  <2>2. /\ call[a] = "new" /\ setting[t] = 0 /\ setting' = setting /\ closed' = closed
        /\ counts' = counts
    BY <1>5, Zenon DEF StartAction
  <2>3. a \notin Starting(t) /\ a \notin Started /\ a \notin Finished
    BY <2>2, Zenon DEF Starting, Started, Finished
  <2>4. v \in Calls
    BY Zenon DEF Calls
  <2>5. Started' = Started /\ Finished' = Finished
    BY <2>1, <2>2, <2>4, CallMoves, ZenonT(40) DEF IInv
  <2>6. /\ local' \in [Tools -> [total : Nat, running : Int, started : Nat, finished : Nat]]
        /\ local'[t].started = local[t].started + 1
        /\ \A s \in Tools \ {t} : local'[s] = local[s]
    BY <1>0, <1>1, <1>5, SMTT(30) DEF StartAction
  <2>7. CASE local[t].started + 1 > local[t].total
    <3>1. local'[t].total = local[t].started + 1 /\ call' = [call EXCEPT ![a] = "total"]
      BY <1>0, <1>1, <1>5, <2>7, Zenon DEF StartAction
    <3>2. "total" \in Calls
      BY Zenon DEF Calls
    <3>3. Starting(t)' = Starting(t)
      BY <2>2, <3>1, <3>2, CallMoves, Zenon DEF IInv
    <3>4. local[t].total = local[t].started
      BY <1>0, <1>1, <1>2, <2>7, SMTT(30)
    <3>5. Slack(t)' = Slack(t)
      BY <1>0, <1>1, <1>2, <2>2, <2>6, <3>1, <3>3, <3>4, SMTT(30) DEF Slack
    <3>6. Slack(t) \in Int
      BY <1>0, <1>1, <1>2, SMTT(30) DEF Slack
    <3>7. /\ counts' \in [total : Int, running : Int, started : Nat, finished : Nat]
          /\ counts'.total - counts'.started = counts.total - counts.started - Slack(t) + Slack(t)'
      BY <1>1, <2>2, <3>5, <3>6, SMTT(30)
    <3>8. local'[t].total >= local'[t].started
      BY <1>0, <1>1, <2>6, <3>1, SMTT(30)
    <3> QED
      BY <1>2, <1>3, <1>4, <2>2, <2>5, <2>6, <3>1, <3>2, <3>3, <3>7, <3>8, Zenon
  <2>8. CASE ~ (local[t].started + 1 > local[t].total)
    <3>1. local'[t].total = local[t].total /\ call' = [call EXCEPT ![a] = "start"]
      BY <1>0, <1>1, <1>5, <2>8, Zenon DEF StartAction
    <3>2. "start" \in Calls
      BY Zenon DEF Calls
    <3>3. Starting(t)' = Starting(t) \cup {a}
      BY <3>1, <3>2, CallMoves, Zenon DEF IInv
    <3>4. IsFiniteSet(Starting(t)') /\ Cardinality(Starting(t)') = Cardinality(Starting(t)) + 1
      BY <1>2, <2>3, <3>3, CountAdd, Zenon
    <3>5. Slack(t)' = Slack(t) /\ Slack(t) \in Int
      <4>1. Slack(t)' = local[t].total - setting[t] - (local[t].started + 1)
                          + (Cardinality(Starting(t)) + 1)
        BY <2>2, <2>6, <3>1, <3>4, Zenon DEF Slack
      <4> QED
        BY <1>0, <1>1, <1>2, <4>1, SMTT(30) DEF Slack
    <3>6. /\ counts' \in [total : Int, running : Int, started : Nat, finished : Nat]
          /\ counts'.total - counts'.started = counts.total - counts.started - Slack(t) + Slack(t)'
      BY <1>1, <2>2, <3>5, SMTT(30)
    <3>7. local'[t].total >= local'[t].started
      BY <1>0, <1>1, <2>6, <2>8, <3>1, SMTT(30)
    <3> QED
      BY <1>3, <1>4, <2>2, <2>5, <2>6, <3>1, <3>2, <3>4, <3>6, <3>7, Zenon
  <2> QED
    BY <2>7, <2>8, Zenon
<1>6. \A v \in {"start", "running", "finish", "finished"} : v \in Calls
  BY Zenon DEF Calls
<1>7. ASSUME RaiseTotal(a) PROVE IInv'
  <2>1. /\ call[a] = "total" /\ call' = [call EXCEPT ![a] = "start"]
        /\ local' = local /\ setting' = setting /\ closed' = closed
    BY <1>7, Zenon DEF RaiseTotal
  <2>2. /\ counts' \in [total : Int, running : Int, started : Nat, finished : Nat]
        /\ counts'.total = counts.total + 1 /\ counts'.started = counts.started
        /\ counts'.finished = counts.finished /\ counts'.running = counts.running
    BY <1>1, <1>7, SMTT(30) DEF RaiseTotal
  <2>3. Started' = Started /\ Finished' = Finished /\ Starting(t)' = Starting(t) \cup {a}
    BY <1>6, <2>1, CallMoves, Zenon DEF IInv
  <2>4. a \notin Starting(t)
    BY <2>1, Zenon DEF Starting
  <2>5. IsFiniteSet(Starting(t)') /\ Cardinality(Starting(t)') = Cardinality(Starting(t)) + 1
    BY <1>2, <2>3, <2>4, CountAdd, Zenon
  <2>6. setting[t] = 0
    BY <1>0, <1>2, <2>1, Zenon DEF InStartAction, ActionsOf
  <2>7. Slack(t)' = local[t].total - setting[t] - local[t].started + (Cardinality(Starting(t)) + 1)
    BY <2>1, <2>5, Zenon DEF Slack
  <2>8. counts'.total - counts'.started = counts.total - counts.started - Slack(t) + Slack(t)'
    BY <1>0, <1>1, <1>2, <2>2, <2>7, SMTT(30) DEF Slack
  <2> QED
    BY <1>1, <1>2, <1>3, <1>4, <1>6, <2>1, <2>2, <2>3, <2>5, <2>6, <2>8, Zenon
<1>8. ASSUME StatusStartAction(a) PROVE IInv'
  <2>1. /\ call[a] = "start" /\ call' = [call EXCEPT ![a] = "running"]
        /\ local' = local /\ setting' = setting /\ closed' = closed
    BY <1>8, Zenon DEF StatusStartAction
  <2>2. /\ counts' \in [total : Int, running : Int, started : Nat, finished : Nat]
        /\ counts'.total = counts.total /\ counts'.started = counts.started + 1
        /\ counts'.finished = counts.finished /\ counts'.running = counts.running + 1
    <3>1. counts' = [total |-> counts.total, running |-> counts.running + 1, started |-> counts.started + 1,
                       finished |-> counts.finished]
      BY <1>1, <1>8, Zenon DEF StatusStartAction
    <3> QED
      BY <1>1, <3>1, SMTT(30)
  <2>3. /\ Started' = Started \cup {a} /\ Finished' = Finished
        /\ Starting(t)' = Starting(t) \ {a}
    BY <1>6, <2>1, CallMoves, ZenonT(40) DEF IInv
  <2>4. a \in Starting(t) /\ a \notin Started
    BY <2>1, Zenon DEF Starting, Started
  <2>5. IsFiniteSet(Starting(t)') /\ Cardinality(Starting(t)') = Cardinality(Starting(t)) - 1
    BY <1>2, <2>3, <2>4, CountRemove, Zenon
  <2>6. IsFiniteSet(Started') /\ counts'.started = Cardinality(Started')
    BY <1>3, <2>2, <2>3, <2>4, CountAdd, Zenon
  <2>7. Slack(t)' = local[t].total - setting[t] - local[t].started + (Cardinality(Starting(t)) - 1)
    BY <2>1, <2>5, Zenon DEF Slack
  <2>8. counts'.total - counts'.started = counts.total - counts.started - Slack(t) + Slack(t)'
    BY <1>0, <1>1, <1>2, <2>2, <2>7, SMTT(30) DEF Slack
  <2>9. counts'.running = counts'.started - counts'.finished
    BY <1>1, <1>3, <2>2, SMTT(30)
  <2> QED
    BY <1>1, <1>2, <1>3, <1>4, <1>6, <2>1, <2>2, <2>3, <2>5, <2>6, <2>8, <2>9, Zenon
<1>9. ASSUME FinishAction(a) PROVE IInv'
  <2>1. /\ call[a] = "running" /\ call' = [call EXCEPT ![a] = "finish"]
        /\ counts' = counts /\ setting' = setting /\ closed' = closed
    BY <1>9, Zenon DEF FinishAction
  <2>2. Started' = Started /\ Finished' = Finished /\ Starting(t)' = Starting(t)
    BY <1>6, <2>1, CallMoves, Zenon DEF IInv
  <2>3. /\ local' \in [Tools -> [total : Nat, running : Int, started : Nat, finished : Nat]]
        /\ local'[t].started = local[t].started /\ local'[t].total = local[t].total
        /\ \A s \in Tools \ {t} : local'[s] = local[s]
    BY <1>0, <1>1, <1>9, SMTT(30) DEF FinishAction
  <2>4. Slack(t)' = Slack(t) /\ Slack(t) \in Int
    BY <1>0, <1>1, <1>2, <2>1, <2>2, <2>3, SMTT(30) DEF Slack
  <2>5. /\ counts' \in [total : Int, running : Int, started : Nat, finished : Nat]
        /\ counts'.total - counts'.started = counts.total - counts.started - Slack(t) + Slack(t)'
    BY <1>1, <2>1, <2>4, SMTT(30)
  <2> QED
    BY <1>2, <1>3, <1>4, <1>6, <2>1, <2>2, <2>3, <2>5, Zenon
<1>10. ASSUME StatusFinishAction(a) PROVE IInv'
  <2>1. /\ call[a] = "finish" /\ call' = [call EXCEPT ![a] = "finished"]
        /\ local' = local /\ setting' = setting /\ closed' = closed
    BY <1>10, Zenon DEF StatusFinishAction
  <2>2. /\ counts' \in [total : Int, running : Int, started : Nat, finished : Nat]
        /\ counts'.total = counts.total /\ counts'.started = counts.started
        /\ counts'.finished = counts.finished + 1 /\ counts'.running = counts.running - 1
    <3>1. counts' = [total |-> counts.total, running |-> counts.running - 1, started |-> counts.started,
                       finished |-> counts.finished + 1]
      BY <1>1, <1>10, Zenon DEF StatusFinishAction
    <3> QED
      BY <1>1, <3>1, SMTT(30)
  <2>3. Started' = Started /\ Finished' = Finished \cup {a} /\ Starting(t)' = Starting(t)
    BY <1>6, <2>1, CallMoves, Zenon DEF IInv
  <2>4. a \notin Finished
    BY <2>1, Zenon DEF Finished
  <2>5. counts'.finished = Cardinality(Finished')
    BY <1>3, <2>2, <2>3, <2>4, CountAdd, Zenon
  <2>6. Slack(t)' = Slack(t) /\ Slack(t) \in Int
    BY <1>0, <1>1, <1>2, <2>1, <2>3, SMTT(30) DEF Slack
  <2>7. counts'.total - counts'.started = counts.total - counts.started - Slack(t) + Slack(t)'
    BY <1>1, <2>2, <2>6, SMTT(30)
  <2>8. counts'.running = counts'.started - counts'.finished
    BY <1>1, <1>3, <2>2, SMTT(30)
  <2> QED
    BY <1>1, <1>2, <1>3, <1>4, <1>6, <2>1, <2>2, <2>3, <2>5, <2>7, <2>8, Zenon
<1> QED
  BY <1>5, <1>7, <1>8, <1>9, <1>10, Zenon DEF ActionStep

\* IInv holds before the first call.
LEMMA InitIInv == Init => IInv
<1> SUFFICES ASSUME Init PROVE IInv
  BY Zenon
<1>1. TypeOK
  BY SMTT(30) DEF Init, TypeOK, Zero, Calls
<1>2. IsFiniteSet({}) /\ Cardinality({}) = 0
  BY FS_EmptySet, Zenon
<1>3. Started = {} /\ Finished = {} /\ \A t \in Tools : Starting(t) = {}
  BY Zenon DEF Init, Started, Finished, Starting
<1>4. ToolInv
  BY <1>2, <1>3, SMTT(30) DEF Init, Zero, ToolInv
<1>5. Units(SlackOf) = {}
  <2>1. \A t \in Tools : SlackOf[t] = 0
    BY <1>2, <1>3, SMTT(30) DEF Init, Zero, SlackOf, Slack
  <2>2. \A t \in Tools : {t} \X (1 .. SlackOf[t]) = {}
    BY <2>1, SMTT(30)
  <2> QED
    BY <2>2, Zenon DEF Units
<1>6. BuildInv
  BY <1>2, <1>3, <1>5, SMTT(30) DEF Init, Zero, BuildInv
<1> QED
  BY <1>1, <1>4, <1>6, Zenon DEF IInv

\* Every step of every goroutine preserves IInv.
LEMMA NextIInv == IInv /\ [Next]_vars => IInv'
<1> SUFFICES ASSUME IInv, [Next]_vars PROVE IInv'
  BY Zenon
<1>1. CASE Next
  BY <1>1, ActionStepIInv, ToolStepIInv, Zenon DEF Next
<1>2. CASE UNCHANGED vars
  BY <1>2, SMTT(30) DEF vars, IInv, TypeOK, ToolInv, BuildInv, Started, Finished, Starting, Units,
              SlackOf, Slack, InStartAction, ActionsOf
<1> QED
  BY <1>1, <1>2, Zenon

(***************************************************************************)
(* The counts of the tools and of the build stay related as IInv says,     *)
(* whatever the goroutines that call ToolStatus do.                        *)
(***************************************************************************)
THEOREM StatusIInv == Spec => []IInv
  BY InitIInv, NextIInv, PTL DEF Spec

(***************************************************************************)
(* No count the outputs are given is ever negative (Status.startAction,    *)
(* finishAction, updateTotalActions).                                      *)
(***************************************************************************)
THEOREM StatusTypeCorrect == Spec => []TypeOK
<1>1. IInv => TypeOK
  BY Zenon DEF IInv
<1> QED
  BY <1>1, StatusIInv, PTL

(***************************************************************************)
(* For any number of tools and actions, TotalActions as the outputs see it *)
(* never falls below StartedActions.                                       *)
(***************************************************************************)
THEOREM StatusTotalCoversStarted == Spec => []TotalCoversStarted
<1>1. IInv => TotalCoversStarted
  <2> SUFFICES ASSUME IInv PROVE TotalCoversStarted
    BY Zenon
  <2>1. Cardinality(Units(SlackOf)) \in Nat
    BY FS_CardinalityType, Zenon DEF IInv, BuildInv
  <2>2. counts.started \in Nat
    BY Zenon DEF IInv, TypeOK
  <2> QED
    BY <2>1, <2>2, SMTT(30) DEF IInv, BuildInv, TotalCoversStarted
<1> QED
  BY <1>1, StatusIInv, PTL

(***************************************************************************)
(* For any number of tools and actions, the running, started and finished  *)
(* counts are those of the calls that have reached Status.                 *)
(***************************************************************************)
THEOREM StatusCountsAreExact == Spec => []CountsAreExact
<1>1. IInv => CountsAreExact
  BY Zenon DEF IInv, BuildInv, CountsAreExact, Started, Finished
<1> QED
  BY <1>1, StatusIInv, PTL
-----------------------------------------------------------------------------
(* AccumulatesTools: what the sums over the tools are.                     *)

\* f for the tools in s, and 0 for the others.
Only(f, s) == [t \in Tools |-> IF t \in s THEN f[t] ELSE 0]

Chosen(s) == CHOOSE t \in s : TRUE

\* g adds up f over every set of tools, one tool at a time.
AddsUp(g, f) ==
    g = [s \in SUBSET Tools |-> IF s = {} THEN 0 ELSE f[Chosen(s)] + g[s \ {Chosen(s)}]]

\* A tool taken out of s takes its units along.
LEMMA UnitsWithout ==
    ASSUME NEW f \in [Tools -> Nat], IsFiniteSet(Units(f)), NEW s \in SUBSET Tools, NEW t \in s
    PROVE  /\ IsFiniteSet(Units(Only(f, s)))
           /\ Cardinality(Units(Only(f, s))) = f[t] + Cardinality(Units(Only(f, s \ {t})))
<1>1. Only(f, s) \in [Tools -> Nat] /\ Only(f, s)[t] = f[t] /\ f[t] \in Nat
  BY Zenon DEF Only
<1>2. IsFiniteSet(Units(Only(f, s)))
  <2>1. \A r \in Tools : 1 .. Only(f, s)[r] \subseteq 1 .. f[r]
    BY SMTT(30) DEF Only
  <2>2. Units(Only(f, s)) \subseteq Units(f)
    BY <2>1, SMTT(30) DEF Units
  <2> QED
    BY <2>2, FS_Subset, Zenon
<1>3. Only(f, s \ {t}) = [Only(f, s) EXCEPT ![t] = 0]
  BY Zenon DEF Only
<1>4. Cardinality(Units([Only(f, s) EXCEPT ![t] = 0])) = Cardinality(Units(Only(f, s))) - Only(f, s)[t] + 0
  BY <1>1, <1>2, UnitsUpdate, Zenon
<1>5. Cardinality(Units(Only(f, s))) \in Nat
  BY <1>2, FS_CardinalityType, Zenon
<1> QED
  BY <1>1, <1>2, <1>3, <1>4, <1>5, SMTT(30)

\* No tools, no units.
LEMMA UnitsOfNone ==
    ASSUME NEW f \in [Tools -> Nat]
    PROVE  Cardinality(Units(Only(f, {}))) = 0
<1>1. \A t \in Tools : {t} \X (1 .. Only(f, {})[t]) = {}
  BY SMTT(30) DEF Only
<1>2. Units(Only(f, {})) = {}
  BY <1>1, Zenon DEF Units
<1> QED
  BY <1>2, FS_EmptySet, Zenon

\* The number of units of the tools in s adds f up over s ...
LEMMA UnitsAddUp ==
    ASSUME NEW f \in [Tools -> Nat], IsFiniteSet(Units(f))
    PROVE  \E g : AddsUp(g, f)
<1> DEFINE g == [s \in SUBSET Tools |-> Cardinality(Units(Only(f, s)))]
<1>1. ASSUME NEW s \in SUBSET Tools
      PROVE  g[s] = IF s = {} THEN 0 ELSE f[Chosen(s)] + g[s \ {Chosen(s)}]
  <2>1. CASE s = {}
    BY <2>1, UnitsOfNone, Zenon
  <2>2. CASE s # {}
    <3>1. Chosen(s) \in s
      BY <2>2, Zenon DEF Chosen
    <3>2. Cardinality(Units(Only(f, s))) = f[Chosen(s)] + Cardinality(Units(Only(f, s \ {Chosen(s)})))
      BY <3>1, UnitsWithout, Zenon
    <3>3. s \ {Chosen(s)} \in SUBSET Tools
      BY Zenon
    <3> QED
      BY <2>2, <3>2, <3>3, Zenon
  <2> QED
    BY <2>1, <2>2, Zenon
<1>2. g = [s \in SUBSET Tools |-> g[s]]
  BY Zenon
<1> HIDE DEF g
<1>3. AddsUp(g, f)
  BY <1>1, <1>2, Zenon DEF AddsUp
<1> QED
  BY <1>3, Zenon

\* ... and nothing else does: a smallest set on which another sum differs
\* would be one tool larger than a set on which it agrees.
LEMMA SumIsUnits ==
    ASSUME NEW f \in [Tools -> Nat], IsFiniteSet(Units(f)), NEW g, AddsUp(g, f)
    PROVE  g[Tools] = Cardinality(Units(f))
<1> DEFINE Wrong == {s \in SUBSET Tools : g[s] # Cardinality(Units(Only(f, s)))}
           R == StrictSubsetOrdering(Tools)
<1>1. IsWellFoundedOn(R, SUBSET Tools)
  BY FS_StrictSubsetOrderingWellFounded, FS_FiniteSubsetsOfFinite, ToolsAssumption, Zenon
<1>2. \A s, r \in SUBSET Tools : s \subseteq r /\ s # r => <<s, r>> \in R
  BY Zenon DEF StrictSubsetOrdering
<1>3. \A s \in SUBSET Tools : g[s] = IF s = {} THEN 0 ELSE f[Chosen(s)] + g[s \ {Chosen(s)}]
  BY Zenon DEF AddsUp
<1>4. ASSUME NEW s \in Wrong, \A r \in Wrong : ~ (<<r, s>> \in R) PROVE FALSE
  <2>1. s # {}
    BY <1>3, UnitsOfNone, Zenon
  <2>2. Chosen(s) \in s
    BY <2>1, Zenon DEF Chosen
  <2> DEFINE r == s \ {Chosen(s)}
  <2>3. r \in SUBSET Tools /\ r \subseteq s /\ r # s
    BY <2>2, Zenon
  <2>4. r \notin Wrong
    BY <1>2, <1>4, <2>3, Zenon
  <2>5. g[r] = Cardinality(Units(Only(f, r)))
    BY <2>3, <2>4, Zenon
  <2>6. Cardinality(Units(Only(f, s))) = f[Chosen(s)] + Cardinality(Units(Only(f, r)))
    BY <2>2, UnitsWithout, Zenon
  <2>7. g[s] = f[Chosen(s)] + g[r]
    BY <1>3, <2>1, Zenon
  <2> QED
    BY <2>5, <2>6, <2>7, Zenon
<1> HIDE DEF R
<1>5. Wrong = {}
  <2>1. Wrong \subseteq SUBSET Tools
    BY Zenon
  <2> HIDE DEF Wrong
  <2>2. Wrong # {} => \E s \in Wrong : \A r \in Wrong : ~ (<<r, s>> \in R)
    BY <1>1, <2>1, WFMin, Zenon
  <2> QED
    BY <1>4, <2>2, Zenon
<1>6. Only(f, Tools) = f
  BY Zenon DEF Only
<1> QED
  BY <1>5, <1>6, Zenon

\* What SumOverTools adds up, less the part of a total that Status has not
\* seen, and the calls of which the tool has counted what Status has not.
TotalOf == [t \in Tools |-> local[t].total - setting[t]]
StartedOf == [t \in Tools |-> local[t].started]
FinishedOf == [t \in Tools |-> local[t].finished]

Raising == {a \in Actions : call[a] = "total"}
Entered == {a \in Actions : call[a] \in {"total", "start"}}
Leaving == {a \in Actions : call[a] = "finish"}

\* The tools' counts add up to n and the calls in S.
Balanced(f, n, S) ==
    /\ f \in [Tools -> Nat]
    /\ n \in Nat
    /\ IsFiniteSet(S)
    /\ IsFiniteSet(Units(f))
    /\ Cardinality(Units(f)) = n + Cardinality(S)

\* The inductive invariant: every count of the build is the sum of those of
\* the tools up to the calls between their two locks.
SumInv ==
    /\ Balanced(TotalOf, counts.total, Raising)
    /\ Balanced(StartedOf, counts.started, Entered)
    /\ Balanced(FinishedOf, counts.finished, Leaving)
    /\ \A t \in closed : setting[t] = 0 /\ local[t].total = local[t].started

\* The sum over the tools of local[t].total, once f is known to be that.
LEMMA SumOfTotals ==
    ASSUME Balanced(TotalOf, counts.total, {}), \A t \in Tools : setting[t] = 0, TypeOK
    PROVE  counts.total = SumOverTools(LAMBDA t : local[t].total)
<1> DEFINE Body(g) == [s \in SUBSET Tools |-> IF s = {} THEN 0
                                  ELSE local[Chosen(s)].total + g[s \ {Chosen(s)}]]
<1>1. \A s \in SUBSET Tools : s # {} => TotalOf[Chosen(s)] = local[Chosen(s)].total
  <2> SUFFICES ASSUME NEW s \in SUBSET Tools, s # {} PROVE TotalOf[Chosen(s)] = local[Chosen(s)].total
    BY Zenon
  <2>1. Chosen(s) \in Tools
    BY Zenon DEF Chosen
  <2>2. local[Chosen(s)].total \in Nat
    BY <2>1, Zenon DEF TypeOK
  <2> QED
    BY <2>1, <2>2, SMTT(30) DEF TotalOf
<1>2. \A g : g = Body(g) <=> AddsUp(g, TotalOf)
  BY <1>1, Zenon DEF AddsUp
<1>3. \E g : g = Body(g)
  BY <1>2, UnitsAddUp, Zenon DEF Balanced
<1> DEFINE sum == CHOOSE g : g = Body(g)
<1>4. sum = Body(sum)
  BY <1>3, Zenon
<1>5. SumOverTools(LAMBDA t : local[t].total) = sum[Tools]
  BY Zenon DEF SumOverTools, MapThenSumSet, MapThenFoldSet, Chosen
<1> HIDE DEF sum
<1>6. sum[Tools] = Cardinality(Units(TotalOf))
  BY <1>2, <1>4, SumIsUnits, Zenon DEF Balanced
<1>7. Cardinality({}) = 0
  BY FS_EmptySet, Zenon
<1> QED
  BY <1>5, <1>6, <1>7, SMTT(30) DEF Balanced

\* The same for local[t].started.
LEMMA SumOfStarted ==
    ASSUME Balanced(StartedOf, counts.started, {})
    PROVE  counts.started = SumOverTools(LAMBDA t : local[t].started)
<1> DEFINE Body(g) == [s \in SUBSET Tools |-> IF s = {} THEN 0
                                  ELSE local[Chosen(s)].started + g[s \ {Chosen(s)}]]
<1>1. \A s \in SUBSET Tools : s # {} => StartedOf[Chosen(s)] = local[Chosen(s)].started
  BY Zenon DEF Chosen, StartedOf
<1>2. \A g : g = Body(g) <=> AddsUp(g, StartedOf)
  BY <1>1, Zenon DEF AddsUp
<1>3. \E g : g = Body(g)
  BY <1>2, UnitsAddUp, Zenon DEF Balanced
<1> DEFINE sum == CHOOSE g : g = Body(g)
<1>4. sum = Body(sum)
  BY <1>3, Zenon
<1>5. SumOverTools(LAMBDA t : local[t].started) = sum[Tools]
  BY Zenon DEF SumOverTools, MapThenSumSet, MapThenFoldSet, Chosen
<1> HIDE DEF sum
<1>6. sum[Tools] = Cardinality(Units(StartedOf))
  BY <1>2, <1>4, SumIsUnits, Zenon DEF Balanced
<1>7. Cardinality({}) = 0
  BY FS_EmptySet, Zenon
<1> QED
  BY <1>5, <1>6, <1>7, SMTT(30) DEF Balanced

\* The same for local[t].finished.
LEMMA SumOfFinished ==
    ASSUME Balanced(FinishedOf, counts.finished, {})
    PROVE  counts.finished = SumOverTools(LAMBDA t : local[t].finished)
<1> DEFINE Body(g) == [s \in SUBSET Tools |-> IF s = {} THEN 0
                                  ELSE local[Chosen(s)].finished + g[s \ {Chosen(s)}]]
<1>1. \A s \in SUBSET Tools : s # {} => FinishedOf[Chosen(s)] = local[Chosen(s)].finished
  BY Zenon DEF Chosen, FinishedOf
<1>2. \A g : g = Body(g) <=> AddsUp(g, FinishedOf)
  BY <1>1, Zenon DEF AddsUp
<1>3. \E g : g = Body(g)
  BY <1>2, UnitsAddUp, Zenon DEF Balanced
<1> DEFINE sum == CHOOSE g : g = Body(g)
<1>4. sum = Body(sum)
  BY <1>3, Zenon
<1>5. SumOverTools(LAMBDA t : local[t].finished) = sum[Tools]
  BY Zenon DEF SumOverTools, MapThenSumSet, MapThenFoldSet, Chosen
<1> HIDE DEF sum
<1>6. sum[Tools] = Cardinality(Units(FinishedOf))
  BY <1>2, <1>4, SumIsUnits, Zenon DEF Balanced
<1>7. Cardinality({}) = 0
  BY FS_EmptySet, Zenon
<1> QED
  BY <1>5, <1>6, <1>7, SMTT(30) DEF Balanced

\* Between calls the invariant is the property.
LEMMA SumInvAccumulates == TypeOK /\ SumInv => AccumulatesTools
<1> SUFFICES ASSUME TypeOK, SumInv, Quiescent
             PROVE  /\ counts.total = SumOverTools(LAMBDA t : local[t].total)
                    /\ counts.started = SumOverTools(LAMBDA t : local[t].started)
                    /\ counts.finished = SumOverTools(LAMBDA t : local[t].finished)
                    /\ closed = Tools => counts.total = counts.started
  BY Zenon DEF AccumulatesTools
<1>1. Raising = {} /\ Entered = {} /\ Leaving = {} /\ \A t \in Tools : setting[t] = 0
  BY Zenon DEF Quiescent, Raising, Entered, Leaving
<1>2. /\ Balanced(TotalOf, counts.total, {})
      /\ Balanced(StartedOf, counts.started, {})
      /\ Balanced(FinishedOf, counts.finished, {})
  BY <1>1, Zenon DEF SumInv
<1>3. ASSUME closed = Tools PROVE counts.total = counts.started
  <2>1. \A t \in Tools : local[t].total \in Nat /\ local[t].total - 0 = local[t].total
    BY SMTT(30) DEF TypeOK
  <2>2. TotalOf = StartedOf
    BY <1>1, <1>3, <2>1, Zenon DEF SumInv, TotalOf, StartedOf
  <2>3. Cardinality({}) = 0
    BY FS_EmptySet, Zenon
  <2> QED
    BY <1>2, <2>2, <2>3, SMTT(30) DEF Balanced
<1> QED
  BY <1>1, <1>2, <1>3, SumOfTotals, SumOfStarted, SumOfFinished, Zenon

\* One tool's count and what Status and the calls have of it change alike.
LEMMA BalancedStep ==
    ASSUME NEW f, NEW n, NEW S, Balanced(f, n, S),
           NEW t \in Tools, NEW k \in Nat, NEW m \in Nat, NEW T, IsFiniteSet(T),
           m + Cardinality(T) = n + Cardinality(S) - f[t] + k
    PROVE  Balanced([f EXCEPT ![t] = k], m, T)
<1>1. f \in [Tools -> Nat] /\ n \in Nat /\ IsFiniteSet(Units(f)) /\ f[t] \in Nat
  BY Zenon DEF Balanced
<1>2. /\ IsFiniteSet(Units([f EXCEPT ![t] = k]))
      /\ Cardinality(Units([f EXCEPT ![t] = k])) = Cardinality(Units(f)) - f[t] + k
  BY <1>1, UnitsUpdate, Zenon
<1>3. /\ Cardinality(Units(f)) = n + Cardinality(S)
      /\ Cardinality(S) \in Nat /\ Cardinality(T) \in Nat
  BY FS_CardinalityType, Zenon DEF Balanced
<1>4. Cardinality(Units([f EXCEPT ![t] = k])) = m + Cardinality(T)
  BY <1>1, <1>2, <1>3, SMTT(30)
<1>5. [f EXCEPT ![t] = k] \in [Tools -> Nat]
  BY <1>1, Zenon
<1> QED
  BY <1>2, <1>4, <1>5, Zenon DEF Balanced

\* The same when no tool's count changes.
LEMMA BalancedMove ==
    ASSUME NEW f, NEW n, NEW S, Balanced(f, n, S),
           NEW m \in Nat, NEW T, IsFiniteSet(T),
           m + Cardinality(T) = n + Cardinality(S)
    PROVE  Balanced(f, m, T)
  BY Zenon DEF Balanced

\* One call more, or one less, between its two locks.
LEMMA OneCall ==
    ASSUME NEW S, NEW a, IsFiniteSet(S)
    PROVE  /\ Cardinality(S) \in Nat
           /\ a \notin S => IsFiniteSet(S \cup {a}) /\ Cardinality(S \cup {a}) = Cardinality(S) + 1
           /\ a \in S => IsFiniteSet(S \ {a}) /\ Cardinality(S \ {a}) = Cardinality(S) - 1
  BY FS_CardinalityType, CountAdd, CountRemove, Zenon

\* How the sets of calls change with the place of one.
LEMMA CallsMove ==
    ASSUME TypeOK, NEW a \in Actions, NEW v \in Calls, call' = [call EXCEPT ![a] = v]
    PROVE  /\ v = "total" => Raising' = Raising \cup {a}
           /\ v # "total" => Raising' = Raising \ {a}
           /\ v \in {"total", "start"} => Entered' = Entered \cup {a}
           /\ v \notin {"total", "start"} => Entered' = Entered \ {a}
           /\ v = "finish" => Leaving' = Leaving \cup {a}
           /\ v # "finish" => Leaving' = Leaving \ {a}
           /\ (v = "total" <=> call[a] = "total") => Raising' = Raising
           /\ (v \in {"total", "start"} <=> call[a] \in {"total", "start"}) => Entered' = Entered
           /\ (v = "finish" <=> call[a] = "finish") => Leaving' = Leaving
           /\ a \in Raising <=> call[a] = "total"
           /\ a \in Entered <=> call[a] \in {"total", "start"}
           /\ a \in Leaving <=> call[a] = "finish"
  BY Zenon DEF TypeOK, Raising, Entered, Leaving

\* SetTotalActions, updateTotalActions and Finish of a tool.
LEMMA ToolStepSumInv ==
    ASSUME IInv, IInv', SumInv, NEW t \in Tools, ToolStep(t)
    PROVE  SumInv'
<1>1. /\ counts \in [total : Nat, running : Nat, started : Nat, finished : Nat]
      /\ local \in [Tools -> [total : Nat, running : Int, started : Nat, finished : Nat]]
      /\ setting \in [Tools -> Int] /\ closed \subseteq Tools
      /\ counts' \in [total : Nat, running : Nat, started : Nat, finished : Nat]
      /\ local' \in [Tools -> [total : Nat, running : Int, started : Nat, finished : Nat]]
  BY Zenon DEF IInv, TypeOK
<1>2. /\ Balanced(TotalOf, counts.total, Raising)
      /\ Balanced(StartedOf, counts.started, Entered)
      /\ Balanced(FinishedOf, counts.finished, Leaving)
      /\ IsFiniteSet(Raising) /\ Cardinality(Raising) \in Nat
  BY FS_CardinalityType, Zenon DEF SumInv, Balanced
<1>3. call' = call /\ counts'.started = counts.started /\ counts'.finished = counts.finished
  BY <1>1, Zenon DEF ToolStep, SetTotalActions, UpdateTotalActions, ToolFinish
<1>4. Raising' = Raising /\ Entered' = Entered /\ Leaving' = Leaving
  BY <1>3, Zenon DEF Raising, Entered, Leaving
<1>5. \A s \in Tools : local'[s].started = local[s].started /\ local'[s].finished = local[s].finished
  <2>1. CASE \E total \in Totals : SetTotalActions(t, total)
    BY <1>1, <2>1, SMTT(30) DEF SetTotalActions
  <2>2. CASE UpdateTotalActions(t)
    BY <2>2, Zenon DEF UpdateTotalActions
  <2>3. CASE ToolFinish(t)
    BY <1>1, <2>3, Zenon DEF ToolFinish
  <2> QED
    BY <2>1, <2>2, <2>3, Zenon DEF ToolStep
<1>6. StartedOf' = StartedOf /\ FinishedOf' = FinishedOf
  BY <1>5, Zenon DEF StartedOf, FinishedOf
<1>7. /\ Balanced(StartedOf, counts.started, Entered)'
      /\ Balanced(FinishedOf, counts.finished, Leaving)'
  BY <1>2, <1>3, <1>4, <1>6, Zenon DEF Balanced, Units
<1>8. ASSUME NEW k \in Nat, TotalOf' = [TotalOf EXCEPT ![t] = k],
             counts'.total = counts.total - TotalOf[t] + k
      PROVE  Balanced(TotalOf, counts.total, Raising)'
  <2>1. counts.total \in Nat /\ counts'.total \in Nat /\ TotalOf[t] \in Nat
    BY <1>1, <1>2, Zenon DEF Balanced
  <2>2. counts'.total + Cardinality(Raising) = counts.total + Cardinality(Raising) - TotalOf[t] + k
    BY <1>2, <1>8, <2>1, SMTT(30)
  <2>3. Balanced([TotalOf EXCEPT ![t] = k], counts'.total, Raising)
    BY <1>2, <2>1, <2>2, BalancedStep, Zenon
  <2> QED
    BY <1>4, <1>8, <2>3, Zenon DEF Balanced, Units
<1>9. ASSUME NEW total \in Totals, SetTotalActions(t, total) PROVE SumInv'
  <2>1. total \in Nat /\ setting[t] = 0 /\ t \notin closed /\ closed' = closed /\ counts' = counts
    BY <1>9, TotalsAssumption, Zenon DEF SetTotalActions
  <2>2. /\ local'[t].total = total /\ setting'[t] = total - local[t].total
        /\ \A s \in Tools \ {t} : local'[s] = local[s] /\ setting'[s] = setting[s]
    BY <1>1, <1>9, Zenon DEF SetTotalActions
  <2>3. TotalOf' = TotalOf
    <3>1. local'[t].total - setting'[t] = local[t].total - setting[t]
      BY <1>1, <2>1, <2>2, SMTT(30)
    <3> QED
      BY <2>2, <3>1, Zenon DEF TotalOf
  <2>4. Balanced(TotalOf, counts.total, Raising)'
    BY <1>2, <1>4, <2>1, <2>3, ZenonT(40) DEF Balanced, Units
  <2>5. \A s \in closed' : setting'[s] = 0 /\ local'[s].total = local'[s].started
    BY <1>1, <2>1, <2>2, Zenon DEF SumInv
  <2> QED
    BY <1>7, <2>4, <2>5, Zenon DEF SumInv
<1>10. ASSUME UpdateTotalActions(t) PROVE SumInv'
  <2>1. /\ local' = local /\ closed' = closed /\ counts'.total = counts.total + setting[t]
        /\ setting'[t] = 0 /\ \A s \in Tools \ {t} : setting'[s] = setting[s]
    BY <1>1, <1>10, Zenon DEF UpdateTotalActions
  <2>2. local[t].total \in Nat /\ setting[t] \in Int /\ TotalOf[t] = local[t].total - setting[t]
    BY <1>1, Zenon DEF TotalOf
  <2>3. TotalOf' = [TotalOf EXCEPT ![t] = local[t].total]
    <3>1. local'[t].total - setting'[t] = local[t].total
      BY <2>1, <2>2, SMTT(30)
    <3> QED
      BY <2>1, <3>1, Zenon DEF TotalOf
  <2>4. counts'.total = counts.total - TotalOf[t] + local[t].total
    BY <1>1, <2>1, <2>2, SMTT(30)
  <2>5. \A s \in closed' : setting'[s] = 0 /\ local'[s].total = local'[s].started
    BY <1>1, <2>1, Zenon DEF SumInv
  <2> QED
    BY <1>7, <1>8, <2>2, <2>3, <2>4, <2>5, Zenon DEF SumInv
<1>11. ASSUME ToolFinish(t) PROVE SumInv'
  <2>1. /\ setting' = setting /\ setting[t] = 0 /\ closed' = closed \cup {t}
        /\ counts'.total = counts.total + local[t].started - local[t].total
        /\ local'[t].total = local[t].started
        /\ \A s \in Tools \ {t} : local'[s] = local[s]
    BY <1>1, <1>11, Zenon DEF ToolFinish
  <2>2. /\ local[t].total \in Nat /\ local[t].started \in Nat
        /\ TotalOf[t] = local[t].total
    BY <1>1, <2>1, SMTT(30) DEF TotalOf
  <2>3. TotalOf' = [TotalOf EXCEPT ![t] = local[t].started]
    <3>1. local'[t].total - setting'[t] = local[t].started
      BY <2>1, <2>2, SMTT(30)
    <3> QED
      BY <2>1, <3>1, Zenon DEF TotalOf
  <2>4. counts'.total = counts.total - TotalOf[t] + local[t].started
    BY <1>1, <2>1, <2>2, SMTT(30)
  <2>5. \A s \in closed' : setting'[s] = 0 /\ local'[s].total = local'[s].started
    BY <1>1, <1>5, <2>1, Zenon DEF SumInv
  <2> QED
    BY <1>7, <1>8, <2>2, <2>3, <2>4, <2>5, Zenon DEF SumInv
<1> QED
  BY <1>9, <1>10, <1>11, Zenon DEF ToolStep

\* StartAction and FinishAction, in their two or three steps.
LEMMA ActionStepSumInv ==
    ASSUME IInv, IInv', SumInv, NEW a \in Actions, ActionStep(a)
    PROVE  SumInv'
<1> DEFINE t == ToolOf[a]
<1>0. t \in Tools
  BY ToolOfAssumption, Zenon
<1>1. /\ counts \in [total : Nat, running : Nat, started : Nat, finished : Nat]
      /\ local \in [Tools -> [total : Nat, running : Int, started : Nat, finished : Nat]]
      /\ call \in [Actions -> Calls] /\ setting \in [Tools -> Int] /\ closed \subseteq Tools
      /\ counts' \in [total : Nat, running : Nat, started : Nat, finished : Nat]
      /\ local' \in [Tools -> [total : Nat, running : Int, started : Nat, finished : Nat]]
  BY Zenon DEF IInv, TypeOK
<1>2. /\ Balanced(TotalOf, counts.total, Raising)
      /\ Balanced(StartedOf, counts.started, Entered)
      /\ Balanced(FinishedOf, counts.finished, Leaving)
      /\ IsFiniteSet(Raising) /\ IsFiniteSet(Entered) /\ IsFiniteSet(Leaving)
      /\ Cardinality(Raising) \in Nat /\ Cardinality(Entered) \in Nat /\ Cardinality(Leaving) \in Nat
  BY FS_CardinalityType, Zenon DEF SumInv, Balanced
<1>3. setting' = setting /\ closed' = closed
  BY Zenon DEF ActionStep, StartAction, RaiseTotal, StatusStartAction, FinishAction, StatusFinishAction
<1>4. \A s \in closed' : setting'[s] = 0 /\ local'[s].total = local'[s].started
  <2>1. CASE t \in closed
    <3>1. local' = local
      BY <2>1, Zenon DEF ActionStep, StartAction, RaiseTotal, StatusStartAction, FinishAction,
                  StatusFinishAction
    <3> QED
      BY <1>3, <3>1, Zenon DEF SumInv
  <2>2. CASE t \notin closed
    <3>1. \A s \in Tools \ {t} : local'[s] = local[s]
      BY <1>1, Zenon DEF ActionStep, StartAction, RaiseTotal, StatusStartAction, FinishAction,
                  StatusFinishAction
    <3> QED
      BY <1>1, <1>3, <2>2, <3>1, Zenon DEF SumInv
  <2> QED
    BY <2>1, <2>2, Zenon
\* What is counted stays where it is.
<1>5. /\ TotalOf' = TotalOf /\ counts'.total = counts.total /\ Raising' = Raising
            => Balanced(TotalOf, counts.total, Raising)'
      /\ StartedOf' = StartedOf /\ counts'.started = counts.started /\ Entered' = Entered
            => Balanced(StartedOf, counts.started, Entered)'
      /\ FinishedOf' = FinishedOf /\ counts'.finished = counts.finished /\ Leaving' = Leaving
            => Balanced(FinishedOf, counts.finished, Leaving)'
  BY <1>2, Zenon DEF Balanced, Units
<1>6. SUFFICES /\ Balanced(TotalOf, counts.total, Raising)'
               /\ Balanced(StartedOf, counts.started, Entered)'
               /\ Balanced(FinishedOf, counts.finished, Leaving)'
  BY <1>4, Zenon DEF SumInv
<1>7. /\ local' = local => TotalOf' = TotalOf /\ StartedOf' = StartedOf /\ FinishedOf' = FinishedOf
      /\ counts.total \in Nat /\ counts.started \in Nat /\ counts.finished \in Nat
      /\ counts'.total \in Nat /\ counts'.started \in Nat /\ counts'.finished \in Nat
  BY <1>1, <1>3, Zenon DEF TotalOf, StartedOf, FinishedOf
<1>8. CASE StartAction(a)
  <2>1. /\ call[a] = "new" /\ setting[t] = 0 /\ counts' = counts
        /\ local'[t].started = local[t].started + 1 /\ local'[t].finished = local[t].finished
        /\ \A s \in Tools \ {t} : local'[s] = local[s]
    BY <1>0, <1>1, <1>8, Zenon DEF StartAction
  <2>2. FinishedOf' = FinishedOf /\ StartedOf' = [StartedOf EXCEPT ![t] = StartedOf[t] + 1]
    BY <1>0, <2>1, Zenon DEF FinishedOf, StartedOf
  <2>3. PICK v \in {"total", "start"} : call' = [call EXCEPT ![a] = v]
    BY <1>8, Zenon DEF StartAction
  <2>4. v \in Calls
    BY Zenon DEF Calls
  <2>5. /\ Entered' = Entered \cup {a} /\ a \notin Entered
        /\ Leaving' = Leaving \ {a} /\ a \notin Leaving
        /\ a \notin Raising
    BY <2>1, <2>3, <2>4, CallsMove, Zenon DEF IInv
  <2>6. Balanced(FinishedOf, counts.finished, Leaving)'
    BY <1>5, <2>1, <2>2, <2>5, Zenon
  <2>7. StartedOf[t] \in Nat
    BY <1>0, <1>2, Zenon DEF Balanced
  <2>8. IsFiniteSet(Entered') /\ Cardinality(Entered') = Cardinality(Entered) + 1
    BY <1>2, <2>5, OneCall, Zenon
  <2>9. Balanced(StartedOf, counts.started, Entered)'
    <3>1. counts.started + Cardinality(Entered')
              = counts.started + Cardinality(Entered) - StartedOf[t] + (StartedOf[t] + 1)
      BY <1>2, <1>7, <2>7, <2>8, SMTT(30)
    <3>2. Balanced([StartedOf EXCEPT ![t] = StartedOf[t] + 1], counts.started, Entered')
      BY <1>0, <1>2, <1>7, <2>7, <2>8, <3>1, BalancedStep, SMTT(30)
    <3> QED
      BY <2>1, <2>2, <3>2, ZenonT(40) DEF Balanced, Units
  <2>10. CASE local[t].started + 1 > local[t].total
    <3>1. local'[t].total = local[t].started + 1 /\ call' = [call EXCEPT ![a] = "total"]
      BY <1>0, <1>1, <1>8, <2>10, Zenon DEF StartAction
    <3>2. local[t].total = local[t].started
      <4>1. local[t].total \in Nat /\ local[t].started \in Nat
        BY <1>0, <1>1, Zenon
      <4>2. local[t].total >= local[t].started
        BY <1>0, Zenon DEF IInv, ToolInv
      <4> QED
        BY <2>10, <4>1, <4>2, SMTT(30)
    <3>3. TotalOf' = [TotalOf EXCEPT ![t] = TotalOf[t] + 1]
      <4>1. local'[t].total - setting'[t] = (local[t].total - setting[t]) + 1
        BY <1>0, <1>1, <1>3, <2>1, <3>1, <3>2, SMTT(30)
      <4>2. TotalOf[t] \in Nat /\ TotalOf[t] = local[t].total - setting[t]
        BY <1>0, <1>2, Zenon DEF Balanced, TotalOf
      <4> QED
        BY <1>3, <2>1, <4>1, <4>2, Zenon DEF TotalOf
    <3>4. Raising' = Raising \cup {a}
      <4>1. "total" \in Calls
        BY Zenon DEF Calls
      <4> QED
        BY <3>1, <4>1, CallsMove, Zenon DEF IInv
    <3>5. IsFiniteSet(Raising') /\ Cardinality(Raising') = Cardinality(Raising) + 1
      BY <1>2, <2>5, <3>4, OneCall, Zenon
    <3>6. TotalOf[t] \in Nat
      BY <1>0, <1>2, Zenon DEF Balanced
    <3>7. Balanced([TotalOf EXCEPT ![t] = TotalOf[t] + 1], counts.total, Raising')
      <4>1. counts.total + Cardinality(Raising')
                = counts.total + Cardinality(Raising) - TotalOf[t] + (TotalOf[t] + 1)
        BY <1>2, <1>7, <3>5, <3>6, SMTT(30)
      <4> QED
        BY <1>0, <1>2, <1>7, <3>5, <3>6, <4>1, BalancedStep, SMTT(30)
    <3>8. Balanced(TotalOf, counts.total, Raising)'
      BY <2>1, <3>3, <3>7, ZenonT(40) DEF Balanced, Units
    <3> QED
      BY <2>6, <2>9, <3>8, Zenon
  <2>11. CASE ~ (local[t].started + 1 > local[t].total)
    <3>1. local'[t].total = local[t].total /\ call' = [call EXCEPT ![a] = "start"]
      BY <1>0, <1>1, <1>8, <2>11, Zenon DEF StartAction
    <3>2. TotalOf' = TotalOf
      BY <1>3, <2>1, <3>1, Zenon DEF TotalOf
    <3>3. Raising' = Raising
      <4>1. "start" \in Calls
        BY Zenon DEF Calls
      <4>2. Raising' = Raising \ {a}
        BY <3>1, <4>1, CallsMove, Zenon DEF IInv
      <4> QED
        BY <2>5, <4>2, Zenon
    <3> QED
      BY <1>5, <2>1, <2>6, <2>9, <3>2, <3>3, Zenon
  <2> QED
    BY <2>10, <2>11, Zenon
<1>9. CASE RaiseTotal(a)
  <2>1. /\ call[a] = "total" /\ call' = [call EXCEPT ![a] = "start"] /\ local' = local
        /\ counts'.total = counts.total + 1 /\ counts'.started = counts.started
        /\ counts'.finished = counts.finished
    BY <1>1, <1>9, Zenon DEF RaiseTotal
  <2>2. "start" \in Calls
    BY Zenon DEF Calls
  <2>3. /\ Raising' = Raising \ {a} /\ a \in Raising
        /\ Entered' = Entered /\ Leaving' = Leaving
    BY <2>1, <2>2, CallsMove, Zenon DEF IInv
  <2>4. IsFiniteSet(Raising') /\ Cardinality(Raising') = Cardinality(Raising) - 1
    BY <1>2, <2>3, OneCall, Zenon
  <2>5. counts'.total + Cardinality(Raising') = counts.total + Cardinality(Raising)
    BY <1>2, <1>7, <2>1, <2>4, SMTT(30)
  <2>6. Balanced(TotalOf, counts'.total, Raising')
    BY <1>2, <1>7, <2>4, <2>5, BalancedMove, Zenon
  <2>7. Balanced(TotalOf, counts.total, Raising)'
    BY <1>7, <2>1, <2>6, Zenon DEF Balanced, Units
  <2> QED
    BY <1>5, <1>7, <2>1, <2>3, <2>7, Zenon
<1>10. CASE StatusStartAction(a)
  <2>1. /\ call[a] = "start" /\ call' = [call EXCEPT ![a] = "running"] /\ local' = local
        /\ counts'.total = counts.total /\ counts'.started = counts.started + 1
        /\ counts'.finished = counts.finished
    BY <1>1, <1>10, Zenon DEF StatusStartAction
  <2>2. "running" \in Calls
    BY Zenon DEF Calls
  <2>3. /\ Entered' = Entered \ {a} /\ a \in Entered
        /\ Raising' = Raising /\ Leaving' = Leaving
    BY <2>1, <2>2, CallsMove, Zenon DEF IInv
  <2>4. IsFiniteSet(Entered') /\ Cardinality(Entered') = Cardinality(Entered) - 1
    BY <1>2, <2>3, OneCall, Zenon
  <2>5. counts'.started + Cardinality(Entered') = counts.started + Cardinality(Entered)
    BY <1>2, <1>7, <2>1, <2>4, SMTT(30)
  <2>6. Balanced(StartedOf, counts'.started, Entered')
    BY <1>2, <1>7, <2>4, <2>5, BalancedMove, Zenon
  <2>7. Balanced(StartedOf, counts.started, Entered)'
    BY <1>7, <2>1, <2>6, Zenon DEF Balanced, Units
  <2> QED
    BY <1>5, <1>7, <2>1, <2>3, <2>7, Zenon
<1>11. CASE FinishAction(a)
  <2>1. /\ call[a] = "running" /\ call' = [call EXCEPT ![a] = "finish"] /\ counts' = counts
        /\ local'[t].finished = local[t].finished + 1
        /\ local'[t].started = local[t].started /\ local'[t].total = local[t].total
        /\ \A s \in Tools \ {t} : local'[s] = local[s]
    BY <1>0, <1>1, <1>11, Zenon DEF FinishAction
  <2>2. /\ TotalOf' = TotalOf /\ StartedOf' = StartedOf
        /\ FinishedOf' = [FinishedOf EXCEPT ![t] = FinishedOf[t] + 1]
    BY <1>0, <1>3, <2>1, Zenon DEF TotalOf, StartedOf, FinishedOf
  <2>3. "finish" \in Calls
    BY Zenon DEF Calls
  <2>4. /\ Leaving' = Leaving \cup {a} /\ a \notin Leaving
        /\ Raising' = Raising /\ Entered' = Entered
    BY <2>1, <2>3, CallsMove, Zenon DEF IInv
  <2>5. IsFiniteSet(Leaving') /\ Cardinality(Leaving') = Cardinality(Leaving) + 1
    BY <1>2, <2>4, OneCall, Zenon
  <2>6. FinishedOf[t] \in Nat
    BY <1>0, <1>2, Zenon DEF Balanced
  <2>7. counts.finished + Cardinality(Leaving')
            = counts.finished + Cardinality(Leaving) - FinishedOf[t] + (FinishedOf[t] + 1)
    BY <1>2, <1>7, <2>5, <2>6, SMTT(30)
  <2>8. Balanced([FinishedOf EXCEPT ![t] = FinishedOf[t] + 1], counts.finished, Leaving')
    BY <1>0, <1>2, <1>7, <2>5, <2>6, <2>7, BalancedStep, SMTT(30)
  <2>9. Balanced(FinishedOf, counts.finished, Leaving)'
    BY <2>1, <2>2, <2>8, Zenon DEF Balanced, Units
  <2> QED
    BY <1>5, <2>1, <2>2, <2>4, <2>9, Zenon
<1>12. CASE StatusFinishAction(a)
  <2>1. /\ call[a] = "finish" /\ call' = [call EXCEPT ![a] = "finished"] /\ local' = local
        /\ counts'.total = counts.total /\ counts'.started = counts.started
        /\ counts'.finished = counts.finished + 1
    BY <1>1, <1>12, Zenon DEF StatusFinishAction
  <2>2. "finished" \in Calls
    BY Zenon DEF Calls
  <2>3. /\ Leaving' = Leaving \ {a} /\ a \in Leaving
        /\ Raising' = Raising /\ Entered' = Entered
    BY <2>1, <2>2, CallsMove, Zenon DEF IInv
  <2>4. IsFiniteSet(Leaving') /\ Cardinality(Leaving') = Cardinality(Leaving) - 1
    BY <1>2, <2>3, OneCall, Zenon
  <2>5. counts'.finished + Cardinality(Leaving') = counts.finished + Cardinality(Leaving)
    BY <1>2, <1>7, <2>1, <2>4, SMTT(30)
  <2>6. Balanced(FinishedOf, counts'.finished, Leaving')
    BY <1>2, <1>7, <2>4, <2>5, BalancedMove, Zenon
  <2>7. Balanced(FinishedOf, counts.finished, Leaving)'
    BY <1>7, <2>1, <2>6, Zenon DEF Balanced, Units
  <2> QED
    BY <1>5, <1>7, <2>1, <2>3, <2>7, Zenon
<1> QED
  BY <1>8, <1>9, <1>10, <1>11, <1>12, Zenon DEF ActionStep

\* Before the first call there is nothing to add up.
LEMMA InitSumInv == Init => SumInv
<1> SUFFICES ASSUME Init PROVE SumInv
  BY Zenon
<1>1. IsFiniteSet({}) /\ Cardinality({}) = 0
  BY FS_EmptySet, Zenon
<1>2. Raising = {} /\ Entered = {} /\ Leaving = {}
  BY Zenon DEF Init, Raising, Entered, Leaving
<1>3. ASSUME NEW f, f = [t \in Tools |-> 0] PROVE Balanced(f, 0, {})
  <2>1. \A t \in Tools : {t} \X (1 .. f[t]) = {}
    BY <1>3, SMTT(30)
  <2>2. Units(f) = {}
    BY <2>1, Zenon DEF Units
  <2> QED
    BY <1>1, <1>3, <2>2, SMTT(30) DEF Balanced
<1>4. /\ TotalOf = [t \in Tools |-> 0] /\ StartedOf = [t \in Tools |-> 0]
      /\ FinishedOf = [t \in Tools |-> 0]
  BY SMTT(30) DEF Init, Zero, TotalOf, StartedOf, FinishedOf
<1>5. counts.total = 0 /\ counts.started = 0 /\ counts.finished = 0 /\ closed = {}
  BY Zenon DEF Init, Zero
<1> QED
  BY <1>2, <1>3, <1>4, <1>5, Zenon DEF SumInv

(***************************************************************************)
(* Between calls the build's counts are the sums of the tools' counts, for *)
(* any tools, actions, totals and interleaving of the calls, and once all  *)
(* tools have called Finish the total is what was started.                 *)
(***************************************************************************)
THEOREM StatusAccumulatesTools == Spec => []AccumulatesTools
<1>1. Spec => []IInv
  BY StatusIInv, Zenon
<1>2. IInv /\ IInv' /\ SumInv /\ [Next]_vars => SumInv'
  <2> SUFFICES ASSUME IInv, IInv', SumInv, [Next]_vars PROVE SumInv'
    BY Zenon
  <2>1. CASE Next
    BY <2>1, ActionStepSumInv, ToolStepSumInv, Zenon DEF Next
  <2>2. CASE UNCHANGED vars
    BY <2>2, SMTT(30) DEF vars, SumInv, Balanced, Units, TotalOf, StartedOf, FinishedOf, Raising, Entered,
                Leaving
  <2> QED
    BY <2>1, <2>2, Zenon
<1>3. IInv /\ SumInv => AccumulatesTools
  BY SumInvAccumulates, Zenon DEF IInv
<1> QED
  BY <1>1, <1>2, <1>3, InitSumInv, PTL DEF Spec
=============================================================================
