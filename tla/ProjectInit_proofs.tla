-------------------------- MODULE ProjectInit_proofs --------------------------
(* `synth init' for any hook, any bounds and any sequence of inits, failures, *)
(* crashes and user's acts.  First the project that an init leaves; then the  *)
(* hook: what one change of it makes of its lines, as a splice (lines a + 1   *)
(* to c - 1 of the file become m), and the invariants that these changes      *)
(* keep.                                                                      *)
EXTENDS ProjectInit, FiniteSetTheorems, TLAPS

OnTheFiles == {"read hook", "truncate hook", "fill hook",
               "read ignore", "truncate ignore", "fill ignore", "done"}

(* What the steps before have left for the next one, unless the init was     *)
(* refused (id = 0): nothing but a user at rest takes it away again.         *)
ProgressInv ==
    /\ step \in {"create", "write"} => synthDir
    /\ step = "open" => synthDir /\ config = id
    /\ step \in OnTheFiles /\ id # 0 => synthDir /\ config = id /\ id \in databases

InitInv == /\ ProgressInv
           /\ InitIsAllOrNothing
           /\ step # "idle" => outcome = "none"

LEMMA RewriteSteps ==
    ASSUME NEW f \in Files
    PROVE  /\ {Rewrite[f].read, Rewrite[f].truncate, Rewrite[f].fill} \subseteq OnTheFiles
           /\ Rewrite[f].next \in OnTheFiles
  BY DEF Rewrite, Files, OnTheFiles

LEMMA InitInvInit == ProjectInit => InitInv
  BY DEF ProjectInit, InitInv, ProgressInv, InitIsAllOrNothing, OnTheFiles

LEMMA InitInvStep == InitInv /\ [ProjectNext]_projectVars => InitInv'
<1> SUFFICES ASSUME InitInv, [ProjectNext]_projectVars
             PROVE  InitInv'
    OBVIOUS
<1> USE DEF InitInv, ProgressInv, InitIsAllOrNothing, initFiles, initRun, counters,
            userFiles
<1>1. CASE BeginInit
  BY <1>1 DEF BeginInit, OnTheFiles
<1>2. CASE MakeSynthDir \/ CreateConfig \/ WriteConfig \/ OpenStore
  BY <1>2 DEF MakeSynthDir, CreateConfig, WriteConfig, OpenStore, OnTheFiles
<1>3. CASE FailEarly \/ Fail \/ EndInit
  BY <1>3 DEF FailEarly, Fail, EndInit, End, OnTheFiles
<1>4. ASSUME NEW f \in Files, ReadFile(f) \/ TruncateFile(f) \/ FillFile(f) \/ SkipFile(f)
      PROVE  InitInv'
  <2>1. /\ step \in OnTheFiles /\ step' \in OnTheFiles
        /\ UNCHANGED <<synthDir, config, databases, id, outcome>>
    BY <1>4, RewriteSteps DEF ReadFile, TruncateFile, FillFile, SkipFile
  <2>2. QED
    BY <2>1 DEF OnTheFiles
<1>5. CASE CrashInit
  BY <1>5 DEF CrashInit, End, OnTheFiles
<1>6. CASE UserStep
  BY <1>6 DEF UserStep, UserActs, AddUserLine, CutMarker, RemoveProject, UninstallHook,
              OnTheFiles
<1>7. CASE UNCHANGED projectVars
  BY <1>7 DEF projectVars
<1>8. QED
  BY <1>1, <1>2, <1>3, <1>4, <1>5, <1>6, <1>7 DEF ProjectNext, InitStep

(* An init that failed after its first write leaves no project behind, and   *)
(* one that reported success leaves its own, with its database (init.go      *)
(* 131-213), whatever an earlier init that was killed has left.              *)
THEOREM InitCorrect == ProjectSpec => []InitIsAllOrNothing
<1>1. InitInv => InitIsAllOrNothing
  BY DEF InitInv
<1>2. QED
  BY <1>1, InitInvInit, InitInvStep, PTL DEF ProjectSpec

-----------------------------------------------------------------------------
(* The hook as text: what installing and uninstalling make of its lines.     *)

LEMMA FirstOf ==
    ASSUME NEW n \in Nat, NEW S \in SUBSET (1 .. n), S # {}
    PROVE  \E i \in S : \A j \in S : i <= j
<1> DEFINE Less == {p \in Nat \X Nat : p[1] < p[2]}
<1>1. IsWellFoundedOn(Less, Nat)
  BY NatLessThanWellFounded DEF OpToRel
<1>2. S \subseteq Nat
  OBVIOUS
<1>3. PICK i \in S : \A j \in S : <<j, i>> \notin Less
  BY <1>1, <1>2, WFMin
<1>4. \A j \in S : ~ (j < i)
  BY <1>2, <1>3
<1>5. QED
  BY <1>2, <1>4

LEMMA LastOf ==
    ASSUME NEW n \in Nat, NEW S \in SUBSET (1 .. n), S # {}
    PROVE  \E i \in S : \A j \in S : j <= i
<1> DEFINE T == {k \in 1 .. n : n + 1 - k \in S}
<1>1. T # {}
  <2>1. PICK i \in S : TRUE
    OBVIOUS
  <2>2. n + 1 - i \in T
    BY <2>1
  <2>3. QED
    BY <2>2
<1>2. PICK k \in T : \A j \in T : k <= j
  BY <1>1, FirstOf
<1>3. \A j \in S : n + 1 - j \in T /\ j \in 1 .. n
  OBVIOUS
<1>4. \A j \in S : j <= n + 1 - k
  BY <1>2, <1>3
<1>5. QED
  BY <1>2, <1>4

LEMMA AtIs ==
    ASSUME NEW f \in Seq(Lines), NEW line
    PROVE  /\ At(f, line) \in 0 .. Len(f)
           /\ At(f, line) = 0 => \A i \in 1 .. Len(f) : f[i] # line
           /\ At(f, line) # 0 => /\ f[At(f, line)] = line
                                 /\ \A j \in 1 .. Len(f) : j < At(f, line) => f[j] # line
<1> DEFINE S == {i \in 1 .. Len(f) : f[i] = line}
           First(i) == f[i] = line /\ \A j \in 1 .. i - 1 : f[j] # line
<1>1. CASE S = {}
  BY <1>1 DEF At
<1>2. CASE S # {}
  <2>1. PICK i \in S : \A j \in S : i <= j
    <3>1. Len(f) \in Nat /\ S \in SUBSET (1 .. Len(f))
      OBVIOUS
    <3>2. QED
      BY <1>2, <3>1, FirstOf
  <2>2. i \in DOMAIN f /\ First(i)
    BY <2>1
  <2>3. At(f, line) = CHOOSE k \in DOMAIN f : First(k)
    BY <2>2 DEF At
  <2>4. At(f, line) \in DOMAIN f /\ First(At(f, line))
    <3> HIDE DEF First
    <3>1. QED
      BY <2>2, <2>3
  <2>5. QED
    BY <2>4
<1>3. QED
  BY <1>1, <1>2

\* g is f with the lines after a and before c replaced by m.
IsSplice(f, a, m, c, g) ==
    /\ g \in Seq(Lines)
    /\ Len(g) = a + Len(m) + (Len(f) + 1 - c)
    /\ \A i \in 1 .. a : g[i] = f[i]
    /\ \A i \in 1 .. Len(m) : g[a + i] = m[i]
    /\ \A i \in c .. Len(f) : g[i + (a + Len(m) + 1 - c)] = f[i]

LEMMA Concatenated ==
    ASSUME NEW x \in Seq(Lines), NEW y \in Seq(Lines)
    PROVE  /\ x \o y \in Seq(Lines) /\ Len(x \o y) = Len(x) + Len(y)
           /\ \A i \in 1 .. Len(x) : (x \o y)[i] = x[i]
           /\ \A i \in 1 .. Len(y) : (x \o y)[Len(x) + i] = y[i]
  OBVIOUS

LEMMA UpToIs ==
    ASSUME NEW f \in Seq(Lines), NEW a \in 0 .. Len(f)
    PROVE  /\ UpTo(f, a) \in Seq(Lines) /\ Len(UpTo(f, a)) = a
           /\ \A i \in 1 .. a : UpTo(f, a)[i] = f[i]
  BY DEF UpTo

LEMMA FromIs ==
    ASSUME NEW f \in Seq(Lines), NEW c \in 1 .. Len(f) + 1
    PROVE  /\ From(f, c) \in Seq(Lines) /\ Len(From(f, c)) = Len(f) + 1 - c
           /\ \A i \in 1 .. Len(f) + 1 - c : From(f, c)[i] = f[i + (c - 1)]
  BY DEF From

LEMMA SplicedIs ==
    ASSUME NEW f \in Seq(Lines), NEW m \in Seq(Lines),
           NEW a \in 0 .. Len(f), NEW c \in 1 .. Len(f) + 1
    PROVE  IsSplice(f, a, m, c, UpTo(f, a) \o m \o From(f, c))
<1> DEFINE x == UpTo(f, a)  y == From(f, c)
<1>1. /\ x \in Seq(Lines) /\ Len(x) = a
      /\ \A i \in 1 .. a : x[i] = f[i]
  BY UpToIs
<1>2. /\ y \in Seq(Lines) /\ Len(y) = Len(f) + 1 - c
      /\ \A i \in 1 .. Len(y) : y[i] = f[i + (c - 1)]
  BY FromIs
<1> HIDE DEF x, y
<1>3. /\ x \o m \in Seq(Lines) /\ Len(x \o m) = a + Len(m)
      /\ \A i \in 1 .. a : (x \o m)[i] = f[i]
      /\ \A i \in 1 .. Len(m) : (x \o m)[a + i] = m[i]
  <2>1. /\ x \o m \in Seq(Lines) /\ Len(x \o m) = Len(x) + Len(m)
        /\ \A i \in 1 .. Len(x) : (x \o m)[i] = x[i]
        /\ \A i \in 1 .. Len(m) : (x \o m)[Len(x) + i] = m[i]
    BY <1>1, Concatenated
  <2>2. QED
    BY <1>1, <2>1
<1> DEFINE z == x \o m
<1> HIDE DEF z
<1>4. /\ z \o y \in Seq(Lines) /\ Len(z \o y) = a + Len(m) + (Len(f) + 1 - c)
      /\ \A i \in 1 .. a : (z \o y)[i] = f[i]
      /\ \A i \in 1 .. Len(m) : (z \o y)[a + i] = m[i]
      /\ \A i \in 1 .. Len(y) : (z \o y)[a + Len(m) + i] = y[i]
  <2>1. z \in Seq(Lines) /\ Len(z) = a + Len(m) /\ Len(m) \in Nat
    BY <1>3 DEF z
  <2>2. /\ z \o y \in Seq(Lines) /\ Len(z \o y) = Len(z) + Len(y)
        /\ \A i \in 1 .. Len(z) : (z \o y)[i] = z[i]
        /\ \A i \in 1 .. Len(y) : (z \o y)[Len(z) + i] = y[i]
    <3>1. y \in Seq(Lines)
      BY <1>2
    <3>2. QED
      BY <2>1, <3>1, Concatenated
  <2>3. \A i \in 1 .. a : i \in 1 .. Len(z)
    BY <2>1
  <2>4. \A i \in 1 .. Len(m) : a + i \in 1 .. Len(z)
    BY <2>1
  <2>5. /\ \A i \in 1 .. a : z[i] = f[i]
        /\ \A i \in 1 .. Len(m) : z[a + i] = m[i]
    BY <1>3 DEF z
  <2>6. QED
    BY <1>2, <2>1, <2>2, <2>3, <2>4, <2>5
<1>5. ASSUME NEW i \in c .. Len(f)
      PROVE  (z \o y)[i + (a + Len(m) + 1 - c)] = f[i]
  <2>1. i - (c - 1) \in 1 .. Len(y)
    BY <1>2
  <2>2. /\ (z \o y)[a + Len(m) + (i - (c - 1))] = y[i - (c - 1)]
        /\ y[i - (c - 1)] = f[i - (c - 1) + (c - 1)]
    BY <1>2, <1>4, <2>1
  <2>3. /\ a + Len(m) + (i - (c - 1)) = i + (a + Len(m) + 1 - c)
        /\ i - (c - 1) + (c - 1) = i
    OBVIOUS
  <2>4. QED
    BY <2>2, <2>3
<1>6. QED
  BY <1>4, <1>5 DEF IsSplice, x, y, z

\* Line j of g is one of f or of m.
ComesFrom(f, a, m, c, g, j) ==
    \/ j \in 1 .. a /\ g[j] = f[j]
    \/ j - a \in 1 .. Len(m) /\ g[j] = m[j - a]
    \/ \E i \in c .. Len(f) : j = i + (a + Len(m) + 1 - c) /\ g[j] = f[i]

LEMMA SpliceLines ==
    ASSUME NEW f \in Seq(Lines), NEW m \in Seq(Lines), NEW g,
           NEW a \in 0 .. Len(f), NEW c \in 1 .. Len(f) + 1, IsSplice(f, a, m, c, g),
           NEW j \in 1 .. Len(g)
    PROVE  ComesFrom(f, a, m, c, g, j)
<1> USE DEF ComesFrom
<1>1. CASE j <= a
  BY <1>1 DEF IsSplice
<1>2. CASE j > a /\ j <= a + Len(m)
  <2>1. j - a \in 1 .. Len(m) /\ a + (j - a) = j
    BY <1>2
  <2>2. QED
    BY <2>1 DEF IsSplice
<1>3. CASE j > a + Len(m)
  <2> DEFINE i == j - (a + Len(m) + 1 - c)
  <2>1. i \in c .. Len(f) /\ i + (a + Len(m) + 1 - c) = j
    BY <1>3 DEF IsSplice
  <2>2. g[j] = f[i]
    BY <2>1 DEF IsSplice
  <2>3. QED
    BY <2>1, <2>2
<1>4. QED
  BY <1>1, <1>2, <1>3

Text(file) == IF file = NoFile THEN <<>> ELSE file

Hooks == Seq(Lines) \cup {NoFile}

LEMMA KindsOfLines == /\ Ours \subseteq Lines /\ Neutral \subseteq Lines
                      /\ Ours \cap Neutral = {} /\ UserLines \cap (Ours \cup Neutral) = {}
                      /\ Block \in Seq(Lines) /\ Len(Block) = 3
                      /\ Block[1] = "start" /\ Block[2] = "body" /\ Block[3] = "end"
<1>1. /\ Ours \subseteq Lines /\ Neutral \subseteq Lines
      /\ Ours \cap Neutral = {} /\ UserLines \cap (Ours \cup Neutral) = {}
  BY HookAssumption DEF Lines, Ours, Neutral
<1>2. {"start", "body", "end"} \subseteq Lines
  BY DEF Lines, Ours
<1>3. Block \in Seq(Lines)
  BY <1>2 DEF Block
<1>4. Len(Block) = 3 /\ Block[1] = "start" /\ Block[2] = "body" /\ Block[3] = "end"
  BY DEF Block
<1>5. QED
  BY <1>1, <1>3, <1>4

LEMMA TextIs ==
    ASSUME NEW f \in Hooks
    PROVE  /\ Text(f) \in Seq(Lines)
           /\ f # NoFile => f \in Seq(Lines) /\ Text(f) = f
           /\ f = NoFile => Text(f) = <<>>
  BY DEF Text, Hooks

\* Installing writes m where lines a and c were next to each other, or puts
\* the block of this release in the place of all from the first start marker
\* to the first end marker.
NewBlock(m) == /\ m \in Seq(Lines) /\ Len(m) \in 4 .. 5
               /\ \A i \in 1 .. Len(m) - 3 : m[i] \in Neutral
               /\ m[Len(m) - 2] = "start" /\ m[Len(m) - 1] = "body" /\ m[Len(m)] = "end"

LEMMA NewBlocks ==
    /\ NewBlock(<<"sh">> \o Block)
    /\ NewBlock(<<"blank", "blank">> \o Block)
    /\ NewBlock(<<"blank">> \o Block)
<1>1. ASSUME NEW x \in Seq(Neutral), Len(x) \in 1 .. 2
      PROVE  NewBlock(x \o Block)
  <2>1. x \in Seq(Lines) /\ Block \in Seq(Lines) /\ Len(Block) = 3
    BY KindsOfLines
  <2>2. /\ x \o Block \in Seq(Lines) /\ Len(x \o Block) = Len(x) + 3
        /\ \A i \in 1 .. Len(x) : (x \o Block)[i] = x[i]
        /\ \A i \in 1 .. 3 : (x \o Block)[Len(x) + i] = Block[i]
    <3>1. /\ x \o Block \in Seq(Lines) /\ Len(x \o Block) = Len(x) + Len(Block)
          /\ \A i \in 1 .. Len(x) : (x \o Block)[i] = x[i]
          /\ \A i \in 1 .. Len(Block) : (x \o Block)[Len(x) + i] = Block[i]
      BY <2>1, Concatenated
    <3>2. QED
      BY <2>1, <3>1
  <2>3. /\ Len(x) + 3 - 3 = Len(x) /\ Len(x) + 3 - 2 = Len(x) + 1
        /\ Len(x) + 3 - 1 = Len(x) + 2 /\ Len(x) + 3 \in 4 .. 5
    <3>1. PICK n \in 1 .. 2 : Len(x) = n
      BY <1>1
    <3>2. n + 3 - 3 = n /\ n + 3 - 2 = n + 1 /\ n + 3 - 1 = n + 2 /\ n + 3 \in 4 .. 5
      OBVIOUS
    <3>3. QED
      BY <3>1, <3>2
  <2>4. \A i \in 1 .. Len(x) : x[i] \in Neutral
    OBVIOUS
  <2>5. QED
    BY <2>2, <2>3, <2>4, KindsOfLines DEF NewBlock
<1>2. /\ <<"sh">> \in Seq(Neutral) /\ Len(<<"sh">>) = 1
      /\ <<"blank">> \in Seq(Neutral) /\ Len(<<"blank">>) = 1
      /\ <<"blank", "blank">> \in Seq(Neutral) /\ Len(<<"blank", "blank">>) = 2
  BY DEF Neutral
<1>3. QED
  BY <1>1, <1>2

LEMMA InstalledIs ==
    ASSUME NEW file \in Hooks,
           NEW f, f = Text(file), NEW s, s = At(f, "start"), NEW e, e = At(f, "end"),
           NEW g, g = Installed(file)
    PROVE  /\ g \in Seq(Lines)
           /\ s = 0 => \E m : NewBlock(m) /\ IsSplice(f, Len(f), m, Len(f) + 1, g)
           /\ s # 0 /\ e = 0 => g = f
           /\ s # 0 /\ e # 0 => IsSplice(f, s - 1, Block, e + 1, g)
<1>1. /\ f \in Seq(Lines) /\ s \in 0 .. Len(f) /\ e \in 0 .. Len(f) /\ Len(f) \in Nat
  BY TextIs, AtIs
<1>2. ASSUME NEW m, NewBlock(m), g = f \o m
      PROVE  IsSplice(f, Len(f), m, Len(f) + 1, g)
  <2>1. m \in Seq(Lines)
    BY <1>2 DEF NewBlock
  <2>2. IsSplice(f, Len(f), m, Len(f) + 1, UpTo(f, Len(f)) \o m \o From(f, Len(f) + 1))
    BY <1>1, <2>1, SplicedIs
  <2>3. UpTo(f, Len(f)) = f /\ From(f, Len(f) + 1) = <<>>
    BY <1>1 DEF UpTo, From
  <2>4. f \o m \o <<>> = f \o m
    BY <1>1, <2>1
  <2>5. QED
    BY <1>2, <2>2, <2>3, <2>4
<1>3. CASE file = NoFile
  <2>1. f = <<>> /\ g = <<"sh">> \o Block
    <3>1. <<>> \in Seq(Lines)
      OBVIOUS
    <3>2. QED
      BY <1>3, <3>1, HookAssumption DEF Text, Installed
  <2>2. PICK m : m = <<"sh">> \o Block
    OBVIOUS
  <2>3. NewBlock(m) /\ m \in Seq(Lines)
    BY <2>2, NewBlocks DEF NewBlock
  <2>4. g = f \o m
    BY <2>1, <2>2, <2>3
  <2>5. IsSplice(f, Len(f), m, Len(f) + 1, g)
    BY <1>2, <2>3, <2>4
  <2>6. s = 0
    BY <1>1, <2>1
  <2>7. g \in Seq(Lines)
    BY <2>5 DEF IsSplice
  <2>8. QED
    BY <2>3, <2>5, <2>6, <2>7
<1>4. CASE file = <<>>
  <2>1. f = <<>> /\ g = <<"blank", "blank">> \o Block
    BY <1>4 DEF Text, Installed
  <2>2. PICK m : m = <<"blank", "blank">> \o Block
    OBVIOUS
  <2>3. NewBlock(m) /\ m \in Seq(Lines)
    BY <2>2, NewBlocks DEF NewBlock
  <2>4. g = f \o m
    BY <2>1, <2>2, <2>3
  <2>5. IsSplice(f, Len(f), m, Len(f) + 1, g)
    BY <1>2, <2>3, <2>4
  <2>6. s = 0
    BY <1>1, <2>1
  <2>7. g \in Seq(Lines)
    BY <2>5 DEF IsSplice
  <2>8. QED
    BY <2>3, <2>5, <2>6, <2>7
<1>5. CASE file # NoFile /\ file # <<>> /\ s = 0
  <2>1. f = file /\ g = f \o <<"blank">> \o Block
    BY <1>5 DEF Text, Installed
  <2>2. f \o <<"blank">> \o Block = f \o (<<"blank">> \o Block)
    <3>1. <<"blank">> \in Seq(Lines) /\ Block \in Seq(Lines)
      BY KindsOfLines DEF Neutral
    <3>2. QED
      BY <1>1, <3>1
  <2>3. QED
    BY <1>2, <1>5, <2>1, <2>2, NewBlocks DEF IsSplice
<1>6. CASE file # NoFile /\ file # <<>> /\ s # 0
  <2>1. f = file /\ g = ReplaceSynthBlock(f)
    BY <1>6 DEF Text, Installed
  <2>2. CASE e = 0
    BY <1>1, <1>6, <2>1, <2>2 DEF ReplaceSynthBlock
  <2>3. CASE e # 0
    <3>1. g = UpTo(f, s - 1) \o Block \o From(f, e + 1)
      BY <1>6, <2>1, <2>3 DEF ReplaceSynthBlock
    <3>2. s - 1 \in 0 .. Len(f) /\ e + 1 \in 1 .. Len(f) + 1
      BY <1>1, <1>6, <2>3
    <3>3. IsSplice(f, s - 1, Block, e + 1, g)
      BY <1>1, <3>1, <3>2, SplicedIs, KindsOfLines
    <3>4. QED
      BY <1>6, <2>3, <3>3 DEF IsSplice
  <2>4. QED
    BY <2>2, <2>3
<1>7. QED
  BY <1>3, <1>4, <1>5, <1>6

LEMMA LastBlanks ==
    ASSUME NEW f \in Seq(Lines), NEW g, g = WithoutLastBlanks(f)
    PROVE  \E n \in 0 .. Len(f) : /\ g = UpTo(f, n)
                                  /\ \A i \in 1 .. Len(f) : i > n => f[i] = "blank"
<1> DEFINE used == {i \in DOMAIN f : f[i] # "blank"}
           Last(i) == \A j \in used : j <= i
<1>1. Len(f) \in Nat /\ DOMAIN f = 1 .. Len(f) /\ used \in SUBSET (1 .. Len(f))
  OBVIOUS
<1>2. CASE used = {}
  <2>1. g = <<>>
    BY <1>2 DEF WithoutLastBlanks
  <2>2. UpTo(f, 0) = <<>>
    BY DEF UpTo
  <2>3. QED
    BY <1>1, <1>2, <2>1, <2>2
<1>3. CASE used # {}
  <2>1. \E i \in used : Last(i)
    BY <1>1, <1>3, LastOf
  <2>2. g = UpTo(f, CHOOSE i \in used : Last(i))
    BY <1>3 DEF WithoutLastBlanks
  <2> HIDE DEF Last
  <2>3. PICK n \in used : Last(n) /\ g = UpTo(f, n)
    BY <2>1, <2>2
  <2>4. \A i \in 1 .. Len(f) : i > n => i \notin used
    BY <1>1, <2>3 DEF Last
  <2>5. QED
    BY <1>1, <2>3, <2>4
<1>4. QED
  BY <1>2, <1>3

LEMMA FirstBlanks ==
    ASSUME NEW f \in Seq(Lines), NEW g, g = WithoutFirstBlanks(f)
    PROVE  \E n \in 1 .. Len(f) + 1 : /\ g = From(f, n)
                                      /\ \A i \in 1 .. Len(f) : i < n => f[i] = "blank"
<1> DEFINE used == {i \in DOMAIN f : f[i] # "blank"}
           First(i) == \A j \in used : i <= j
<1>1. Len(f) \in Nat /\ DOMAIN f = 1 .. Len(f) /\ used \in SUBSET (1 .. Len(f))
  OBVIOUS
<1>2. CASE used = {}
  <2>1. g = <<>>
    BY <1>2 DEF WithoutFirstBlanks
  <2>2. From(f, Len(f) + 1) = <<>>
    BY <1>1 DEF From
  <2>3. QED
    BY <1>1, <1>2, <2>1, <2>2
<1>3. CASE used # {}
  <2>1. \E i \in used : First(i)
    BY <1>1, <1>3, FirstOf
  <2>2. g = From(f, CHOOSE i \in used : First(i))
    BY <1>3 DEF WithoutFirstBlanks
  <2> HIDE DEF First
  <2>3. PICK n \in used : First(n) /\ g = From(f, n)
    BY <2>1, <2>2
  <2>4. \A i \in 1 .. Len(f) : i < n => i \notin used
    BY <1>1, <2>3 DEF First
  <2>5. QED
    BY <1>1, <2>3, <2>4
<1>4. QED
  BY <1>2, <1>3

\* What is trimmed away to nothing or the shebang has no line of the user's.
LEMMA TrimmedAway ==
    ASSUME NEW f \in Seq(Lines),
           WithoutFirstBlanks(WithoutLastBlanks(f)) \in {<<>>, <<"sh">>}
    PROVE  \A i \in 1 .. Len(f) : f[i] \in Neutral
<1>1. PICK n \in 0 .. Len(f) : /\ WithoutLastBlanks(f) = UpTo(f, n)
                               /\ \A i \in 1 .. Len(f) : i > n => f[i] = "blank"
  BY LastBlanks
<1>2. PICK h : h = UpTo(f, n)
  OBVIOUS
<1>3. h \in Seq(Lines) /\ Len(h) = n /\ \A i \in 1 .. n : h[i] = f[i]
  BY <1>2 DEF UpTo
<1>4. PICK k \in 1 .. Len(h) + 1 : /\ WithoutFirstBlanks(h) = From(h, k)
                                   /\ \A i \in 1 .. Len(h) : i < k => h[i] = "blank"
  BY <1>3, FirstBlanks
<1>5. PICK y : y = From(h, k)
  OBVIOUS
<1>6. /\ y \in Seq(Lines) /\ Len(y) = n + 1 - k
      /\ \A i \in 1 .. Len(y) : y[i] = h[i + k - 1]
  BY <1>3, <1>5 DEF From
<1>7. y \in {<<>>, <<"sh">>}
  BY <1>1, <1>2, <1>4, <1>5
<1>8. \A i \in 1 .. Len(y) : y[i] = "sh"
  BY <1>7
<1>9. ASSUME NEW i \in 1 .. Len(f), i <= n, i >= k
      PROVE  f[i] = "sh"
  <2>1. i - k + 1 \in 1 .. Len(y) /\ (i - k + 1) + k - 1 = i
    BY <1>6, <1>9
  <2>2. y[i - k + 1] = h[i]
    BY <1>6, <2>1
  <2>3. h[i] = f[i]
    BY <1>3, <1>9
  <2>4. QED
    BY <1>8, <2>1, <2>2, <2>3
<1>10. QED
  BY <1>1, <1>3, <1>4, <1>9 DEF Neutral

LEMMA SameLines ==
    ASSUME NEW v \in Seq(Lines), NEW w \in Seq(Lines), Len(v) = Len(w),
           \A i \in 1 .. Len(v) : v[i] = w[i]
    PROVE  v = w
  OBVIOUS

BehindIn(f, e, y) == /\ y \in Seq(Lines) /\ Len(y) = Len(f) - e
                     /\ \A i \in 1 .. Len(y) : y[i] = f[i + e]

LEMMA BehindIs ==
    ASSUME NEW f \in Seq(Lines), NEW e \in 0 .. Len(f), NEW y, y = From(f, e + 1)
    PROVE  BehindIn(f, e, y)
<1>1. PICK l, c : l = Len(f) /\ c = e + 1
  OBVIOUS
<1>2. l \in Nat /\ e \in 0 .. l /\ c \in 1 .. l + 1 /\ l + 1 - c = l - e /\ c - 1 = e
  BY <1>1
<1>3. /\ y \in Seq(Lines) /\ Len(y) = l + 1 - c
      /\ \A i \in 1 .. l + 1 - c : y[i] = f[i + (c - 1)]
  BY <1>1, <1>2, FromIs
<1>4. QED
  BY <1>1, <1>2, <1>3 DEF BehindIn

LEMMA FromFrom ==
    ASSUME NEW f \in Seq(Lines), NEW e \in 0 .. Len(f), NEW k \in 1 .. Len(f) - e + 1,
           NEW c, c = e + k
    PROVE  From(From(f, e + 1), k) = From(f, c)
<1>1. Len(f) \in Nat /\ e + 1 \in 1 .. Len(f) + 1 /\ c \in 1 .. Len(f) + 1
  OBVIOUS
<1>2. PICK y : y = From(f, e + 1)
  OBVIOUS
<1>3. /\ y \in Seq(Lines) /\ Len(y) = Len(f) - e
      /\ \A i \in 1 .. Len(f) - e : y[i] = f[i + e]
  <2>1. BehindIn(f, e, y)
    BY <1>2, BehindIs
  <2>2. QED
    BY <2>1 DEF BehindIn
<1>4. PICK v, w : v = From(y, k) /\ w = From(f, c)
  OBVIOUS
<1>5. /\ v \in Seq(Lines) /\ Len(v) = Len(f) - e + 1 - k
      /\ \A i \in 1 .. Len(f) - e + 1 - k : v[i] = y[i + (k - 1)]
  <2>1. k \in 1 .. Len(y) + 1
    BY <1>3
  <2>2. QED
    BY <1>3, <1>4, <2>1, FromIs
<1>6. /\ w \in Seq(Lines) /\ Len(w) = Len(f) + 1 - c
      /\ \A i \in 1 .. Len(f) + 1 - c : w[i] = f[i + (c - 1)]
  BY <1>1, <1>4, FromIs
<1>7. Len(f) - e + 1 - k = Len(f) + 1 - c
  BY <1>1
<1>8. ASSUME NEW i \in 1 .. Len(f) + 1 - c
      PROVE  v[i] = w[i]
  <2>1. i + (k - 1) \in 1 .. Len(f) - e /\ i + (k - 1) + e = i + (c - 1)
    BY <1>1
  <2>2. v[i] = y[i + (k - 1)] /\ w[i] = f[i + (c - 1)]
    BY <1>5, <1>6, <1>7
  <2>3. y[i + (k - 1)] = f[i + (k - 1) + e]
    BY <1>3, <2>1
  <2>4. QED
    BY <2>1, <2>2, <2>3
<1>9. v = w
  <2>1. Len(v) = Len(w)
    BY <1>5, <1>6, <1>7
  <2>2. \A i \in 1 .. Len(v) : v[i] = w[i]
    BY <1>6, <1>8, <2>1
  <2>3. QED
    BY <1>5, <1>6, <2>1, <2>2, SameLines
<1>10. QED
  BY <1>2, <1>4, <1>9

\* The lines of f outside of the cut are lines of g.
IsCut(f, a, c, g) ==
    /\ \A i \in 1 .. a : g[i] = f[i] /\ i \in 1 .. Len(g)
    /\ \A i \in c .. Len(f) : /\ g[i + (a + 1 - c)] = f[i]
                              /\ i + (a + 1 - c) \in 1 .. Len(g)

LEMMA CutIs ==
    ASSUME NEW f \in Seq(Lines), NEW g, NEW a \in 0 .. Len(f), NEW c \in 1 .. Len(f) + 1,
           IsSplice(f, a, <<>>, c, g)
    PROVE  IsCut(f, a, c, g)
<1>1. Len(<<>>) = 0 /\ Len(f) \in Nat
  OBVIOUS
<1>2. /\ g \in Seq(Lines) /\ Len(g) = a + (Len(f) + 1 - c)
      /\ \A i \in 1 .. a : g[i] = f[i]
  BY <1>1 DEF IsSplice
<1>3. ASSUME NEW i \in c .. Len(f)
      PROVE  g[i + (a + 1 - c)] = f[i] /\ i + (a + 1 - c) \in 1 .. Len(g)
  <2>1. a + Len(<<>>) + 1 - c = a + 1 - c
    BY <1>1
  <2>2. g[i + (a + Len(<<>>) + 1 - c)] = f[i]
    BY DEF IsSplice
  <2>3. QED
    BY <1>1, <1>2, <2>1, <2>2
<1>4. \A i \in 1 .. a : i \in 1 .. Len(g)
  BY <1>1, <1>2
<1>5. QED
  BY <1>2, <1>3, <1>4 DEF IsCut

\* Uninstalling takes the lines after a and before c away: those from the
\* first start marker to the first end marker, and around these nothing that
\* is the user's or ours.
LEMMA UninstalledIs ==
    ASSUME NEW file \in Hooks,
           NEW f, f = Text(file), NEW s, s = At(f, "start"), NEW e, e = At(f, "end"),
           NEW g, g = Uninstalled(file)
    PROVE  /\ g \in Hooks
           /\ s = 0 \/ e = 0 => g = file
           /\ s # 0 /\ e # 0 =>
                 \E a \in 0 .. s - 1, c \in e + 1 .. Len(f) + 1 :
                    /\ IsSplice(f, a, <<>>, c, Text(g))
                    /\ \A i \in 1 .. Len(f) :
                          (a < i /\ i < s) \/ (e < i /\ i < c) => f[i] \in Neutral
<1>1. /\ f \in Seq(Lines) /\ s \in 0 .. Len(f) /\ e \in 0 .. Len(f) /\ Len(f) \in Nat
  BY TextIs, AtIs
<1>2. CASE s = 0 \/ file = NoFile
  <2>1. s = 0
    BY <1>1, <1>2, TextIs
  <2>2. g = file
    <3>1. file # NoFile => f = file
      BY TextIs
    <3>2. QED
      BY <2>1, <3>1 DEF Uninstalled
  <2>3. QED
    BY <2>1, <2>2
<1>3. CASE file # NoFile /\ s # 0
  <2> DEFINE rest == RemoveSynthBlock(f)
             away == WithoutFirstBlanks(WithoutLastBlanks(rest)) \in {<<>>, <<"sh">>}
  <2>1. f = file
    BY <1>3, TextIs
  <2>2. g = IF away THEN NoFile ELSE rest
    BY <1>3, <2>1 DEF Uninstalled
  <2>3. CASE e = 0
    <3>1. rest = f
      BY <1>3, <2>3 DEF RemoveSynthBlock
    <3>2. f[s] = "start" /\ s \in 1 .. Len(f)
      BY <1>1, <1>3, AtIs
    <3>3. ~ away
      BY <1>1, <3>1, <3>2, TrimmedAway, KindsOfLines DEF Ours
    <3>4. QED
      BY <1>3, <2>1, <2>2, <2>3, <3>1, <3>3
  <2>4. CASE e # 0
    <3>1. PICK x, y : x = UpTo(f, s - 1) /\ y = From(f, e + 1)
      OBVIOUS
    <3>2. /\ x \in Seq(Lines) /\ Len(x) = s - 1
          /\ \A i \in 1 .. s - 1 : x[i] = f[i]
      BY <1>1, <1>3, <3>1 DEF UpTo
    <3>3. /\ y \in Seq(Lines) /\ Len(y) = Len(f) - e
          /\ \A i \in 1 .. Len(y) : y[i] = f[i + e]
      <4>1. BehindIn(f, e, y)
        BY <1>1, <3>1, BehindIs
      <4>2. QED
        BY <4>1 DEF BehindIn
    <3>4. PICK a \in 0 .. s - 1 : /\ WithoutLastBlanks(x) = UpTo(x, a)
                                  /\ \A i \in 1 .. s - 1 : i > a => x[i] = "blank"
      BY <3>2, LastBlanks
    <3>5. PICK k \in 1 .. Len(f) - e + 1 :
                /\ WithoutFirstBlanks(y) = From(y, k)
                /\ \A i \in 1 .. Len(y) : i < k => y[i] = "blank"
      BY <3>3, FirstBlanks
    <3>6. PICK c \in e + 1 .. Len(f) + 1 : c = e + k
      <4>1. e + k \in e + 1 .. Len(f) + 1
        BY <1>1, <3>5
      <4>2. QED
        BY <4>1
    <3>7. a \in 0 .. Len(f) /\ c \in 1 .. Len(f) + 1
      <4>1. a \in 0 .. Len(f)
        BY <1>1, <3>4
      <4>2. c \in 1 .. Len(f) + 1
        BY <1>1, <3>6
      <4>3. QED
        BY <4>1, <4>2
    <3>8. UpTo(x, a) = UpTo(f, a)
      BY <1>1, <3>1, <3>2, <3>4 DEF UpTo
    <3>9. From(y, k) = From(f, c)
      BY <1>1, <2>4, <3>1, <3>5, <3>6, FromFrom
    <3>10. PICK r : r = rest
      OBVIOUS
    <3>11. r = UpTo(f, a) \o From(f, c)
      BY <1>3, <2>4, <3>1, <3>4, <3>5, <3>8, <3>9, <3>10 DEF RemoveSynthBlock
    <3>12. IsSplice(f, a, <<>>, c, r)
      <4>1. IsSplice(f, a, <<>>, c, UpTo(f, a) \o <<>> \o From(f, c))
        <5>1. <<>> \in Seq(Lines)
          OBVIOUS
        <5>2. QED
          BY <1>1, <3>7, <5>1, SplicedIs
      <4>2. UpTo(f, a) \o <<>> = UpTo(f, a)
        BY <1>1, <3>7 DEF UpTo
      <4>3. QED
        BY <3>11, <4>1, <4>2
    <3>13. ASSUME NEW i \in 1 .. Len(f), (a < i /\ i < s) \/ (e < i /\ i < c)
           PROVE  f[i] \in Neutral
      <4>1. CASE a < i /\ i < s
        <5>1. i \in 1 .. s - 1
          BY <1>1, <4>1
        <5>2. x[i] = f[i] /\ x[i] = "blank"
          BY <3>2, <3>4, <4>1, <5>1
        <5>3. QED
          BY <5>2 DEF Neutral
      <4>2. CASE e < i /\ i < c
        <5>1. i - e \in 1 .. Len(f) - e /\ i - e < k /\ i - e + e = i
          <6>1. PICK l : l = Len(f)
            OBVIOUS
          <6>2. l \in Nat /\ e \in 0 .. l /\ i \in 1 .. l /\ k \in 1 .. l - e + 1
            BY <1>1, <3>5, <6>1
          <6>3. e < i /\ i < e + k
            BY <3>6, <4>2
          <6>4. i \in Int /\ e \in Int /\ l \in Int /\ k \in Int /\ i <= l
            BY <6>2
          <6>5. 1 <= i - e /\ i - e <= l - e
            BY <6>3, <6>4
          <6>6. i - e < k /\ i - e + e = i
            BY <6>3, <6>4
          <6>7. i - e \in Int /\ l - e \in Int
            BY <6>4
          <6>8. QED
            BY <6>1, <6>5, <6>6, <6>7
        <5>2. Len(y) = Len(f) - e
          BY <3>3
        <5>3. y[i - e] = f[i] /\ y[i - e] = "blank"
          BY <3>3, <3>5, <5>1, <5>2
        <5>4. QED
          BY <5>3 DEF Neutral
      <4>3. QED
        BY <3>13, <4>1, <4>2
    <3>14. CASE ~ away
      <4>1. g = r /\ r \in Seq(Lines)
        BY <2>2, <3>10, <3>12, <3>14 DEF IsSplice
      <4>2. Text(g) = g /\ g \in Hooks
        BY <4>1, HookAssumption DEF Text, Hooks
      <4>3. QED
        BY <1>3, <2>4, <3>4, <3>6, <3>12, <3>13, <4>1, <4>2
    <3>15. CASE away
      <4>1. g = NoFile /\ Text(g) = <<>> /\ g \in Hooks
        BY <2>2, <3>15 DEF Text, Hooks
      <4>2. r \in Seq(Lines)
        BY <3>12 DEF IsSplice
      <4>3. \A i \in 1 .. Len(r) : r[i] \in Neutral
        BY <3>10, <3>15, <4>2, TrimmedAway
      <4>4. IsCut(f, a, c, r)
        BY <1>1, <3>7, <3>12, CutIs
      <4>5. \A i \in 1 .. Len(f) : i <= a \/ i >= c => f[i] \in Neutral
        <5>1. \A i \in 1 .. a : f[i] \in Neutral
          BY <4>3, <4>4 DEF IsCut
        <5>2. \A i \in c .. Len(f) : f[i] \in Neutral
          BY <4>3, <4>4 DEF IsCut
        <5>3. QED
          BY <1>1, <3>7, <5>1, <5>2
      <4>6. \A i \in 1 .. Len(f) : (0 < i /\ i < s) \/ (e < i /\ i < Len(f) + 1) => f[i] \in Neutral
        BY <1>1, <3>7, <3>13, <4>5
      <4>7. IsSplice(f, 0, <<>>, Len(f) + 1, <<>>)
        BY <1>1 DEF IsSplice
      <4>8. 0 \in 0 .. s - 1 /\ Len(f) + 1 \in e + 1 .. Len(f) + 1
        BY <1>1, <1>3
      <4>9. QED
        BY <1>3, <2>4, <4>1, <4>6, <4>7, <4>8
    <3>16. QED
      BY <3>14, <3>15
  <2>5. QED
    BY <2>3, <2>4
<1>4. QED
  BY <1>2, <1>3

-----------------------------------------------------------------------------
(* The user's lines: each once and in their order.  A change that moves them *)
(* all in step leaves every line's place among them as it was.               *)
Below(S, i) == {j \in S : j <= i}
Place(file, i) == Cardinality(Below(UserAt(file), i))

LEMMA LinesByPlace ==
    ASSUME NEW f, NEW lines
    PROVE  UserLinesAre(f, lines) <=> /\ Len(lines) = Cardinality(UserAt(f))
                                      /\ \A i \in UserAt(f) : f[i] = lines[Place(f, i)]
  BY DEF UserLinesAre, Place, Below

LEMMA UserAtIs ==
    ASSUME NEW f \in Seq(Lines)
    PROVE  /\ UserAt(f) = {i \in 1 .. Len(f) : f[i] \in UserLines}
           /\ UserAt(f) \subseteq Nat /\ IsFiniteSet(UserAt(f)) /\ Cardinality(UserAt(f)) \in Nat
<1>1. f # NoFile /\ Len(f) \in Nat /\ DOMAIN f = 1 .. Len(f)
  BY HookAssumption
<1>2. UserAt(f) = {i \in 1 .. Len(f) : f[i] \in UserLines}
  BY <1>1 DEF UserAt
<1>3. IsFiniteSet(1 .. Len(f))
  BY <1>1, FS_Interval
<1>4. IsFiniteSet(UserAt(f))
  BY <1>2, <1>3, FS_Subset
<1>5. QED
  BY <1>2, <1>4, FS_CardinalityType

LEMMA PlaceIs ==
    ASSUME NEW f \in Seq(Lines), NEW i \in UserAt(f)
    PROVE  Place(f, i) \in 1 .. Cardinality(UserAt(f))
<1>1. /\ IsFiniteSet(UserAt(f)) /\ Cardinality(UserAt(f)) \in Nat /\ i \in Nat
  BY UserAtIs
<1>2. Below(UserAt(f), i) \subseteq UserAt(f) /\ i \in Below(UserAt(f), i)
  BY <1>1 DEF Below
<1>3. /\ IsFiniteSet(Below(UserAt(f), i)) /\ Cardinality(Below(UserAt(f), i)) \in Nat
      /\ Cardinality(Below(UserAt(f), i)) <= Cardinality(UserAt(f))
  BY <1>1, <1>2, FS_Subset, FS_CardinalityType
<1>4. Cardinality(Below(UserAt(f), i)) # 0
  BY <1>2, <1>3, FS_EmptySet
<1>5. QED
  BY <1>1, <1>3, <1>4 DEF Place

\* t maps S onto T, in order.
InOrder(t, S, T) == /\ t \in [S -> T]
                    /\ \A i, j \in S : i < j => t[i] < t[j]
                    /\ \A k \in T : \E i \in S : t[i] = k

SameRanks(t, S, T) ==
    /\ Cardinality(T) = Cardinality(S)
    /\ \A i \in S : Cardinality(Below(T, t[i])) = Cardinality(Below(S, i))

LEMMA MovedInOrder ==
    ASSUME NEW S \in SUBSET Nat, NEW T \in SUBSET Nat, IsFiniteSet(S), NEW t, InOrder(t, S, T)
    PROVE  SameRanks(t, S, T)
<1> USE DEF InOrder
<1>1. \A i, j \in S : (t[i] <= t[j] <=> i <= j) /\ (t[i] = t[j] => i = j)
  <2>1. ASSUME NEW i \in S, NEW j \in S
        PROVE  (t[i] <= t[j] <=> i <= j) /\ (t[i] = t[j] => i = j)
    <3>1. i \in Nat /\ j \in Nat /\ t[i] \in Nat /\ t[j] \in Nat
      OBVIOUS
    <3>2. (i < j => t[i] < t[j]) /\ (j < i => t[j] < t[i])
      OBVIOUS
    <3>3. QED
      BY <3>1, <3>2
  <2>2. QED
    BY <2>1
<1>2. t \in Bijection(S, T)
  BY <1>1 DEF Bijection, Injection, Surjection, IsInjective
<1>3. Cardinality(T) = Cardinality(S)
  BY <1>2, FS_Bijection DEF ExistsBijection
<1>4. ASSUME NEW i \in S
      PROVE  Cardinality(Below(T, t[i])) = Cardinality(Below(S, i))
  <2> DEFINE A == {j \in S : j <= i}
             B == {k \in T : k <= t[i]}
             u == [j \in A |-> t[j]]
  <2>1. u \in [A -> B]
    BY <1>1
  <2>2. \A k \in B : \E j \in A : u[j] = k
    BY <1>1
  <2>3. u \in Bijection(A, B)
    BY <1>1, <2>1, <2>2 DEF Bijection, Injection, Surjection, IsInjective
  <2>4. IsFiniteSet(A)
    BY FS_Subset
  <2> HIDE DEF A, B, u
  <2>5. Cardinality(B) = Cardinality(A)
    BY <2>3, <2>4, FS_Bijection DEF ExistsBijection
  <2>6. QED
    BY <2>5 DEF A, B, Below
<1>5. QED
  BY <1>3, <1>4 DEF SameRanks

LEMMA MovedKeeps ==
    ASSUME NEW f \in Seq(Lines), NEW g \in Seq(Lines), NEW t, InOrder(t, UserAt(f), UserAt(g)),
           \A i \in UserAt(f) : g[t[i]] = f[i],
           NEW lines, UserLinesAre(f, lines)
    PROVE  UserLinesAre(g, lines)
<1>1. /\ UserAt(f) \in SUBSET Nat /\ UserAt(g) \in SUBSET Nat /\ IsFiniteSet(UserAt(f))
  BY UserAtIs
<1>2. /\ Cardinality(UserAt(g)) = Cardinality(UserAt(f))
      /\ \A i \in UserAt(f) : Place(g, t[i]) = Place(f, i)
  <2>1. PICK S, T : S = UserAt(f) /\ T = UserAt(g)
    OBVIOUS
  <2>2. S \in SUBSET Nat /\ T \in SUBSET Nat /\ IsFiniteSet(S) /\ InOrder(t, S, T)
    BY <1>1, <2>1
  <2>3. SameRanks(t, S, T)
    BY <2>2, MovedInOrder
  <2>4. QED
    BY <2>1, <2>3 DEF Place, SameRanks
<1>3. ASSUME NEW k \in UserAt(g)
      PROVE  g[k] = lines[Place(g, k)]
  <2>1. PICK i \in UserAt(f) : t[i] = k
    BY DEF InOrder
  <2>2. f[i] = lines[Place(f, i)]
    BY LinesByPlace
  <2>3. QED
    BY <1>2, <2>1, <2>2
<1>4. QED
  <2>1. Len(lines) = Cardinality(UserAt(g))
    BY <1>2, LinesByPlace
  <2>2. QED
    BY <1>3, <2>1, LinesByPlace

LEMMA SpliceKeeps ==
    ASSUME NEW f \in Seq(Lines), NEW m \in Seq(Lines), NEW g,
           NEW a \in 0 .. Len(f), NEW c \in 1 .. Len(f) + 1, a < c, IsSplice(f, a, m, c, g),
           \A i \in 1 .. Len(m) : m[i] \notin UserLines,
           \A i \in 1 .. Len(f) : a < i /\ i < c => f[i] \notin UserLines,
           NEW lines, UserLinesAre(f, lines)
    PROVE  UserLinesAre(g, lines)
<1> DEFINE shift == a + Len(m) + 1 - c
           t == [i \in UserAt(f) |-> IF i <= a THEN i ELSE i + shift]
<1>1. g \in Seq(Lines) /\ Len(f) \in Nat /\ Len(m) \in Nat /\ Len(g) = a + Len(m) + (Len(f) + 1 - c)
  BY DEF IsSplice
<1>2. /\ UserAt(f) = {i \in 1 .. Len(f) : f[i] \in UserLines}
      /\ UserAt(g) = {i \in 1 .. Len(g) : g[i] \in UserLines}
  BY <1>1, UserAtIs
<1>3. \A i \in UserAt(f) : i \in 1 .. a \/ i \in c .. Len(f)
  BY <1>1, <1>2
<1>4. \A i \in 1 .. a : i \in 1 .. Len(g) /\ g[i] = f[i]
  BY <1>1 DEF IsSplice
<1>5. \A i \in c .. Len(f) : i + shift \in 1 .. Len(g) /\ g[i + shift] = f[i]
  BY <1>1 DEF IsSplice
<1>6. \A i \in UserAt(f) : t[i] \in UserAt(g) /\ g[t[i]] = f[i]
  <2>1. ASSUME NEW i \in UserAt(f)
        PROVE  t[i] \in 1 .. Len(g) /\ g[t[i]] = f[i]
    <3>1. CASE i <= a
      <4>1. t[i] = i /\ i \in 1 .. a
        BY <1>1, <1>3, <3>1
      <4>2. QED
        BY <1>4, <4>1
    <3>2. CASE ~ (i <= a)
      <4>1. t[i] = i + shift /\ i \in c .. Len(f)
        BY <1>3, <3>2
      <4>2. QED
        BY <1>5, <4>1
    <3>3. QED
      BY <3>1, <3>2
  <2>2. QED
    BY <1>2, <2>1
<1>7. \A i, j \in UserAt(f) : i < j => t[i] < t[j]
  BY <1>1, <1>3
<1>8. ASSUME NEW k \in UserAt(g)
      PROVE  \E i \in UserAt(f) : t[i] = k
  <2>1. \/ k \in 1 .. a /\ g[k] = f[k]
        \/ k - a \in 1 .. Len(m) /\ g[k] = m[k - a]
        \/ \E i \in c .. Len(f) : k = i + shift /\ g[k] = f[i]
    <3>1. k \in 1 .. Len(g)
      BY <1>2
    <3>2. ComesFrom(f, a, m, c, g, k)
      BY <3>1, SpliceLines
    <3>3. QED
      BY <3>2 DEF ComesFrom
  <2>2. g[k] \in UserLines
    BY <1>2
  <2>3. CASE k \in 1 .. a /\ g[k] = f[k]
    <3>1. k \in UserAt(f) /\ k <= a
      BY <1>1, <1>2, <2>2, <2>3
    <3>2. QED
      BY <3>1
  <2>4. ASSUME NEW i \in c .. Len(f), k = i + shift, g[k] = f[i]
        PROVE  \E j \in UserAt(f) : t[j] = k
    <3>1. i \in UserAt(f) /\ ~ (i <= a)
      BY <1>1, <1>2, <2>2, <2>4
    <3>2. QED
      BY <2>4, <3>1
  <2>5. QED
    BY <2>1, <2>2, <2>3, <2>4
<1>9. t \in [UserAt(f) -> UserAt(g)]
  BY <1>6
<1> HIDE DEF t
<1>10. InOrder(t, UserAt(f), UserAt(g))
  BY <1>7, <1>8, <1>9 DEF InOrder
<1>11. QED
  BY <1>1, <1>6, <1>10, MovedKeeps

-----------------------------------------------------------------------------
(* The block: at most one, and whole, while the markers are left alone.      *)
BlockAt(f, i) == /\ i \in 1 .. Len(f) - 2
                 /\ f[i] = "start" /\ f[i + 1] \in {"old body", "body"} /\ f[i + 2] = "end"
                 /\ \A j \in 1 .. Len(f) : j < i \/ j > i + 2 => f[j] \notin Ours

Bare(f) == \A j \in 1 .. Len(f) : f[j] \notin Ours
Whole(f) == Bare(f) \/ \E i \in 1 .. Len(f) : BlockAt(f, i)
Installs(f) == \E i \in 1 .. Len(f) : BlockAt(f, i) /\ f[i + 1] = "body"

LEMMA BlockIs ==
    ASSUME NEW f \in Seq(Lines), NEW i, BlockAt(f, i)
    PROVE  /\ i \in 1 .. Len(f) /\ i + 1 \in 1 .. Len(f) /\ i + 2 \in 1 .. Len(f)
           /\ f[i] = "start" /\ f[i + 1] \in {"old body", "body"} /\ f[i + 2] = "end"
           /\ \A j \in 1 .. Len(f) : j = i \/ j = i + 1 \/ j = i + 2 \/ f[j] \notin Ours
<1>1. PICK l \in Nat : l = Len(f)
  OBVIOUS
<1>2. /\ i \in 1 .. l - 2 /\ \A j \in 1 .. l : j < i \/ j > i + 2 => f[j] \notin Ours
      /\ f[i] = "start" /\ f[i + 1] \in {"old body", "body"} /\ f[i + 2] = "end"
  BY <1>1 DEF BlockAt
<1>3. i \in 1 .. l - 2
  BY <1>2
<1>4. /\ i \in 1 .. l /\ i + 1 \in 1 .. l /\ i + 2 \in 1 .. l
      /\ \A j \in 1 .. l : j < i \/ j > i + 2 \/ j = i \/ j = i + 1 \/ j = i + 2
  BY <1>1, <1>3
<1>5. QED
  BY <1>1, <1>2, <1>4

\* Where the markers of a whole hook are.
LEMMA MarkersAre ==
    ASSUME NEW f \in Seq(Lines), NEW s, s = At(f, "start"), NEW e, e = At(f, "end")
    PROVE  /\ Bare(f) => s = 0 /\ e = 0
           /\ \A i \in 1 .. Len(f) : BlockAt(f, i) => s = i /\ e = i + 2
<1>1. /\ Len(f) \in Nat /\ s \in 0 .. Len(f) /\ e \in 0 .. Len(f)
      /\ s = 0 => \A i \in 1 .. Len(f) : f[i] # "start"
      /\ s # 0 => f[s] = "start"
      /\ e = 0 => \A i \in 1 .. Len(f) : f[i] # "end"
      /\ e # 0 => f[e] = "end"
  BY AtIs
<1>2. "start" \in Ours /\ "end" \in Ours
  BY DEF Ours
<1>3. Bare(f) => s = 0 /\ e = 0
  <2>1. s # 0 => s \in 1 .. Len(f) /\ f[s] \in Ours
    BY <1>1, <1>2
  <2>2. e # 0 => e \in 1 .. Len(f) /\ f[e] \in Ours
    BY <1>1, <1>2
  <2>3. QED
    BY <2>1, <2>2 DEF Bare
<1>4. ASSUME NEW i \in 1 .. Len(f), BlockAt(f, i)
      PROVE  s = i /\ e = i + 2
  <2>1. /\ i \in 1 .. Len(f) /\ i + 1 \in 1 .. Len(f) /\ i + 2 \in 1 .. Len(f)
        /\ f[i] = "start" /\ f[i + 1] \in {"old body", "body"} /\ f[i + 2] = "end"
        /\ \A j \in 1 .. Len(f) : j = i \/ j = i + 1 \/ j = i + 2 \/ f[j] \notin Ours
    BY <1>4, BlockIs
  <2>2. s # 0 /\ e # 0
    BY <1>1, <2>1
  <2>3. s \in 1 .. Len(f) /\ e \in 1 .. Len(f) /\ f[s] = "start" /\ f[e] = "end"
    BY <1>1, <2>2
  <2>4. s = i
    BY <1>2, <2>1, <2>3
  <2>5. e = i + 2
    BY <1>2, <2>1, <2>3
  <2>6. QED
    BY <2>4, <2>5
<1>5. QED
  BY <1>3, <1>4

LEMMA InstalledWhole ==
    ASSUME NEW file \in Hooks, Whole(Text(file))
    PROVE  Whole(Installed(file)) /\ Installs(Installed(file))
<1>1. PICK f, g, s, e : /\ f = Text(file) /\ g = Installed(file)
                        /\ s = At(f, "start") /\ e = At(f, "end")
  OBVIOUS
<1>2. f \in Seq(Lines) /\ Len(f) \in Nat
  BY <1>1, TextIs
<1>3. /\ g \in Seq(Lines)
      /\ s = 0 => \E m : NewBlock(m) /\ IsSplice(f, Len(f), m, Len(f) + 1, g)
      /\ s # 0 /\ e = 0 => g = f
      /\ s # 0 /\ e # 0 => IsSplice(f, s - 1, Block, e + 1, g)
  BY <1>1, InstalledIs
<1>4. /\ Bare(f) => s = 0
      /\ \A i \in 1 .. Len(f) : BlockAt(f, i) => s = i /\ e = i + 2
  BY <1>1, <1>2, MarkersAre
<1>5. CASE Bare(f)
  <2>1. PICK m : NewBlock(m) /\ IsSplice(f, Len(f), m, Len(f) + 1, g)
    BY <1>3, <1>4, <1>5
  <2>2. PICK n \in 1 .. 2 : /\ m \in Seq(Lines) /\ Len(m) = n + 3
                            /\ \A i \in 1 .. n : m[i] \in Neutral
                            /\ m[n + 1] = "start" /\ m[n + 2] = "body" /\ m[n + 3] = "end"
    <3>1. PICK n \in 1 .. 2 : Len(m) = n + 3
      BY <2>1 DEF NewBlock
    <3>2. n + 3 - 3 = n /\ n + 3 - 2 = n + 1 /\ n + 3 - 1 = n + 2
      OBVIOUS
    <3>3. QED
      BY <2>1, <3>1, <3>2 DEF NewBlock
  <2>3. PICK l \in Nat : l = Len(f)
    BY <1>2
  <2>4. /\ Len(g) = l + n + 3
        /\ \A j \in 1 .. l : g[j] = f[j]
        /\ \A j \in 1 .. n + 3 : g[l + j] = m[j]
    BY <2>1, <2>2, <2>3 DEF IsSplice
  <2>5. ASSUME NEW j \in 1 .. l + n
        PROVE  g[j] \notin Ours
    <3>1. CASE j <= l
      BY <1>5, <2>3, <2>4, <3>1 DEF Bare
    <3>2. CASE j > l
      <4>1. j - l \in 1 .. n /\ l + (j - l) = j
        BY <3>2
      <4>2. g[j] \in Neutral
        BY <2>2, <2>4, <4>1
      <4>3. QED
        BY <4>2, KindsOfLines
    <3>3. QED
      BY <3>1, <3>2
  <2>6. /\ g[l + n + 1] = "start" /\ g[l + n + 2] = "body" /\ g[l + n + 3] = "end"
    <3>1. /\ n + 1 \in 1 .. n + 3 /\ n + 2 \in 1 .. n + 3 /\ n + 3 \in 1 .. n + 3
          /\ l + (n + 1) = l + n + 1 /\ l + (n + 2) = l + n + 2 /\ l + (n + 3) = l + n + 3
      OBVIOUS
    <3>2. QED
      BY <2>2, <2>4, <3>1
  <2>7. PICK i \in 1 .. l + n + 3 : i = l + n + 1
    OBVIOUS
  <2>8. BlockAt(g, i) /\ g[i + 1] = "body" /\ i \in 1 .. Len(g)
    <3>1. i + 1 = l + n + 2 /\ i + 2 = l + n + 3 /\ i \in 1 .. Len(g) - 2
      BY <2>4, <2>7
    <3>2. \A j \in 1 .. Len(g) : j < i \/ j > i + 2 => j \in 1 .. l + n
      BY <2>4, <2>7
    <3>3. QED
      BY <2>4, <2>5, <2>6, <2>7, <3>1, <3>2 DEF BlockAt
  <2>9. QED
    BY <1>1, <2>8 DEF Whole, Installs
<1>6. ASSUME NEW i \in 1 .. Len(f), BlockAt(f, i)
      PROVE  BlockAt(g, i) /\ g[i + 1] = "body" /\ i \in 1 .. Len(g)
  <2>1. s = i /\ e = i + 2 /\ i + 2 \in 1 .. Len(f)
    BY <1>2, <1>4, <1>6, BlockIs
  <2>2. PICK l \in Nat : l = Len(f)
    BY <1>2
  <2>3. IsSplice(f, i - 1, Block, i + 3, g)
    BY <1>3, <2>1
  <2>4. /\ Len(g) = l
        /\ \A j \in 1 .. i - 1 : g[j] = f[j]
        /\ \A j \in 1 .. 3 : g[(i - 1) + j] = Block[j]
        /\ \A j \in i + 3 .. l : g[j] = f[j]
    <3>1. /\ (i - 1) + 3 + (l + 1 - (i + 3)) = l
          /\ \A j \in i + 3 .. l : j + ((i - 1) + 3 + 1 - (i + 3)) = j
      OBVIOUS
    <3>2. /\ Len(g) = (i - 1) + 3 + (l + 1 - (i + 3))
          /\ \A j \in 1 .. i - 1 : g[j] = f[j]
          /\ \A j \in 1 .. 3 : g[(i - 1) + j] = Block[j]
          /\ \A j \in i + 3 .. l : g[j + ((i - 1) + 3 + 1 - (i + 3))] = f[j]
      BY <2>2, <2>3, KindsOfLines DEF IsSplice
    <3>3. QED
      BY <3>1, <3>2
  <2>5. g[i] = "start" /\ g[i + 1] = "body" /\ g[i + 2] = "end"
    <3>1. (i - 1) + 1 = i /\ (i - 1) + 2 = i + 1 /\ (i - 1) + 3 = i + 2
      OBVIOUS
    <3>2. QED
      BY <2>4, <3>1, KindsOfLines
  <2>6. \A j \in 1 .. l : j < i \/ j > i + 2 => g[j] = f[j] /\ f[j] \notin Ours
    <3>1. \A j \in 1 .. l : (j < i => j \in 1 .. i - 1) /\ (j > i + 2 => j \in i + 3 .. l)
      OBVIOUS
    <3>2. QED
      BY <1>6, <2>2, <2>4, <3>1 DEF BlockAt
  <2>7. QED
    BY <1>2, <2>1, <2>2, <2>4, <2>5, <2>6 DEF BlockAt
<1>7. QED
  BY <1>1, <1>5, <1>6 DEF Whole, Installs

(* InstallPostCommitHook may be called again (git/hooks.go): on a hook that  *)
(* it has installed, whatever lines of the user's are in it, it changes      *)
(* nothing.                                                                  *)
THEOREM InstallTwice ==
    ASSUME NEW file \in Hooks, Whole(Text(file))
    PROVE  Installed(Installed(file)) = Installed(file)
<1>1. PICK g, h, s, e : /\ g = Installed(file) /\ h = Installed(g)
                        /\ s = At(g, "start") /\ e = At(g, "end")
  OBVIOUS
<1>2. g \in Seq(Lines) /\ Whole(g) /\ Installs(g)
  BY <1>1, InstalledIs, InstalledWhole
<1>3. g \in Hooks /\ Text(g) = g
  BY <1>2, HookAssumption DEF Hooks, Text
<1>4. PICK k \in 1 .. Len(g) : BlockAt(g, k) /\ g[k + 1] = "body"
  BY <1>2 DEF Installs
<1>5. PICK l : l = Len(g)
  OBVIOUS
<1>6. l \in Nat /\ k \in 1 .. l /\ k + 2 \in 1 .. l /\ g[k] = "start" /\ g[k + 2] = "end"
  <2>1. BlockAt(g, k)
    BY <1>4
  <2>2. /\ k \in 1 .. Len(g) /\ k + 2 \in 1 .. Len(g)
        /\ g[k] = "start" /\ g[k + 2] = "end"
    BY <1>2, <2>1, BlockIs
  <2>3. QED
    BY <1>2, <1>5, <2>2
<1>7. s = k /\ e = k + 2
  BY <1>1, <1>2, <1>4, MarkersAre
<1>8. IsSplice(g, s - 1, Block, e + 1, h)
  <2>1. s # 0 /\ e # 0
    BY <1>6, <1>7
  <2>2. QED
    BY <1>1, <1>3, <2>1, InstalledIs
<1>9. PICK a, c : a = k - 1 /\ c = k + 3 /\ a \in 0 .. l /\ c \in 1 .. l + 1
  <2>1. k - 1 \in 0 .. l /\ k + 3 \in 1 .. l + 1
    BY <1>6
  <2>2. QED
    BY <2>1
<1>10. s - 1 = a /\ e + 1 = c
  BY <1>6, <1>7, <1>9
<1>11. /\ h \in Seq(Lines) /\ Len(h) = a + 3 + (l + 1 - c)
       /\ \A i \in 1 .. a : h[i] = g[i]
       /\ \A i \in 1 .. 3 : h[a + i] = Block[i]
       /\ \A i \in c .. l : h[i + (a + 3 + 1 - c)] = g[i]
  BY <1>5, <1>8, <1>10, KindsOfLines DEF IsSplice
<1>12. a + 3 + (l + 1 - c) = l /\ a + 3 + 1 - c = 0 /\ a + 1 = k /\ a + 2 = k + 1 /\ a + 3 = k + 2
  BY <1>6, <1>9
<1>13. \A i \in 1 .. l : \/ i \in 1 .. a
                         \/ i = a + 1 \/ i = a + 2 \/ i = a + 3
                         \/ i \in c .. l /\ i + 0 = i
  BY <1>6, <1>9
<1>14. h[a + 1] = g[a + 1] /\ h[a + 2] = g[a + 2] /\ h[a + 3] = g[a + 3]
  BY <1>4, <1>6, <1>11, <1>12, KindsOfLines
<1>15. \A i \in 1 .. l : h[i] = g[i]
  BY <1>11, <1>12, <1>13, <1>14
<1>16. Len(h) = Len(g)
  BY <1>5, <1>11, <1>12
<1>17. h = g
  BY <1>2, <1>5, <1>11, <1>15, <1>16, SameLines
<1>18. QED
  BY <1>1, <1>17

LEMMA UninstalledWhole ==
    ASSUME NEW file \in Hooks, Whole(Text(file))
    PROVE  Whole(Text(Uninstalled(file)))
<1>1. PICK f, g, s, e : /\ f = Text(file) /\ g = Uninstalled(file)
                        /\ s = At(f, "start") /\ e = At(f, "end")
  OBVIOUS
<1>2. f \in Seq(Lines) /\ Len(f) \in Nat
  BY <1>1, TextIs
<1>3. /\ s = 0 \/ e = 0 => g = file
      /\ s # 0 /\ e # 0 =>
            \E a \in 0 .. s - 1, c \in e + 1 .. Len(f) + 1 : IsSplice(f, a, <<>>, c, Text(g))
  BY <1>1, UninstalledIs
<1>4. CASE s = 0 \/ e = 0
  BY <1>1, <1>3, <1>4
<1>5. CASE s # 0 /\ e # 0
  <2>1. PICK i \in 1 .. Len(f) : BlockAt(f, i)
    BY <1>1, <1>2, <1>5, MarkersAre DEF Whole
  <2>2. s = i /\ e = i + 2
    BY <1>1, <1>2, <2>1, MarkersAre
  <2>3. PICK a \in 0 .. i - 1, c \in i + 3 .. Len(f) + 1 : IsSplice(f, a, <<>>, c, Text(g))
    BY <1>3, <1>5, <2>2
  <2>4. PICK h : h = Text(g)
    OBVIOUS
  <2>5. ASSUME NEW j \in 1 .. Len(h)
        PROVE  h[j] \notin Ours
    <3>1. /\ a \in 0 .. Len(f) /\ c \in 1 .. Len(f) + 1 /\ <<>> \in Seq(Lines)
          /\ IsSplice(f, a, <<>>, c, h) /\ Len(<<>>) = 0
      BY <1>2, <2>1, <2>3, <2>4
    <3>2. PICK m : m = <<>>
      OBVIOUS
    <3>3. \/ j \in 1 .. a /\ h[j] = f[j]
          \/ j - a \in 1 .. 0
          \/ \E k \in c .. Len(f) : h[j] = f[k]
      <4>1. /\ m \in Seq(Lines) /\ IsSplice(f, a, m, c, h) /\ Len(m) = 0
        BY <3>1, <3>2
      <4>2. ComesFrom(f, a, m, c, h, j)
        BY <1>2, <3>1, <4>1, SpliceLines
      <4>3. QED
        BY <4>1, <4>2 DEF ComesFrom
    <3>4. \A k : k \in 1 .. a \/ k \in c .. Len(f) => k \in 1 .. Len(f) /\ (k < i \/ k > i + 2)
      BY <1>2, <2>1, <2>3, <3>1
    <3>5. \A k \in 1 .. Len(f) : k < i \/ k > i + 2 => f[k] \notin Ours
      BY <2>1 DEF BlockAt
    <3>6. \A k : k \in 1 .. a \/ k \in c .. Len(f) => f[k] \notin Ours
      BY <3>4, <3>5
    <3>7. j - a \notin 1 .. 0
      BY <3>1
    <3>8. QED
      BY <3>3, <3>6, <3>7
  <2>6. QED
    BY <1>1, <2>4, <2>5 DEF Whole, Bare
<1>6. QED
  BY <1>4, <1>5

\* A line that the user adds at the end, or at the top.
LEMMA AppendIs ==
    ASSUME NEW f \in Seq(Lines), NEW u \in UserLines, NEW g, g = Append(f, u)
    PROVE  /\ g \in Seq(Lines) /\ Len(g) = Len(f) + 1 /\ g[Len(f) + 1] = u
           /\ \A j \in 1 .. Len(f) : g[j] = f[j]
<1>1. u \in Lines
  BY DEF Lines
<1>2. QED
  BY <1>1

IsPrepended(f, u, g) == /\ g \in Seq(Lines) /\ Len(g) = Len(f) + 1 /\ g[1] = u
                        /\ \A j \in 1 .. Len(f) : g[j + 1] = f[j]

LEMMA PrependIs ==
    ASSUME NEW f \in Seq(Lines), NEW u \in UserLines, NEW g, g = <<u>> \o f
    PROVE  IsPrepended(f, u, g)
<1>1. <<u>> \in Seq(Lines) /\ Len(<<u>>) = 1 /\ <<u>>[1] = u
  BY DEF Lines
<1>2. /\ g \in Seq(Lines) /\ Len(g) = 1 + Len(f)
      /\ \A i \in 1 .. 1 : g[i] = <<u>>[i]
      /\ \A i \in 1 .. Len(f) : g[1 + i] = f[i]
  BY <1>1, Concatenated
<1>3. \A i \in 1 .. Len(f) : 1 + i = i + 1
  OBVIOUS
<1>4. Len(f) + 1 = 1 + Len(f)
  OBVIOUS
<1>5. QED
  BY <1>1, <1>2, <1>3, <1>4 DEF IsPrepended

LEMMA UserNotOurs == \A u \in UserLines : u \notin Ours /\ u \in Lines
  BY KindsOfLines DEF Lines

LEMMA AppendedWhole ==
    ASSUME NEW f \in Seq(Lines), Whole(f), NEW u \in UserLines
    PROVE  Whole(Append(f, u))
<1>1. PICK g, n : g = Append(f, u) /\ n = Len(f)
  OBVIOUS
<1>2. /\ n \in Nat /\ Len(g) = n + 1 /\ g[n + 1] = u
      /\ \A j \in 1 .. n : g[j] = f[j]
  BY <1>1, AppendIs
<1>3. \A j \in 1 .. n + 1 : j \in 1 .. n \/ j = n + 1
  BY <1>2
<1>4. CASE Bare(f)
  <2>1. \A j \in 1 .. n + 1 : g[j] \notin Ours
    BY <1>1, <1>2, <1>3, <1>4, UserNotOurs DEF Bare
  <2>2. QED
    BY <1>1, <1>2, <2>1 DEF Whole, Bare
<1>5. ASSUME NEW i \in 1 .. Len(f), BlockAt(f, i)
      PROVE  BlockAt(g, i) /\ i \in 1 .. Len(g)
  <2>0. i \in 1 .. n /\ i + 1 \in 1 .. n /\ i + 2 \in 1 .. n
    BY <1>1, <1>5, BlockIs
  <2>1. f[i] = "start" /\ f[i + 1] \in {"old body", "body"} /\ f[i + 2] = "end"
    BY <1>5, BlockIs
  <2>2. \A j \in 1 .. n + 1 : j < i \/ j > i + 2 => g[j] \notin Ours
    BY <1>1, <1>2, <1>3, <1>5, UserNotOurs DEF BlockAt
  <2>3. i \in 1 .. Len(g) - 2 /\ i \in 1 .. Len(g)
    BY <1>2, <2>0
  <2>4. QED
    BY <1>2, <2>0, <2>1, <2>2, <2>3 DEF BlockAt
<1>6. QED
  BY <1>1, <1>4, <1>5 DEF Whole

LEMMA PrependedWhole ==
    ASSUME NEW f \in Seq(Lines), Whole(f), NEW u \in UserLines
    PROVE  Whole(<<u>> \o f)
<1>1. PICK g, n : g = <<u>> \o f /\ n = Len(f)
  OBVIOUS
<1>2. /\ n \in Nat /\ Len(g) = n + 1 /\ g[1] = u
      /\ \A j \in 1 .. n : g[j + 1] = f[j]
  BY <1>1, PrependIs DEF IsPrepended
<1>3. \A j \in 1 .. n + 1 : j = 1 \/ (j - 1 \in 1 .. n /\ (j - 1) + 1 = j)
  BY <1>2
<1>4. CASE Bare(f)
  <2>1. \A j \in 1 .. n + 1 : g[j] \notin Ours
    BY <1>1, <1>2, <1>3, <1>4, UserNotOurs DEF Bare
  <2>2. QED
    BY <1>1, <1>2, <2>1 DEF Whole, Bare
<1>5. ASSUME NEW i \in 1 .. Len(f), BlockAt(f, i)
      PROVE  BlockAt(g, i + 1) /\ i + 1 \in 1 .. Len(g)
  <2>0. i \in 1 .. n /\ i + 1 \in 1 .. n /\ i + 2 \in 1 .. n
    BY <1>1, <1>5, BlockIs
  <2>1. f[i] = "start" /\ f[i + 1] \in {"old body", "body"} /\ f[i + 2] = "end"
    BY <1>5, BlockIs
  <2>2. /\ g[i + 1] = "start" /\ g[(i + 1) + 1] \in {"old body", "body"}
        /\ g[(i + 1) + 2] = "end"
    <3>1. (i + 2) + 1 = (i + 1) + 2
      BY <2>0
    <3>2. QED
      BY <1>2, <2>0, <2>1, <3>1
  <2>3. ASSUME NEW j \in 1 .. n + 1, j < i + 1 \/ j > (i + 1) + 2
        PROVE  g[j] \notin Ours
    <3>1. CASE j = 1
      BY <1>2, <3>1, UserNotOurs
    <3>2. CASE j # 1
      <4>1. /\ j - 1 \in 1 .. n /\ (j - 1) + 1 = j
            /\ j - 1 < i \/ j - 1 > i + 2
        BY <1>2, <2>0, <2>3, <3>2
      <4>2. f[j - 1] \notin Ours
        BY <1>1, <1>5, <4>1 DEF BlockAt
      <4>3. g[(j - 1) + 1] = f[j - 1]
        BY <1>2, <4>1
      <4>4. QED
        BY <4>1, <4>2, <4>3
    <3>3. QED
      BY <3>1, <3>2
  <2>4. i + 1 \in 1 .. Len(g) - 2 /\ i + 1 \in 1 .. Len(g)
    BY <1>2, <2>0
  <2>5. QED
    BY <1>2, <2>2, <2>3, <2>4 DEF BlockAt
<1>6. QED
  BY <1>1, <1>4, <1>5 DEF Whole

-----------------------------------------------------------------------------
(* Whatever the user does to the markers, each line of the user's is out of  *)
(* their reach somewhere: before the first start marker or behind the last   *)
(* end marker.                                                               *)
NoneBefore(f, i) == \A j \in 1 .. Len(f) : j < i => f[j] # "start"
NoneAfter(f, i) == \A j \in 1 .. Len(f) : j > i => f[j] # "end"

Exposed(f, lines) ==
    \A k \in 1 .. Len(lines) :
       \E i \in 1 .. Len(f) : f[i] = lines[k] /\ (NoneBefore(f, i) \/ NoneAfter(f, i))

\* What a change between the lines a and c must do to keep line i so.
StaysOut(f, a, m, c, i) ==
    \/ i <= a /\ NoneBefore(f, i)
    \/ i >= c /\ NoneAfter(f, i)
    \/ a < c /\ i >= c /\ NoneBefore(f, i) /\ \A j \in 1 .. Len(m) : m[j] # "start"
    \/ a < c /\ i <= a /\ NoneAfter(f, i) /\ \A j \in 1 .. Len(m) : m[j] # "end"

AllStayOut(f, a, m, c) ==
    \A i \in 1 .. Len(f) :
       f[i] \in UserLines /\ (NoneBefore(f, i) \/ NoneAfter(f, i)) => StaysOut(f, a, m, c, i)

LEMMA SpliceExposed ==
    ASSUME NEW f \in Seq(Lines), NEW m \in Seq(Lines), NEW g,
           NEW a \in 0 .. Len(f), NEW c \in 1 .. Len(f) + 1, IsSplice(f, a, m, c, g),
           AllStayOut(f, a, m, c),
           NEW lines \in Seq(UserLines), Exposed(f, lines)
    PROVE  Exposed(g, lines)
<1> DEFINE shift == a + Len(m) + 1 - c
           Out(h, i) == NoneBefore(h, i) \/ NoneAfter(h, i)
<1>1. PICK l, n \in Nat : l = Len(f) /\ n = Len(m)
  OBVIOUS
<1>2. /\ Len(g) = a + n + (l + 1 - c) /\ shift = a + n + 1 - c
      /\ a \in 0 .. l /\ c \in 1 .. l + 1
  BY <1>1 DEF IsSplice
<1>3. /\ \A i \in 1 .. a : g[i] = f[i]
      /\ \A i \in c .. l : g[i + shift] = f[i]
  BY <1>1 DEF IsSplice
<1>4. \A j \in 1 .. Len(g) : ComesFrom(f, a, m, c, g, j)
  BY SpliceLines
<1>5. ASSUME NEW i \in 1 .. l, i <= a, NoneBefore(f, i)
      PROVE  NoneBefore(g, i)
  <2>1. ASSUME NEW j \in 1 .. Len(g), j < i
        PROVE  g[j] # "start"
    <3>1. j \in 1 .. a /\ j \in 1 .. l
      BY <1>1, <1>2, <1>5, <2>1
    <3>2. QED
      BY <1>1, <1>3, <1>5, <2>1, <3>1 DEF NoneBefore
  <2>2. QED
    BY <2>1 DEF NoneBefore
<1>6. ASSUME NEW i \in 1 .. l, i >= c, NoneAfter(f, i)
      PROVE  NoneAfter(g, i + shift)
  <2>1. ASSUME NEW j \in 1 .. Len(g), j > i + shift
        PROVE  g[j] # "end"
    <3>1. PICK k \in 1 .. l : k \in c .. l /\ k > i /\ k + shift = j
      <4>1. j - shift \in 1 .. l /\ j - shift \in c .. l /\ j - shift > i /\ (j - shift) + shift = j
        BY <1>1, <1>2, <1>6, <2>1
      <4>2. QED
        BY <4>1
    <3>2. g[j] = f[k] /\ f[k] # "end"
      BY <1>1, <1>3, <1>6, <3>1 DEF NoneAfter
    <3>3. QED
      BY <3>2
  <2>2. QED
    BY <2>1 DEF NoneAfter
<1>7. ASSUME NEW i \in 1 .. l, a < c, i >= c, NoneBefore(f, i),
             \A j \in 1 .. Len(m) : m[j] # "start"
      PROVE  NoneBefore(g, i + shift)
  <2>1. ASSUME NEW j \in 1 .. Len(g), j < i + shift
        PROVE  g[j] # "start"
    <3>1. CASE j \in 1 .. a /\ g[j] = f[j]
      <4>1. j \in 1 .. l /\ j < i
        BY <1>1, <1>2, <1>7, <3>1
      <4>2. QED
        BY <1>1, <1>7, <3>1, <4>1 DEF NoneBefore
    <3>2. CASE j - a \in 1 .. Len(m) /\ g[j] = m[j - a]
      BY <1>7, <3>2
    <3>3. ASSUME NEW k \in c .. l, j = k + shift, g[j] = f[k]
          PROVE  g[j] # "start"
      <4>1. k \in 1 .. l /\ k < i
        BY <1>1, <1>2, <1>7, <2>1, <3>3
      <4>2. QED
        BY <1>1, <1>7, <3>3, <4>1 DEF NoneBefore
    <3>4. QED
      BY <1>1, <1>4, <3>1, <3>2, <3>3 DEF ComesFrom
  <2>2. QED
    BY <2>1 DEF NoneBefore
<1>8. ASSUME NEW i \in 1 .. l, a < c, i <= a, NoneAfter(f, i),
             \A j \in 1 .. Len(m) : m[j] # "end"
      PROVE  NoneAfter(g, i)
  <2>1. ASSUME NEW j \in 1 .. Len(g), j > i
        PROVE  g[j] # "end"
    <3>1. CASE j \in 1 .. a /\ g[j] = f[j]
      <4>1. j \in 1 .. l
        BY <1>1, <1>2, <3>1
      <4>2. QED
        BY <1>1, <1>8, <2>1, <3>1, <4>1 DEF NoneAfter
    <3>2. CASE j - a \in 1 .. Len(m) /\ g[j] = m[j - a]
      BY <1>8, <3>2
    <3>3. ASSUME NEW k \in c .. l, j = k + shift, g[j] = f[k]
          PROVE  g[j] # "end"
      <4>1. k \in 1 .. l /\ k > i
        BY <1>1, <1>2, <1>8, <3>3
      <4>2. QED
        BY <1>1, <1>8, <3>3, <4>1 DEF NoneAfter
    <3>4. QED
      BY <1>1, <1>4, <3>1, <3>2, <3>3 DEF ComesFrom
  <2>2. QED
    BY <2>1 DEF NoneAfter
<1>9. \A i \in 1 .. l : i <= a => i \in 1 .. Len(g) /\ g[i] = f[i]
  <2>1. \A i \in 1 .. l : i <= a => i \in 1 .. a /\ i \in 1 .. Len(g)
    BY <1>1, <1>2
  <2>2. QED
    BY <1>3, <2>1
<1>10. \A i \in 1 .. l : i >= c => i + shift \in 1 .. Len(g) /\ g[i + shift] = f[i]
  <2>1. \A i \in 1 .. l : i >= c => i \in c .. l /\ i + shift \in 1 .. Len(g)
    BY <1>1, <1>2
  <2>2. QED
    BY <1>3, <2>1
<1> HIDE DEF shift
<1>11. ASSUME NEW k \in 1 .. Len(lines)
       PROVE  \E i \in 1 .. Len(g) : g[i] = lines[k] /\ Out(g, i)
  <2>1. PICK i \in 1 .. l : f[i] = lines[k] /\ Out(f, i)
    BY <1>1 DEF Exposed
  <2>2. StaysOut(f, a, m, c, i)
    <3>1. lines[k] \in UserLines
      OBVIOUS
    <3>2. QED
      BY <1>1, <2>1, <3>1 DEF AllStayOut
  <2>3. \/ i <= a /\ (NoneBefore(g, i) \/ NoneAfter(g, i))
        \/ i >= c /\ (NoneBefore(g, i + shift) \/ NoneAfter(g, i + shift))
    BY <1>5, <1>6, <1>7, <1>8, <2>1, <2>2 DEF StaysOut
  <2>4. QED
    BY <1>9, <1>10, <2>1, <2>3
<1>12. QED
  BY <1>11 DEF Exposed

LEMMA AroundMarkers ==
    ASSUME NEW f \in Seq(Lines), NEW s, s = At(f, "start"), NEW e, e = At(f, "end"),
           NEW i \in 1 .. Len(f), f[i] \in UserLines
    PROVE  /\ s # 0 => s \in 1 .. Len(f) /\ (NoneBefore(f, i) => i < s)
           /\ e # 0 => e \in 1 .. Len(f) /\ (NoneAfter(f, i) => i > e)
           /\ s = 0 => NoneBefore(f, i)
<1>1. /\ Len(f) \in Nat /\ s \in 0 .. Len(f) /\ e \in 0 .. Len(f)
      /\ s = 0 => \A j \in 1 .. Len(f) : f[j] # "start"
      /\ s # 0 => f[s] = "start"
      /\ e # 0 => f[e] = "end"
  BY AtIs
<1>2. "start" \notin UserLines /\ "end" \notin UserLines
  BY KindsOfLines DEF Ours
<1>3. s # 0 => s \in 1 .. Len(f) /\ i # s
  BY <1>1, <1>2
<1>4. e # 0 => e \in 1 .. Len(f) /\ i # e
  BY <1>1, <1>2
<1>5. s # 0 /\ NoneBefore(f, i) => i < s
  BY <1>1, <1>3 DEF NoneBefore
<1>6. e # 0 /\ NoneAfter(f, i) => i > e
  BY <1>1, <1>4 DEF NoneAfter
<1>7. s = 0 => NoneBefore(f, i)
  BY <1>1 DEF NoneBefore
<1>8. QED
  BY <1>3, <1>4, <1>5, <1>6, <1>7

LEMMA InstalledKeeps ==
    ASSUME NEW file \in Hooks, NEW lines \in Seq(UserLines)
    PROVE  /\ Exposed(Text(file), lines) => Exposed(Installed(file), lines)
           /\ Whole(Text(file)) /\ UserLinesAre(Text(file), lines)
                 => UserLinesAre(Installed(file), lines)
<1>1. PICK f, g, s, e : /\ f = Text(file) /\ g = Installed(file)
                        /\ s = At(f, "start") /\ e = At(f, "end")
  OBVIOUS
<1>2. f \in Seq(Lines) /\ Len(f) \in Nat /\ s \in 0 .. Len(f) /\ e \in 0 .. Len(f)
  BY <1>1, TextIs, AtIs
<1>3. /\ g \in Seq(Lines)
      /\ s = 0 => \E m : NewBlock(m) /\ IsSplice(f, Len(f), m, Len(f) + 1, g)
      /\ s # 0 /\ e = 0 => g = f
      /\ s # 0 /\ e # 0 => IsSplice(f, s - 1, Block, e + 1, g)
  BY <1>1, InstalledIs
<1>4. CASE s = 0
  <2>1. PICK m : NewBlock(m) /\ IsSplice(f, Len(f), m, Len(f) + 1, g)
    BY <1>3, <1>4
  <2>2. m \in Seq(Lines)
    BY <2>1 DEF NewBlock
  <2>3. PICK l \in Nat : l = Len(f)
    BY <1>2
  <2>4. l \in 0 .. Len(f) /\ l + 1 \in 1 .. Len(f) + 1 /\ l < l + 1
    BY <2>3
  <2>5. AllStayOut(f, l, m, l + 1)
    BY <1>1, <1>2, <1>4, <2>3, AroundMarkers DEF AllStayOut, StaysOut
  <2>6. Exposed(f, lines) => Exposed(g, lines)
    BY <1>2, <2>1, <2>2, <2>3, <2>4, <2>5, SpliceExposed
  <2>7. \A i \in 1 .. Len(m) : m[i] \notin UserLines
    <3>1. PICK n \in 1 .. 2 : Len(m) = n + 3
      BY <2>1 DEF NewBlock
    <3>2. n + 3 - 3 = n /\ n + 3 - 2 = n + 1 /\ n + 3 - 1 = n + 2
      OBVIOUS
    <3>3. /\ \A i \in 1 .. n : m[i] \in Neutral
          /\ m[n + 1] = "start" /\ m[n + 2] = "body" /\ m[n + 3] = "end"
      BY <2>1, <3>1, <3>2 DEF NewBlock
    <3>4. \A i \in 1 .. n + 3 : i \in 1 .. n \/ i = n + 1 \/ i = n + 2 \/ i = n + 3
      BY <3>1
    <3>5. \A i \in 1 .. n + 3 : m[i] \in Neutral \cup Ours
      BY <3>3, <3>4 DEF Ours
    <3>6. QED
      BY <3>1, <3>5, KindsOfLines
  <2>8. \A i \in 1 .. Len(f) : l < i /\ i < l + 1 => f[i] \notin UserLines
    BY <2>3
  <2>9. UserLinesAre(f, lines) => UserLinesAre(g, lines)
    BY <1>2, <2>1, <2>2, <2>3, <2>4, <2>7, <2>8, SpliceKeeps
  <2>10. QED
    BY <1>1, <2>6, <2>9
<1>5. CASE s # 0 /\ e = 0
  BY <1>1, <1>3, <1>5
<1>6. CASE s # 0 /\ e # 0
  <2>1. PICK a, c : a = s - 1 /\ c = e + 1
    OBVIOUS
  <2>2. a \in 0 .. Len(f) /\ c \in 1 .. Len(f) + 1 /\ Block \in Seq(Lines)
    BY <1>2, <1>6, <2>1, KindsOfLines
  <2>3. IsSplice(f, a, Block, c, g)
    BY <1>3, <1>6, <2>1
  <2>4. ASSUME NEW i \in 1 .. Len(f), f[i] \in UserLines, NoneBefore(f, i) \/ NoneAfter(f, i)
        PROVE  StaysOut(f, a, Block, c, i)
    <3>1. /\ NoneBefore(f, i) => i <= a
          /\ NoneAfter(f, i) => i >= c
      BY <1>1, <1>2, <1>6, <2>1, <2>4, AroundMarkers
    <3>2. QED
      BY <2>4, <3>1 DEF StaysOut
  <2>5. Exposed(f, lines) => Exposed(g, lines)
    BY <1>2, <2>2, <2>3, <2>4, SpliceExposed DEF AllStayOut
  <2>6. ASSUME Whole(f), UserLinesAre(f, lines)
        PROVE  UserLinesAre(g, lines)
    <3>1. PICK i \in 1 .. Len(f) : BlockAt(f, i)
      BY <1>1, <1>2, <1>6, <2>6, MarkersAre DEF Whole
    <3>2. a = i - 1 /\ c = i + 3 /\ a < c
      <4>1. s = i /\ e = i + 2
        BY <1>1, <1>2, <3>1, MarkersAre
      <4>2. QED
        BY <1>2, <2>1, <4>1
    <3>3. \A j \in 1 .. Len(f) : a < j /\ j < c => f[j] \notin UserLines
      <4>1. \A j \in 1 .. Len(f) : a < j /\ j < c => j = i \/ j = i + 1 \/ j = i + 2
        BY <1>2, <3>1, <3>2
      <4>2. f[i] \in Ours /\ f[i + 1] \in Ours /\ f[i + 2] \in Ours
        BY <1>2, <3>1, BlockIs DEF Ours
      <4>3. QED
        BY <4>1, <4>2, KindsOfLines
    <3>4. \A j \in 1 .. Len(Block) : Block[j] \notin UserLines
      <4>1. \A j \in 1 .. 3 : j = 1 \/ j = 2 \/ j = 3
        OBVIOUS
      <4>2. Block[1] \in Ours /\ Block[2] \in Ours /\ Block[3] \in Ours
        BY KindsOfLines DEF Ours
      <4>3. QED
        BY <4>1, <4>2, KindsOfLines
    <3>5. QED
      BY <1>2, <2>2, <2>3, <2>6, <3>2, <3>3, <3>4, SpliceKeeps
  <2>7. QED
    BY <1>1, <2>5, <2>6
<1>7. QED
  BY <1>4, <1>5, <1>6

LEMMA UninstalledKeeps ==
    ASSUME NEW file \in Hooks, NEW lines \in Seq(UserLines)
    PROVE  /\ Exposed(Text(file), lines) => Exposed(Text(Uninstalled(file)), lines)
           /\ Whole(Text(file)) /\ UserLinesAre(Text(file), lines)
                 => UserLinesAre(Text(Uninstalled(file)), lines)
<1>1. PICK f, g, s, e : /\ f = Text(file) /\ g = Uninstalled(file)
                        /\ s = At(f, "start") /\ e = At(f, "end")
  OBVIOUS
<1>2. f \in Seq(Lines) /\ Len(f) \in Nat /\ s \in 0 .. Len(f) /\ e \in 0 .. Len(f)
  BY <1>1, TextIs, AtIs
<1>3. /\ s = 0 \/ e = 0 => g = file
      /\ s # 0 /\ e # 0 =>
            \E a \in 0 .. s - 1, c \in e + 1 .. Len(f) + 1 :
               /\ IsSplice(f, a, <<>>, c, Text(g))
               /\ \A i \in 1 .. Len(f) : (a < i /\ i < s) \/ (e < i /\ i < c) => f[i] \in Neutral
  BY <1>1, UninstalledIs
<1>4. CASE s = 0 \/ e = 0
  BY <1>1, <1>3, <1>4
<1>5. CASE s # 0 /\ e # 0
  <2>1. PICK a \in 0 .. s - 1, c \in e + 1 .. Len(f) + 1 :
           /\ IsSplice(f, a, <<>>, c, Text(g))
           /\ \A i \in 1 .. Len(f) : (a < i /\ i < s) \/ (e < i /\ i < c) => f[i] \in Neutral
    BY <1>3, <1>5
  <2>2. PICK m, h : m = <<>> /\ h = Text(g)
    OBVIOUS
  <2>3. /\ a \in 0 .. Len(f) /\ c \in 1 .. Len(f) + 1 /\ a < s /\ e < c
    BY <1>2, <2>1
  <2>4. m \in Seq(Lines) /\ Len(m) = 0 /\ IsSplice(f, a, m, c, h)
    BY <2>1, <2>2
  <2>5. ASSUME NEW i \in 1 .. Len(f), (a < i /\ i < s) \/ (e < i /\ i < c)
        PROVE  f[i] \notin UserLines
    <3>1. f[i] \in Neutral
      BY <2>1, <2>5
    <3>2. QED
      BY <3>1, KindsOfLines
  <2>6. ASSUME NEW i \in 1 .. Len(f), f[i] \in UserLines, NoneBefore(f, i) \/ NoneAfter(f, i)
        PROVE  StaysOut(f, a, m, c, i)
    <3>1. /\ NoneBefore(f, i) => i < s
          /\ NoneAfter(f, i) => i > e
      BY <1>1, <1>2, <1>5, <2>6, AroundMarkers
    <3>2. ~ (a < i /\ i < s) /\ ~ (e < i /\ i < c)
      BY <1>2, <2>3, <2>5, <2>6
    <3>3. /\ NoneBefore(f, i) => i <= a
          /\ NoneAfter(f, i) => i >= c
      BY <1>2, <2>1, <2>3, <3>1, <3>2
    <3>4. QED
      BY <2>6, <3>3 DEF StaysOut
  <2>7. Exposed(f, lines) => Exposed(h, lines)
    BY <1>2, <2>3, <2>4, <2>6, SpliceExposed DEF AllStayOut
  <2>8. ASSUME Whole(f), UserLinesAre(f, lines)
        PROVE  UserLinesAre(h, lines)
    <3>1. PICK i \in 1 .. Len(f) : BlockAt(f, i)
      BY <1>1, <1>2, <1>5, <2>8, MarkersAre DEF Whole
    <3>2. s = i /\ e = i + 2
      BY <1>1, <1>2, <3>1, MarkersAre
    <3>3. \A j \in 1 .. Len(f) : a < j /\ j < c => f[j] \notin UserLines
      <4>1. \A j \in 1 .. Len(f) : a < j /\ j < c =>
               \/ (a < j /\ j < s) \/ (e < j /\ j < c)
               \/ j = i \/ j = i + 1 \/ j = i + 2
        BY <1>2, <3>1, <3>2
      <4>2. f[i] \in Ours /\ f[i + 1] \in Ours /\ f[i + 2] \in Ours
        BY <1>2, <3>1, BlockIs DEF Ours
      <4>3. QED
        BY <2>5, <4>1, <4>2, KindsOfLines
    <3>4. a < c
      BY <1>2, <2>1, <2>3, <3>1, <3>2
    <3>5. \A j \in 1 .. Len(m) : m[j] \notin UserLines
      BY <2>4
    <3>6. QED
      BY <1>2, <2>3, <2>4, <2>8, <3>3, <3>4, <3>5, SpliceKeeps
  <2>9. QED
    BY <1>1, <2>2, <2>7, <2>8
<1>6. QED
  BY <1>4, <1>5

LEMMA CutExposed ==
    ASSUME NEW f \in Seq(Lines), NEW p \in 1 .. Len(f), f[p] \notin UserLines,
           NEW g, g = UpTo(f, p - 1) \o From(f, p + 1),
           NEW lines \in Seq(UserLines), Exposed(f, lines)
    PROVE  g \in Seq(Lines) /\ Exposed(g, lines)
<1>1. PICK a, c, m : a = p - 1 /\ c = p + 1 /\ m = <<>>
  OBVIOUS
<1>2. /\ a \in 0 .. Len(f) /\ c \in 1 .. Len(f) + 1 /\ a < c
      /\ \A i \in 1 .. Len(f) : i = p \/ i <= a \/ i >= c
  BY <1>1
<1>3. m \in Seq(Lines) /\ Len(m) = 0
  BY <1>1
<1>4. IsSplice(f, a, m, c, g)
  <2>1. IsSplice(f, a, m, c, UpTo(f, a) \o m \o From(f, c))
    BY <1>2, <1>3, SplicedIs
  <2>2. UpTo(f, a) \o m = UpTo(f, a)
    BY <1>1, <1>2, UpToIs
  <2>3. QED
    BY <1>1, <2>1, <2>2
<1>5. \A j \in 1 .. Len(m) : m[j] # "start" /\ m[j] # "end"
  BY <1>3
<1>6. ASSUME NEW i \in 1 .. Len(f), f[i] \in UserLines, NoneBefore(f, i) \/ NoneAfter(f, i)
      PROVE  StaysOut(f, a, m, c, i)
  BY <1>2, <1>5, <1>6 DEF StaysOut
<1>7. Exposed(g, lines)
  <2>1. AllStayOut(f, a, m, c)
    BY <1>6 DEF AllStayOut
  <2>2. QED
    BY <1>2, <1>3, <1>4, <2>1, SpliceExposed
<1>8. QED
  BY <1>4, <1>7 DEF IsSplice

LEMMA AppendExposed ==
    ASSUME NEW f \in Seq(Lines), NEW u \in UserLines,
           NEW lines \in Seq(UserLines), Exposed(f, lines)
    PROVE  Exposed(Append(f, u), Append(lines, u))
<1>1. PICK g, k, l, n : g = Append(f, u) /\ k = Append(lines, u) /\ l = Len(f) /\ n = Len(lines)
  OBVIOUS
<1>2. /\ g \in Seq(Lines) /\ Len(g) = l + 1 /\ g[l + 1] = u
      /\ \A j \in 1 .. l : g[j] = f[j]
  BY <1>1, AppendIs
<1>3. l \in Nat /\ n \in Nat /\ Len(k) = n + 1 /\ k[n + 1] = u /\ \A j \in 1 .. n : k[j] = lines[j]
  BY <1>1
<1>4. u # "end"
  BY UserNotOurs DEF Ours
<1>5. \A j \in 1 .. l + 1 : j \in 1 .. l \/ j = l + 1
  BY <1>3
<1>6. \A i \in 1 .. l : i \in 1 .. l + 1 /\ (NoneBefore(f, i) => NoneBefore(g, i))
                                         /\ (NoneAfter(f, i) => NoneAfter(g, i))
  <2>1. \A i \in 1 .. l : i \in 1 .. l + 1 /\ ~ (l + 1 < i)
    BY <1>3
  <2>2. QED
    BY <1>1, <1>2, <1>4, <1>5, <2>1 DEF NoneBefore, NoneAfter
<1>7. ASSUME NEW j \in 1 .. n + 1
      PROVE  \E i \in 1 .. l + 1 : g[i] = k[j] /\ (NoneBefore(g, i) \/ NoneAfter(g, i))
  <2>1. CASE j = n + 1
    <3>1. NoneAfter(g, l + 1)
      <4>1. \A i \in 1 .. l + 1 : ~ (i > l + 1)
        BY <1>3
      <4>2. QED
        BY <1>2, <4>1 DEF NoneAfter
    <3>2. l + 1 \in 1 .. l + 1
      BY <1>3
    <3>3. QED
      BY <1>2, <1>3, <2>1, <3>1, <3>2
  <2>2. CASE j # n + 1
    <3>1. j \in 1 .. n
      BY <1>3, <2>2
    <3>2. PICK i \in 1 .. l : f[i] = lines[j] /\ (NoneBefore(f, i) \/ NoneAfter(f, i))
      BY <1>1, <3>1 DEF Exposed
    <3>3. QED
      BY <1>2, <1>3, <1>6, <3>1, <3>2
  <2>3. QED
    BY <2>1, <2>2
<1>8. QED
  BY <1>1, <1>2, <1>3, <1>7 DEF Exposed

LEMMA PrependExposed ==
    ASSUME NEW f \in Seq(Lines), NEW u \in UserLines,
           NEW lines \in Seq(UserLines), Exposed(f, lines)
    PROVE  Exposed(<<u>> \o f, <<u>> \o lines)
<1>1. PICK g, k, l, n : g = <<u>> \o f /\ k = <<u>> \o lines /\ l = Len(f) /\ n = Len(lines)
  OBVIOUS
<1>2. /\ g \in Seq(Lines) /\ Len(g) = l + 1 /\ g[1] = u
      /\ \A j \in 1 .. l : g[j + 1] = f[j]
  <2>1. IsPrepended(f, u, g)
    BY <1>1, PrependIs
  <2>2. QED
    BY <1>1, <2>1 DEF IsPrepended
<1>3. /\ l \in Nat /\ n \in Nat /\ Len(k) = n + 1 /\ k[1] = u
      /\ \A j \in 1 .. n : k[j + 1] = lines[j]
  <2>1. lines \in Seq(Lines)
    BY UserNotOurs
  <2>2. IsPrepended(lines, u, k)
    BY <1>1, <2>1, PrependIs
  <2>3. QED
    BY <1>1, <2>2 DEF IsPrepended
<1>4. u # "start"
  BY UserNotOurs DEF Ours
<1>5. \A j \in 1 .. l + 1 : j = 1 \/ (j - 1 \in 1 .. l /\ (j - 1) + 1 = j)
  BY <1>3
<1>6. ASSUME NEW i \in 1 .. l
      PROVE  /\ i + 1 \in 1 .. l + 1
             /\ NoneBefore(f, i) => NoneBefore(g, i + 1)
             /\ NoneAfter(f, i) => NoneAfter(g, i + 1)
  <2>1. i + 1 \in 1 .. l + 1 /\ ~ (1 > i + 1)
    BY <1>3
  <2>2. \A j \in 1 .. l + 1 : /\ j < i + 1 => j = 1 \/ j - 1 < i
                              /\ j > i + 1 => j # 1 /\ j - 1 > i
    BY <1>3
  <2>3. \A j \in 1 .. l + 1 : j = 1 \/ (j - 1 \in 1 .. l /\ g[j] = f[j - 1])
    BY <1>2, <1>5
  <2>4. NoneBefore(f, i) => NoneBefore(g, i + 1)
    BY <1>1, <1>2, <1>4, <2>2, <2>3 DEF NoneBefore
  <2>5. NoneAfter(f, i) => NoneAfter(g, i + 1)
    BY <1>1, <1>2, <2>2, <2>3 DEF NoneAfter
  <2>6. QED
    BY <2>1, <2>4, <2>5
<1>7. ASSUME NEW j \in 1 .. n + 1
      PROVE  \E i \in 1 .. l + 1 : g[i] = k[j] /\ (NoneBefore(g, i) \/ NoneAfter(g, i))
  <2>1. CASE j = 1
    <3>1. NoneBefore(g, 1)
      <4>1. \A i \in 1 .. l + 1 : ~ (i < 1)
        BY <1>3
      <4>2. QED
        BY <1>2, <4>1 DEF NoneBefore
    <3>2. 1 \in 1 .. l + 1
      BY <1>3
    <3>3. QED
      BY <1>2, <1>3, <2>1, <3>1, <3>2
  <2>2. CASE j # 1
    <3>1. j - 1 \in 1 .. n /\ (j - 1) + 1 = j
      BY <1>3, <2>2
    <3>2. PICK i \in 1 .. l : f[i] = lines[j - 1] /\ (NoneBefore(f, i) \/ NoneAfter(f, i))
      BY <1>1, <3>1 DEF Exposed
    <3>3. g[i + 1] = k[j]
      <4>1. k[(j - 1) + 1] = lines[j - 1]
        BY <1>3, <3>1
      <4>2. QED
        BY <1>2, <3>1, <3>2, <4>1
    <3>4. QED
      BY <1>6, <3>2, <3>3
  <2>3. QED
    BY <2>1, <2>2
<1>8. QED
  BY <1>1, <1>2, <1>3, <1>7 DEF Exposed

LEMMA AppendKeeps ==
    ASSUME NEW f \in Seq(Lines), NEW u \in UserLines,
           NEW lines \in Seq(UserLines), UserLinesAre(f, lines)
    PROVE  UserLinesAre(Append(f, u), Append(lines, u))
<1>1. PICK g, k, l, n, S, T : /\ g = Append(f, u) /\ k = Append(lines, u)
                              /\ l = Len(f) /\ n = Len(lines)
                              /\ S = UserAt(f) /\ T = UserAt(g)
  OBVIOUS
<1>2. /\ l \in Nat /\ g \in Seq(Lines) /\ Len(g) = l + 1 /\ g[l + 1] = u
      /\ \A j \in 1 .. l : g[j] = f[j]
  BY <1>1, AppendIs
<1>3. /\ n \in Nat /\ Len(k) = n + 1 /\ k[n + 1] = u
      /\ \A j \in 1 .. n : k[j] = lines[j]
  BY <1>1
<1>4. S = {i \in 1 .. l : f[i] \in UserLines} /\ IsFiniteSet(S) /\ Cardinality(S) = n
  BY <1>1, UserAtIs DEF UserLinesAre
<1>5. T = {i \in 1 .. l + 1 : g[i] \in UserLines}
  BY <1>1, <1>2, UserAtIs
<1>6. \A i : i \in 1 .. l + 1 <=> i \in 1 .. l \/ i = l + 1
  BY <1>2
<1>7. T = S \cup {l + 1} /\ l + 1 \notin S
  <2>1. l + 1 \notin 1 .. l
    BY <1>2
  <2>2. QED
    BY <1>2, <1>4, <1>5, <1>6, <2>1
<1>8. Cardinality(T) = n + 1
  BY <1>4, <1>7, FS_AddElement
<1>9. ASSUME NEW i \in S
      PROVE  g[i] = k[Place(g, i)]
  <2>1. i \in 1 .. l /\ ~ (l + 1 <= i)
    BY <1>2, <1>4
  <2>2. Below(T, i) = Below(S, i)
    BY <1>7, <2>1 DEF Below
  <2>3. Place(g, i) = Place(f, i) /\ Place(f, i) \in 1 .. n
    BY <1>1, <1>4, <2>2, PlaceIs DEF Place
  <2>4. f[i] = lines[Place(f, i)]
    BY <1>1, LinesByPlace
  <2>5. QED
    BY <1>2, <1>3, <2>1, <2>3, <2>4
<1>10. g[l + 1] = k[Place(g, l + 1)]
  <2>1. \A i \in T : i <= l + 1
    BY <1>2, <1>5
  <2>2. Below(T, l + 1) = T
    BY <2>1 DEF Below
  <2>3. Place(g, l + 1) = n + 1
    BY <1>1, <1>8, <2>2 DEF Place
  <2>4. QED
    BY <1>2, <1>3, <2>3
<1>11. UserLinesAre(g, k)
  <2>1. \A i \in UserAt(g) : g[i] = k[Place(g, i)]
    BY <1>1, <1>7, <1>9, <1>10
  <2>2. Len(k) = Cardinality(UserAt(g))
    BY <1>1, <1>3, <1>8
  <2>3. QED
    BY <2>1, <2>2, LinesByPlace
<1>12. QED
  BY <1>1, <1>11

LEMMA PrependKeeps ==
    ASSUME NEW f \in Seq(Lines), NEW u \in UserLines,
           NEW lines \in Seq(UserLines), UserLinesAre(f, lines)
    PROVE  UserLinesAre(<<u>> \o f, <<u>> \o lines)
<1>1. PICK g, k, l, n, S, T, M : /\ g = <<u>> \o f /\ k = <<u>> \o lines
                                 /\ l = Len(f) /\ n = Len(lines)
                                 /\ S = UserAt(f) /\ T = UserAt(g) /\ M = {i + 1 : i \in S}
  OBVIOUS
<1>2. /\ l \in Nat /\ g \in Seq(Lines) /\ Len(g) = l + 1 /\ g[1] = u
      /\ \A j \in 1 .. l : g[j + 1] = f[j]
  <2>1. IsPrepended(f, u, g)
    BY <1>1, PrependIs
  <2>2. QED
    BY <1>1, <2>1 DEF IsPrepended
<1>3. /\ n \in Nat /\ Len(k) = n + 1 /\ k[1] = u
      /\ \A j \in 1 .. n : k[j + 1] = lines[j]
  <2>1. lines \in Seq(Lines)
    BY DEF Lines
  <2>2. IsPrepended(lines, u, k)
    BY <1>1, <2>1, PrependIs
  <2>3. QED
    BY <1>1, <2>2 DEF IsPrepended
<1>4. S = {i \in 1 .. l : f[i] \in UserLines} /\ IsFiniteSet(S) /\ Cardinality(S) = n
  BY <1>1, UserAtIs DEF UserLinesAre
<1>5. T = {i \in 1 .. l + 1 : g[i] \in UserLines}
  BY <1>1, <1>2, UserAtIs
<1>6. \A i : i \in 1 .. l + 1 <=> i = 1 \/ \E j \in 1 .. l : i = j + 1
  <2>1. ASSUME NEW i
        PROVE  i \in 1 .. l + 1 <=> i = 1 \/ \E j \in 1 .. l : i = j + 1
    <3>1. i \in 1 .. l + 1 => i = 1 \/ (i - 1 \in 1 .. l /\ i = (i - 1) + 1)
      BY <1>2
    <3>2. (i = 1 => i \in 1 .. l + 1) /\ \A j \in 1 .. l : i = j + 1 => i \in 1 .. l + 1
      BY <1>2
    <3>3. QED
      BY <3>1, <3>2
  <2>2. QED
    BY <2>1
<1>7. T = M \cup {1} /\ 1 \notin M
  <2>1. \A i \in 1 .. l : i + 1 # 1
    OBVIOUS
  <2>2. 1 \notin M
    BY <1>1, <1>4, <2>1
  <2>3. \A i \in 1 .. l : g[i + 1] \in UserLines <=> i \in S
    BY <1>2, <1>4
  <2>4. \A i \in M : i \in T
    BY <1>1, <1>4, <1>5, <1>6, <2>3
  <2>5. \A i \in T : i = 1 \/ i \in M
    BY <1>1, <1>5, <1>6, <2>3
  <2>6. 1 \in T
    BY <1>2, <1>5, <1>6
  <2>7. QED
    BY <2>2, <2>4, <2>5, <2>6
<1>8. /\ IsFiniteSet(M) /\ Cardinality(M) = n
      /\ \A i \in S : Cardinality(Below(M, i + 1)) = Cardinality(Below(S, i))
  <2>1. PICK t : t = [i \in S |-> i + 1]
    OBVIOUS
  <2>2. S \in SUBSET Nat /\ M \in SUBSET Nat
    BY <1>1, <1>4
  <2>3. InOrder(t, S, M)
    <3>1. t \in [S -> M]
      BY <1>1, <2>1
    <3>2. \A i, j \in S : i < j => t[i] < t[j]
      BY <2>1, <2>2
    <3>3. \A i \in M : \E j \in S : t[j] = i
      BY <1>1, <2>1
    <3>4. QED
      BY <3>1, <3>2, <3>3 DEF InOrder
  <2>4. SameRanks(t, S, M)
    <3>1. S \in SUBSET Nat /\ M \in SUBSET Nat /\ IsFiniteSet(S) /\ InOrder(t, S, M)
      BY <1>4, <2>2, <2>3
    <3>2. QED
      BY <3>1, MovedInOrder
  <2>5. M \subseteq T /\ IsFiniteSet(T)
    BY <1>1, <1>2, <1>7, UserAtIs
  <2>6. IsFiniteSet(M)
    BY <2>5, FS_Subset
  <2>7. QED
    BY <1>4, <2>1, <2>4, <2>6 DEF SameRanks
<1>9. Cardinality(T) = n + 1
  BY <1>7, <1>8, FS_AddElement
<1>10. ASSUME NEW i \in S
       PROVE  g[i + 1] = k[Place(g, i + 1)]
  <2>1. i \in 1 .. l /\ 1 <= i + 1
    BY <1>2, <1>4
  <2>2. Below(T, i + 1) = Below(M, i + 1) \cup {1} /\ 1 \notin Below(M, i + 1)
    BY <1>7, <2>1 DEF Below
  <2>3. IsFiniteSet(Below(M, i + 1))
    <3>1. Below(M, i + 1) \subseteq M
      BY DEF Below
    <3>2. QED
      BY <1>8, <3>1, FS_Subset
  <2>4. Place(g, i + 1) = Place(f, i) + 1
    <3>1. Cardinality(Below(T, i + 1)) = Cardinality(Below(M, i + 1)) + 1
      BY <2>2, <2>3, FS_AddElement
    <3>2. QED
      BY <1>1, <1>8, <3>1 DEF Place
  <2>5. Place(f, i) \in 1 .. n
    BY <1>1, <1>4, PlaceIs
  <2>6. f[i] = lines[Place(f, i)]
    BY <1>1, LinesByPlace
  <2>7. QED
    BY <1>2, <1>3, <2>1, <2>4, <2>5, <2>6
<1>11. g[1] = k[Place(g, 1)]
  <2>1. \A i \in T : i <= 1 <=> i = 1
    BY <1>2, <1>5
  <2>2. Below(T, 1) = {1}
    BY <1>7, <2>1 DEF Below
  <2>3. Place(g, 1) = 1
    BY <1>1, <2>2, FS_Singleton DEF Place
  <2>4. QED
    BY <1>2, <1>3, <2>3
<1>12. UserLinesAre(g, k)
  <2>1. \A i \in UserAt(g) : g[i] = k[Place(g, i)]
    <3>1. ASSUME NEW i \in T
          PROVE  g[i] = k[Place(g, i)]
      <4>1. i = 1 \/ \E j \in S : i = j + 1
        BY <1>1, <1>7
      <4>2. QED
        BY <1>10, <1>11, <4>1
    <3>2. QED
      BY <1>1, <3>1
  <2>2. Len(k) = Cardinality(UserAt(g))
    BY <1>1, <1>3, <1>9
  <2>3. QED
    BY <2>1, <2>2, LinesByPlace
<1>13. QED
  BY <1>1, <1>12

-----------------------------------------------------------------------------
(* The invariants of the hook.                                               *)
HookDone == \/ outcome = "ok"
            \/ step \in {"read ignore", "truncate ignore", "fill ignore", "done"} /\ id # 0

(* The file on disk, and the one that is read and will be written, have at   *)
(* most one block, and it is whole; an init that came past the hook without  *)
(* a warning has installed this release's.                                   *)
HookInv ==
    /\ content = [f \in Files |-> content[f]]
    /\ content["hook"] \in Hooks
    /\ step \in {"truncate hook", "fill hook"} => loaded \in Hooks
    /\ ~ edited => /\ Whole(Text(content["hook"]))
                   /\ step \in {"truncate hook", "fill hook"} => Whole(Text(loaded))
    /\ ~ edited /\ ~ warned /\ HookDone => Installs(Text(content["hook"]))

LEMMA FilesAre ==
    /\ Files = {"hook", "ignore"} /\ "hook" \in Files /\ "ignore" \in Files
    /\ Rewrite["hook"].read = "read hook" /\ Rewrite["hook"].truncate = "truncate hook"
    /\ Rewrite["hook"].fill = "fill hook" /\ Rewrite["hook"].next = "read ignore"
    /\ Rewrite["ignore"].read = "read ignore" /\ Rewrite["ignore"].truncate = "truncate ignore"
    /\ Rewrite["ignore"].fill = "fill ignore" /\ Rewrite["ignore"].next = "done"
  BY DEF Files, Rewrite

LEMMA EmptyHook == <<>> \in Hooks /\ Text(<<>>) = <<>> /\ Whole(<<>>)
  BY HookAssumption DEF Hooks, Text, Whole, Bare

\* What an init does before it comes to the hook, and at its end.
Aside == \/ BeginInit \/ MakeSynthDir \/ CreateConfig \/ WriteConfig \/ OpenStore
         \/ FailEarly \/ Fail \/ EndInit

LEMMA AsideIs ==
    ASSUME InitInv, Aside
    PROVE  /\ UNCHANGED userFiles
           /\ step \notin {"read hook", "truncate hook", "fill hook",
                           "read ignore", "truncate ignore", "fill ignore"}
           /\ step' \notin {"truncate hook", "fill hook",
                            "read ignore", "truncate ignore", "fill ignore"}
           /\ HookDone' => HookDone /\ UNCHANGED warned
<1> USE DEF InitInv, HookDone, userFiles, initRun, counters
<1>1. CASE BeginInit
  BY <1>1 DEF BeginInit
<1>2. CASE MakeSynthDir
  BY <1>2 DEF MakeSynthDir
<1>3. CASE CreateConfig
  BY <1>3 DEF CreateConfig
<1>4. CASE WriteConfig
  BY <1>4 DEF WriteConfig
<1>5. CASE OpenStore
  BY <1>5 DEF OpenStore
<1>6. CASE FailEarly
  BY <1>6 DEF FailEarly, End
<1>7. CASE Fail
  BY <1>7 DEF Fail, End
<1>8. CASE EndInit
  BY <1>8 DEF EndInit, End
<1>9. QED
  BY <1>1, <1>2, <1>3, <1>4, <1>5, <1>6, <1>7, <1>8 DEF Aside

LEMMA UserActsIs ==
    ASSUME UserActs
    PROVE  step = "idle" /\ step' = "idle" /\ ~ HookDone' /\ UNCHANGED <<loaded, warned, id>>
  BY DEF UserActs, HookDone

\* What the user makes of the hook.
LEMMA UserStepIs ==
    ASSUME HookInv, UserStep
    PROVE  /\ UserActs /\ UNCHANGED torn
           /\ content' = [f \in Files |-> content'[f]]
           /\ content'["ignore"] = content["ignore"]
           /\ \/ \E u \in UserLines :
                    /\ content["hook"] \in Seq(Lines) /\ UNCHANGED edited
                    /\ content'["hook"] = Append(content["hook"], u)
                    /\ userHook' = Append(userHook, u)
              \/ \E u \in UserLines :
                    /\ content["hook"] \in Seq(Lines) /\ UNCHANGED edited
                    /\ content'["hook"] = <<u>> \o content["hook"]
                    /\ userHook' = <<u>> \o userHook
              \/ \E p \in 1 .. Len(content["hook"]) :
                    /\ content["hook"] \in Seq(Lines) /\ content["hook"][p] \notin UserLines
                    /\ content'["hook"] =
                          UpTo(content["hook"], p - 1) \o From(content["hook"], p + 1)
                    /\ edited' = TRUE /\ UNCHANGED userHook
              \/ UNCHANGED <<edited, userHook>> /\ content'["hook"] = content["hook"]
              \/ UNCHANGED <<edited, userHook>> /\ content'["hook"] = Uninstalled(content["hook"])
<1> DEFINE h == content["hook"]
<1>0. /\ content = [f \in Files |-> content[f]] /\ h \in Hooks
      /\ h # NoFile => h \in Seq(Lines)
  BY DEF HookInv, Hooks
<1>1. ASSUME NEW u \in UserLines, AddUserLine(u)
      PROVE  /\ UserActs /\ UNCHANGED <<torn, edited>> /\ h \in Seq(Lines)
             /\ \/ /\ content' = [content EXCEPT !["hook"] = Append(h, u)]
                   /\ userHook' = Append(userHook, u)
                \/ /\ content' = [content EXCEPT !["hook"] = <<u>> \o h]
                   /\ userHook' = <<u>> \o userHook
  BY <1>0, <1>1 DEF AddUserLine
<1>2. ASSUME NEW m \in {"start", "end"}, CutMarker(m)
      PROVE  /\ UserActs /\ UNCHANGED <<torn, userHook>> /\ h \in Seq(Lines) /\ edited' = TRUE
             /\ \E p \in 1 .. Len(h) :
                   /\ h[p] \notin UserLines
                   /\ content' = [content EXCEPT !["hook"] = UpTo(h, p - 1) \o From(h, p + 1)]
  <2>1. /\ UserActs /\ UNCHANGED <<torn, userHook>> /\ h \in Seq(Lines) /\ edited' = TRUE
        /\ At(h, m) # 0
        /\ content' = [content EXCEPT !["hook"] = UpTo(h, At(h, m) - 1) \o From(h, At(h, m) + 1)]
    BY <1>0, <1>2 DEF CutMarker
  <2>2. At(h, m) \in 1 .. Len(h) /\ h[At(h, m)] = m
    BY <2>1, AtIs
  <2>3. m \notin UserLines
    BY KindsOfLines DEF Ours
  <2>4. QED
    BY <2>1, <2>2, <2>3
<1>3. CASE RemoveProject
  BY <1>0, <1>3 DEF RemoveProject, userFiles
<1>4. ASSUME UninstallHook
      PROVE  /\ UserActs /\ UNCHANGED <<torn, userHook, edited>>
             /\ content' = [content EXCEPT !["hook"] = Uninstalled(h)]
  BY <1>4 DEF UninstallHook
<1>5. ASSUME NEW new, content' = [content EXCEPT !["hook"] = new]
      PROVE  /\ content' = [f \in Files |-> content'[f]]
             /\ content'["hook"] = new /\ content'["ignore"] = content["ignore"]
  BY <1>0, <1>5, FilesAre
<1>6. QED
  BY <1>1, <1>2, <1>3, <1>4, <1>5 DEF UserStep

LEMMA SixLines ==
    ASSUME NEW a \in Lines, NEW b \in Lines, NEW c \in Lines,
           NEW d \in Lines, NEW e \in Lines, NEW f \in Lines
    PROVE  <<a, b, c, d, e, f>> \in Seq(Lines) /\ Len(<<a, b, c, d, e, f>>) = 6
<1>1. <<a, b, c, d, e, f>> \in Seq(Lines)
  OBVIOUS
<1>2. Len(<<a, b, c, d, e, f>>) = 6
  OBVIOUS
<1>3. QED
  BY <1>1, <1>2

LEMMA OldHooksWhole ==
    ASSUME NEW old \in OldHooks
    PROVE  /\ old \in Hooks /\ Whole(Text(old))
           /\ old # NoFile => /\ old \in Seq(Lines) /\ Len(old) >= 2
                              /\ old[2] \in UserLines /\ old[1] \notin UserLines
                              /\ old[1] # "start"
                              /\ \A j \in 3 .. Len(old) : old[j] \notin UserLines
<1>1. CASE old = NoFile
  BY <1>1, EmptyHook DEF Text, Hooks
<1>2. ASSUME NEW u \in UserLines, old = <<"sh", u>>
      PROVE  /\ old \in Seq(Lines) /\ Len(old) = 2 /\ old[1] = "sh" /\ old[2] = u
             /\ Whole(old)
  <2>1. {"sh", u} \subseteq Lines
    BY UserNotOurs, KindsOfLines DEF Neutral
  <2>2. old \in Seq(Lines) /\ Len(old) = 2 /\ old[1] = "sh" /\ old[2] = u
    BY <1>2, <2>1
  <2>3. "sh" \notin Ours
    BY DEF Ours
  <2>4. Bare(old)
    BY <2>2, <2>3, UserNotOurs DEF Bare
  <2>5. QED
    BY <2>2, <2>4 DEF Whole
<1>3. ASSUME NEW u \in UserLines, old = <<"sh", u, "blank", "start", "old body", "end">>
      PROVE  /\ old \in Seq(Lines) /\ Len(old) = 6 /\ old[1] = "sh" /\ old[2] = u
             /\ old[3] \in Neutral
             /\ old[4] \in Ours /\ old[5] \in Ours /\ old[6] \in Ours
             /\ Whole(old)
  <2>1. /\ "sh" \in Lines /\ u \in Lines /\ "blank" \in Lines /\ "start" \in Lines
        /\ "old body" \in Lines /\ "end" \in Lines
    BY UserNotOurs, KindsOfLines DEF Neutral, Ours
  <2>2. old \in Seq(Lines) /\ Len(old) = 6
    BY <1>3, <2>1, SixLines
  <2>3. /\ old[1] = "sh" /\ old[2] = u /\ old[3] = "blank" /\ old[4] = "start"
        /\ old[5] = "old body" /\ old[6] = "end"
    BY <1>3
  <2>4. /\ "sh" \notin Ours /\ "blank" \notin Ours /\ "blank" \in Neutral
        /\ "start" \in Ours /\ "old body" \in Ours /\ "end" \in Ours
    BY DEF Ours, Neutral
  <2>5. BlockAt(old, 4)
    <3>1. 4 \in 1 .. 6 - 2 /\ 4 + 1 = 5 /\ 4 + 2 = 6
      OBVIOUS
    <3>2. \A j \in 1 .. 6 : j < 4 \/ j > 6 => j = 1 \/ j = 2 \/ j = 3
      OBVIOUS
    <3>3. old[1] \notin Ours /\ old[2] \notin Ours /\ old[3] \notin Ours
      BY <2>3, <2>4, UserNotOurs
    <3>4. QED
      BY <2>2, <2>3, <3>1, <3>2, <3>3 DEF BlockAt
  <2>6. Whole(old)
    <3>1. 4 \in 1 .. Len(old)
      BY <2>2
    <3>2. QED
      BY <2>5, <3>1 DEF Whole
  <2>7. QED
    BY <2>2, <2>3, <2>4, <2>6
<1>4. \/ old = NoFile
      \/ \E u \in UserLines : old = <<"sh", u>>
      \/ \E u \in UserLines : old = <<"sh", u, "blank", "start", "old body", "end">>
  BY DEF OldHooks
<1>5. "sh" \notin UserLines /\ "sh" # "start"
  BY KindsOfLines DEF Neutral
<1>6. ASSUME old \in Seq(Lines)
      PROVE  Text(old) = old /\ old \in Hooks
  BY <1>6, HookAssumption DEF Text, Hooks
<1>7. CASE \E u \in UserLines : old = <<"sh", u>>
  <2>1. PICK u \in UserLines : old = <<"sh", u>>
    BY <1>7
  <2>2. /\ old \in Seq(Lines) /\ Len(old) = 2 /\ old[1] = "sh" /\ old[2] = u /\ Whole(old)
    BY <1>2, <2>1
  <2>3. \A j \in 3 .. 2 : FALSE
    OBVIOUS
  <2>4. QED
    BY <1>5, <1>6, <2>1, <2>2, <2>3
<1>8. CASE \E u \in UserLines : old = <<"sh", u, "blank", "start", "old body", "end">>
  <2>1. PICK u \in UserLines : old = <<"sh", u, "blank", "start", "old body", "end">>
    BY <1>8
  <2>2. /\ old \in Seq(Lines) /\ Len(old) = 6 /\ old[1] = "sh" /\ old[2] = u
        /\ old[3] \in Neutral /\ old[4] \in Ours /\ old[5] \in Ours /\ old[6] \in Ours
        /\ Whole(old)
    BY <1>3, <2>1
  <2>3. \A j \in 3 .. 6 : j = 3 \/ j = 4 \/ j = 5 \/ j = 6
    OBVIOUS
  <2>4. \A j \in 3 .. Len(old) : old[j] \notin UserLines
    BY <2>2, <2>3, KindsOfLines
  <2>5. Len(old) >= 2
    BY <2>2
  <2>6. Text(old) = old /\ old \in Hooks
    BY <1>6, <2>2
  <2>7. old[2] \in UserLines /\ old[1] \notin UserLines /\ old[1] # "start"
    BY <1>5, <2>2
  <2>8. QED
    BY <2>2, <2>4, <2>5, <2>6, <2>7
<1>9. QED
  BY <1>1, <1>4, <1>7, <1>8

LEMMA HookInvInit == ProjectInit => HookInv
<1> SUFFICES ASSUME ProjectInit
             PROVE  HookInv
    OBVIOUS
<1>1. PICK old \in OldHooks :
         content = [f \in Files |-> IF f = "hook" THEN old ELSE <<"pattern">>]
  BY DEF ProjectInit
<1>2. content["hook"] = old /\ content = [f \in Files |-> content[f]]
  BY <1>1, FilesAre
<1>3. step = "idle" /\ outcome = "none"
  BY DEF ProjectInit
<1>4. QED
  BY <1>2, <1>3, OldHooksWhole DEF HookInv, HookDone

LEMMA HookInvStep == InitInv /\ HookInv /\ [ProjectNext]_projectVars => HookInv'
<1> SUFFICES ASSUME InitInv, HookInv, [ProjectNext]_projectVars
             PROVE  HookInv'
    OBVIOUS
<1>0. /\ content = [f \in Files |-> content[f]]
      /\ content["hook"] \in Hooks
  BY DEF HookInv
<1>1. CASE Aside
  BY <1>1, AsideIs DEF HookInv, userFiles
<1>2. CASE ReadFile("hook")
  BY <1>2, FilesAre DEF HookInv, ReadFile, userFiles, HookDone
<1>3. CASE ReadFile("ignore")
  BY <1>3, FilesAre DEF HookInv, ReadFile, userFiles, HookDone
<1>4. CASE TruncateFile("hook")
  <2>1. content' = [content EXCEPT !["hook"] = <<>>] /\ step' = "fill hook"
        /\ step = "truncate hook" /\ UNCHANGED <<loaded, edited, warned, outcome>>
    BY <1>4, FilesAre DEF TruncateFile, initRun
  <2>2. content' = [f \in Files |-> content'[f]] /\ content'["hook"] = <<>>
    BY <1>0, <2>1, FilesAre
  <2>3. outcome = "none"
    BY <2>1 DEF InitInv
  <2>4. QED
    BY <2>1, <2>2, <2>3, EmptyHook DEF HookInv, HookDone
<1>5. CASE TruncateFile("ignore")
  <2>1. content' = [content EXCEPT !["ignore"] = <<>>] /\ step' = "fill ignore"
        /\ step = "truncate ignore" /\ UNCHANGED <<id, edited, warned, outcome>>
    BY <1>5, FilesAre DEF TruncateFile, initRun
  <2>2. content' = [f \in Files |-> content'[f]] /\ content'["hook"] = content["hook"]
    BY <1>0, <2>1, FilesAre
  <2>3. QED
    BY <2>1, <2>2 DEF HookInv, HookDone
<1>6. CASE FillFile("hook")
  <2>1. content' = [content EXCEPT !["hook"] = Installed(loaded)] /\ step' = "read ignore"
        /\ step = "fill hook" /\ UNCHANGED <<edited, warned>>
    BY <1>6, FilesAre DEF FillFile, NewContent
  <2>2. content' = [f \in Files |-> content'[f]] /\ content'["hook"] = Installed(loaded)
    BY <1>0, <2>1, FilesAre
  <2>3. loaded \in Hooks /\ (~ edited => Whole(Text(loaded)))
    BY <2>1 DEF HookInv
  <2>4. PICK old, new : old = loaded /\ new = Installed(old)
    OBVIOUS
  <2>5. new \in Seq(Lines) /\ new \in Hooks /\ Text(new) = new
    <3>1. new \in Seq(Lines)
      BY <2>3, <2>4, InstalledIs
    <3>2. QED
      BY <3>1, HookAssumption DEF Hooks, Text
  <2>6. ~ edited => Whole(new) /\ Installs(new)
    BY <2>3, <2>4, InstalledWhole
  <2>7. content'["hook"] = new
    BY <2>2, <2>4
  <2>8. QED
    BY <2>1, <2>2, <2>5, <2>6, <2>7 DEF HookInv
<1>7. CASE FillFile("ignore")
  <2>1. content' = [content EXCEPT !["ignore"] = WithEntry(loaded)] /\ step' = "done"
        /\ step = "fill ignore" /\ UNCHANGED <<id, edited, warned, outcome>>
    BY <1>7, FilesAre DEF FillFile, NewContent
  <2>2. content' = [f \in Files |-> content'[f]] /\ content'["hook"] = content["hook"]
    BY <1>0, <2>1, FilesAre
  <2>3. QED
    BY <2>1, <2>2 DEF HookInv, HookDone
<1>8. CASE SkipFile("hook")
  BY <1>8, FilesAre DEF HookInv, SkipFile, HookDone
<1>9. CASE SkipFile("ignore")
  BY <1>9, FilesAre DEF HookInv, SkipFile, HookDone
<1>10. CASE CrashInit
  BY <1>10 DEF HookInv, CrashInit, End, HookDone
<1>11. CASE UserStep
  <2>1. UserActs /\ content' = [f \in Files |-> content'[f]]
    BY <1>11, UserStepIs
  <2>2. step' = "idle" /\ ~ HookDone'
    BY <2>1, UserActsIs
  <2>3. PICK h, g : h = content["hook"] /\ g = content'["hook"]
    OBVIOUS
  <2>4. g \in Hooks /\ (~ edited' => Whole(Text(g)))
    <3>0. h \in Hooks /\ (~ edited => Whole(Text(h)))
      BY <2>3 DEF HookInv
    <3>1. ASSUME NEW u \in UserLines, h \in Seq(Lines), UNCHANGED edited, g = Append(h, u)
          PROVE  g \in Hooks /\ (~ edited' => Whole(Text(g)))
      <4>1. Text(h) = h /\ g \in Seq(Lines)
        BY <3>1, AppendIs, HookAssumption DEF Text
      <4>2. Text(g) = g /\ g \in Hooks
        BY <4>1, HookAssumption DEF Text, Hooks
      <4>3. QED
        BY <3>0, <3>1, <4>1, <4>2, AppendedWhole
    <3>2. ASSUME NEW u \in UserLines, h \in Seq(Lines), UNCHANGED edited, g = <<u>> \o h
          PROVE  g \in Hooks /\ (~ edited' => Whole(Text(g)))
      <4>1. Text(h) = h /\ g \in Seq(Lines)
        BY <3>2, PrependIs, HookAssumption DEF Text, IsPrepended
      <4>2. Text(g) = g /\ g \in Hooks
        BY <4>1, HookAssumption DEF Text, Hooks
      <4>3. QED
        BY <3>0, <3>2, <4>1, <4>2, PrependedWhole
    <3>3. ASSUME NEW p \in 1 .. Len(h), h \in Seq(Lines), edited' = TRUE,
                 g = UpTo(h, p - 1) \o From(h, p + 1)
          PROVE  g \in Hooks /\ (~ edited' => Whole(Text(g)))
      <4>1. p - 1 \in 0 .. Len(h) /\ p + 1 \in 1 .. Len(h) + 1
        BY <3>3
      <4>2. UpTo(h, p - 1) \in Seq(Lines) /\ From(h, p + 1) \in Seq(Lines)
        BY <3>3, <4>1, UpToIs, FromIs
      <4>3. g \in Seq(Lines)
        BY <3>3, <4>2, Concatenated
      <4>4. QED
        BY <3>3, <4>3 DEF Hooks
    <3>4. ASSUME UNCHANGED edited, g = Uninstalled(h)
          PROVE  g \in Hooks /\ (~ edited' => Whole(Text(g)))
      BY <3>0, <3>4, UninstalledIs, UninstalledWhole
    <3>5. ASSUME UNCHANGED edited, g = h
          PROVE  g \in Hooks /\ (~ edited' => Whole(Text(g)))
      BY <3>0, <3>5
    <3>6. QED
      BY <1>11, <2>3, <3>1, <3>2, <3>3, <3>4, <3>5, UserStepIs
  <2>5. QED
    BY <2>1, <2>2, <2>3, <2>4 DEF HookInv
<1>12. CASE UNCHANGED projectVars
  BY <1>12 DEF HookInv, HookDone, projectVars, userFiles, initRun
<1>13. QED
  BY <1>1, <1>2, <1>3, <1>4, <1>5, <1>6, <1>7, <1>8, <1>9, <1>10, <1>11, <1>12, FilesAre
     DEF ProjectNext, InitStep, Aside

(* Git runs synth once for a commit (git/hooks.go): whatever lines of the    *)
(* user's are around it, and however often init was run, killed or undone,   *)
(* the hook has at most one block, and it is whole; an init that reported    *)
(* success and gave no warning has installed this release's.                 *)
THEOREM BlockCorrect == ProjectSpec => []OneWholeBlock
<1>1. HookInv => OneWholeBlock
  <2> SUFFICES ASSUME HookInv, ~ edited, content["hook"] # NoFile
               PROVE  LET file == content["hook"]
                      IN /\ \A i \in Occurrences(file, "start") :
                               /\ Occurrences(file, "start") = {i}
                               /\ Occurrences(file, "end") = {i + 2}
                               /\ file[i + 1] \in {"body", "old body"}
                         /\ outcome = "ok" /\ ~ warned =>
                               Occurrences(file, "start") # {} /\ Occurrences(file, "body") # {}
    BY DEF OneWholeBlock
  <2>1. PICK h : h = content["hook"]
    OBVIOUS
  <2>2. /\ h \in Seq(Lines) /\ Text(h) = h /\ Whole(h)
        /\ outcome = "ok" /\ ~ warned => Installs(h)
    BY <2>1, TextIs DEF HookInv, HookDone
  <2>3. ASSUME NEW i \in Occurrences(h, "start")
        PROVE  /\ Occurrences(h, "start") = {i}
               /\ Occurrences(h, "end") = {i + 2}
               /\ h[i + 1] \in {"body", "old body"}
    <3>1. i \in 1 .. Len(h) /\ h[i] = "start" /\ "start" \in Ours /\ "end" \in Ours
      BY <2>2 DEF Occurrences, Ours
    <3>2. PICK k \in 1 .. Len(h) : BlockAt(h, k)
      BY <2>2, <3>1 DEF Whole, Bare
    <3>3. /\ k \in 1 .. Len(h) /\ k + 1 \in 1 .. Len(h) /\ k + 2 \in 1 .. Len(h)
          /\ \A j \in 1 .. Len(h) : j = k \/ j = k + 1 \/ j = k + 2 \/ h[j] \notin Ours
      BY <2>2, <3>2, BlockIs
    <3>4. h[k] = "start" /\ h[k + 1] \in {"old body", "body"} /\ h[k + 2] = "end"
      BY <2>2, <3>2, BlockIs
    <3>5. \A j \in 1 .. Len(h) : /\ h[j] = "start" => j = k
                                 /\ h[j] = "end" => j = k + 2
      BY <3>1, <3>3, <3>4
    <3>6. Occurrences(h, "start") = {k} /\ Occurrences(h, "end") = {k + 2}
      <4>1. DOMAIN h = 1 .. Len(h)
        BY <2>2
      <4>2. \A j \in 1 .. Len(h) : /\ h[j] = "start" <=> j = k
                                   /\ h[j] = "end" <=> j = k + 2
        BY <3>4, <3>5
      <4>3. Occurrences(h, "start") = {k}
        BY <3>3, <4>1, <4>2 DEF Occurrences
      <4>4. Occurrences(h, "end") = {k + 2}
        BY <3>3, <4>1, <4>2 DEF Occurrences
      <4>5. QED
        BY <4>3, <4>4
    <3>7. i = k
      BY <3>1, <3>5
    <3>8. QED
      BY <3>4, <3>6, <3>7
  <2>4. ASSUME Installs(h)
        PROVE  Occurrences(h, "start") # {} /\ Occurrences(h, "body") # {}
    <3>1. PICK k \in 1 .. Len(h) : BlockAt(h, k) /\ h[k + 1] = "body"
      BY <2>4 DEF Installs
    <3>2. k \in 1 .. Len(h) /\ k + 1 \in 1 .. Len(h) /\ h[k] = "start"
      BY <2>2, <3>1, BlockIs
    <3>3. QED
      BY <2>2, <3>1, <3>2 DEF Occurrences
  <2>5. QED
    BY <2>1, <2>2, <2>3, <2>4
<1>2. QED
  BY <1>1, InitInvInit, InitInvStep, HookInvInit, HookInvStep, PTL DEF ProjectSpec

-----------------------------------------------------------------------------
(* The user's lines survive: the file that is read and will be written again *)
(* has them while it is empty on disk, the one on disk otherwise.            *)
Sound(file, lines, touched) == /\ Exposed(file, lines)
                               /\ ~ touched => UserLinesAre(file, lines)

LinesInv ==
    /\ userHook \in Seq(UserLines)
    /\ "hook" \notin torn =>
          /\ step \in {"truncate hook", "fill hook"} => Sound(Text(loaded), userHook, edited)
          /\ step # "fill hook" => Sound(Text(content["hook"]), userHook, edited)

HasPatterns(file) == /\ file \in Seq({"pattern", "synth"})
                     /\ Occurrences(file, "pattern") # {}

IgnoreInv == "ignore" \notin torn =>
    /\ step \in {"truncate ignore", "fill ignore"} => HasPatterns(loaded)
    /\ step # "fill ignore" => HasPatterns(content["ignore"])

LEMMA EmptyUserAt ==
    ASSUME NEW f \in Seq(Lines), Len(f) = 0
    PROVE  UserAt(f) = {}
<1>1. UserAt(f) = {i \in 1 .. Len(f) : f[i] \in UserLines}
  BY UserAtIs
<1>2. \A i \in 1 .. Len(f) : FALSE
  OBVIOUS
<1>3. QED
  BY <1>1, <1>2

LEMMA OldHooksSound ==
    ASSUME NEW old \in OldHooks, NEW lines,
           lines = IF old = NoFile THEN <<>> ELSE <<old[2]>>
    PROVE  lines \in Seq(UserLines) /\ Sound(Text(old), lines, FALSE)
<1>1. CASE old = NoFile
  <2>1. lines = <<>> /\ Text(old) = <<>> /\ Len(<<>>) = 0 /\ <<>> \in Seq(UserLines)
    BY <1>1 DEF Text
  <2>2. <<>> \in Seq(Lines)
    OBVIOUS
  <2>3. UserAt(<<>>) = {}
    BY <2>1, <2>2, EmptyUserAt
  <2>4. Exposed(<<>>, <<>>)
    BY <2>1 DEF Exposed
  <2>5. UserLinesAre(<<>>, <<>>)
    BY <2>1, <2>3, FS_EmptySet DEF UserLinesAre
  <2>6. QED
    BY <2>1, <2>4, <2>5 DEF Sound
<1>2. CASE old # NoFile
  <2>1. PICK u, l : u = old[2] /\ l = Len(old)
    OBVIOUS
  <2>2. /\ old \in Seq(Lines) /\ l \in Nat /\ l >= 2 /\ u \in UserLines /\ old[2] = u
        /\ old[1] \notin UserLines /\ old[1] # "start"
        /\ \A j \in 3 .. l : old[j] \notin UserLines
    BY <1>2, <2>1, OldHooksWhole
  <2>3. /\ Text(old) = old /\ lines = <<u>>
        /\ lines \in Seq(UserLines) /\ Len(lines) = 1 /\ lines[1] = u
    BY <1>2, <2>1, <2>2 DEF Text
  <2>4. \A j \in 1 .. l : j = 1 \/ j = 2 \/ j \in 3 .. l
    BY <2>2
  <2>5. 2 \in 1 .. l /\ \A j \in 1 .. l : j < 2 => j = 1
    BY <2>2
  <2>6. UserAt(old) = {2}
    <3>1. UserAt(old) = {i \in 1 .. l : old[i] \in UserLines}
      BY <2>1, <2>2, UserAtIs
    <3>2. QED
      BY <2>2, <2>4, <2>5, <3>1
  <2>7. Below({2}, 2) = {2}
    BY DEF Below
  <2>8. Place(old, 2) = 1 /\ Cardinality(UserAt(old)) = 1
    BY <2>6, <2>7, FS_Singleton DEF Place
  <2>9. UserLinesAre(old, lines)
    BY <2>2, <2>3, <2>6, <2>8, LinesByPlace
  <2>10. NoneBefore(old, 2)
    BY <2>1, <2>2, <2>5 DEF NoneBefore
  <2>11. Exposed(old, lines)
    <3>1. \A k \in 1 .. 1 : k = 1
      OBVIOUS
    <3>2. QED
      BY <2>1, <2>2, <2>3, <2>5, <2>10, <3>1 DEF Exposed
  <2>12. QED
    BY <2>3, <2>9, <2>11 DEF Sound
<1>3. QED
  BY <1>1, <1>2

LEMMA LinesInvInit == ProjectInit => LinesInv /\ IgnoreInv
<1> SUFFICES ASSUME ProjectInit
             PROVE  LinesInv /\ IgnoreInv
    OBVIOUS
<1>1. PICK old \in OldHooks :
         /\ content = [f \in Files |-> IF f = "hook" THEN old ELSE <<"pattern">>]
         /\ userHook = IF old = NoFile THEN <<>> ELSE <<old[2]>>
  BY DEF ProjectInit
<1>2. content["hook"] = old /\ content["ignore"] = <<"pattern">>
  BY <1>1, FilesAre
<1>3. step = "idle" /\ edited = FALSE
  BY DEF ProjectInit
<1>4. userHook \in Seq(UserLines) /\ Sound(Text(old), userHook, FALSE)
  BY <1>1, OldHooksSound
<1>5. HasPatterns(<<"pattern">>)
  BY DEF HasPatterns, Occurrences
<1>6. QED
  BY <1>2, <1>3, <1>4, <1>5 DEF LinesInv, IgnoreInv

\* The four changes that are made to the hook.
LEMMA InstalledSound ==
    ASSUME NEW file \in Hooks, NEW lines \in Seq(UserLines), NEW touched,
           ~ touched => Whole(Text(file)), Sound(Text(file), lines, touched)
    PROVE  Sound(Text(Installed(file)), lines, touched)
<1>1. Installed(file) \in Seq(Lines)
  BY InstalledIs
<1>2. Text(Installed(file)) = Installed(file)
  BY <1>1, HookAssumption DEF Text
<1>3. QED
  BY <1>2, InstalledKeeps DEF Sound

LEMMA UninstalledSound ==
    ASSUME NEW file \in Hooks, NEW lines \in Seq(UserLines), NEW touched,
           ~ touched => Whole(Text(file)), Sound(Text(file), lines, touched)
    PROVE  Sound(Text(Uninstalled(file)), lines, touched)
  BY UninstalledKeeps DEF Sound

LEMMA AddedLines ==
    ASSUME NEW u \in UserLines, NEW lines \in Seq(UserLines)
    PROVE  Append(lines, u) \in Seq(UserLines) /\ <<u>> \o lines \in Seq(UserLines)
  OBVIOUS

LEMMA AddedSound ==
    ASSUME NEW f \in Seq(Lines), NEW u \in UserLines, NEW lines \in Seq(UserLines),
           NEW touched, Sound(f, lines, touched)
    PROVE  /\ Sound(Text(Append(f, u)), Append(lines, u), touched)
           /\ Sound(Text(<<u>> \o f), <<u>> \o lines, touched)
<1>1. Append(f, u) \in Seq(Lines) /\ <<u>> \o f \in Seq(Lines)
  BY AppendIs, PrependIs DEF IsPrepended
<1>2. Text(Append(f, u)) = Append(f, u) /\ Text(<<u>> \o f) = <<u>> \o f
  BY <1>1, HookAssumption DEF Text
<1>3. /\ Exposed(Append(f, u), Append(lines, u))
      /\ Exposed(<<u>> \o f, <<u>> \o lines)
  BY AppendExposed, PrependExposed DEF Sound
<1>4. ~ touched => /\ UserLinesAre(Append(f, u), Append(lines, u))
                   /\ UserLinesAre(<<u>> \o f, <<u>> \o lines)
  BY AppendKeeps, PrependKeeps DEF Sound
<1>5. QED
  BY <1>2, <1>3, <1>4 DEF Sound

LEMMA LinesInvStep ==
    InitInv /\ HookInv /\ LinesInv /\ [ProjectNext]_projectVars => LinesInv'
<1> SUFFICES ASSUME InitInv, HookInv, LinesInv, [ProjectNext]_projectVars
             PROVE  LinesInv'
    OBVIOUS
<1>0. /\ content = [f \in Files |-> content[f]]
      /\ content["hook"] \in Hooks
      /\ userHook \in Seq(UserLines)
  BY DEF HookInv, LinesInv
<1>1. CASE Aside
  BY <1>1, AsideIs DEF LinesInv, userFiles
<1>2. CASE ReadFile("hook")
  BY <1>2, FilesAre DEF LinesInv, ReadFile, userFiles
<1>3. CASE ReadFile("ignore")
  BY <1>3, FilesAre DEF LinesInv, ReadFile, userFiles
<1>4. CASE TruncateFile("hook")
  BY <1>4, FilesAre DEF LinesInv, TruncateFile, initRun
<1>5. CASE TruncateFile("ignore")
  <2>1. content' = [content EXCEPT !["ignore"] = <<>>] /\ step' = "fill ignore"
        /\ step = "truncate ignore" /\ UNCHANGED <<userHook, torn, edited>>
    BY <1>5, FilesAre DEF TruncateFile
  <2>2. content'["hook"] = content["hook"]
    BY <1>0, <2>1, FilesAre
  <2>3. QED
    BY <2>1, <2>2 DEF LinesInv
<1>6. CASE FillFile("hook")
  <2>1. content' = [content EXCEPT !["hook"] = Installed(loaded)] /\ step' = "read ignore"
        /\ step = "fill hook" /\ UNCHANGED <<userHook, torn, edited>>
    BY <1>6, FilesAre DEF FillFile, NewContent
  <2>2. content'["hook"] = Installed(loaded)
    BY <1>0, <2>1, FilesAre
  <2>3. /\ loaded \in Hooks /\ (~ edited => Whole(Text(loaded)))
        /\ "hook" \notin torn => Sound(Text(loaded), userHook, edited)
    BY <2>1 DEF HookInv, LinesInv
  <2>4. PICK old, new : old = loaded /\ new = Installed(old)
    OBVIOUS
  <2>5. "hook" \notin torn => Sound(Text(new), userHook, edited)
    BY <1>0, <2>3, <2>4, InstalledSound
  <2>6. QED
    BY <1>0, <2>1, <2>2, <2>4, <2>5 DEF LinesInv
<1>7. CASE FillFile("ignore")
  <2>1. content' = [content EXCEPT !["ignore"] = WithEntry(loaded)] /\ step' = "done"
        /\ step = "fill ignore" /\ UNCHANGED <<userHook, torn, edited>>
    BY <1>7, FilesAre DEF FillFile, NewContent
  <2>2. content'["hook"] = content["hook"]
    BY <1>0, <2>1, FilesAre
  <2>3. QED
    BY <2>1, <2>2 DEF LinesInv
<1>8. CASE SkipFile("hook")
  BY <1>8, FilesAre DEF LinesInv, SkipFile
<1>9. CASE SkipFile("ignore")
  BY <1>9, FilesAre DEF LinesInv, SkipFile
<1>10. CASE CrashInit
  BY <1>10, FilesAre DEF LinesInv, CrashInit, End
<1>11. CASE UserStep
  <2>1. step = "idle" /\ step' = "idle" /\ UNCHANGED torn
    BY <1>11, UserStepIs, UserActsIs
  <2>2. PICK h, g, k, m : /\ h = content["hook"] /\ g = content'["hook"]
                          /\ k = userHook /\ m = userHook'
    OBVIOUS
  <2>3. /\ h \in Hooks /\ k \in Seq(UserLines) /\ (~ edited => Whole(Text(h)))
        /\ "hook" \notin torn => Sound(Text(h), k, edited)
    BY <1>0, <2>1, <2>2 DEF HookInv, LinesInv
  <2>4. m \in Seq(UserLines) /\ ("hook" \notin torn => Sound(Text(g), m, edited'))
    <3>1. ASSUME NEW u \in UserLines, h \in Seq(Lines), UNCHANGED edited,
                 \/ g = Append(h, u) /\ m = Append(k, u)
                 \/ g = <<u>> \o h /\ m = <<u>> \o k
          PROVE  m \in Seq(UserLines) /\ ("hook" \notin torn => Sound(Text(g), m, edited'))
      <4>1. Text(h) = h
        BY <3>1, HookAssumption DEF Text
      <4>2. m \in Seq(UserLines)
        BY <2>3, <3>1, AddedLines
      <4>3. QED
        BY <2>3, <3>1, <4>1, <4>2, AddedSound
    <3>2. ASSUME NEW p \in 1 .. Len(h), h \in Seq(Lines), h[p] \notin UserLines,
                 edited' = TRUE, g = UpTo(h, p - 1) \o From(h, p + 1), m = k
          PROVE  m \in Seq(UserLines) /\ ("hook" \notin torn => Sound(Text(g), m, edited'))
      <4>1. Text(h) = h
        BY <3>2, HookAssumption DEF Text
      <4>2. ASSUME Exposed(h, k)
            PROVE  g \in Seq(Lines) /\ Exposed(g, k)
        <5>1. k \in Seq(UserLines)
          BY <2>3
        <5>2. QED
          BY <3>2, <4>2, <5>1, CutExposed, ZenonT(30)
      <4>3. g \in Seq(Lines) => Text(g) = g
        BY HookAssumption DEF Text
      <4>4. "hook" \notin torn => Exposed(h, k)
        BY <2>3, <4>1 DEF Sound
      <4>5. QED
        BY <2>3, <3>2, <4>2, <4>3, <4>4 DEF Sound
    <3>3. ASSUME UNCHANGED edited, g = Uninstalled(h), m = k
          PROVE  m \in Seq(UserLines) /\ ("hook" \notin torn => Sound(Text(g), m, edited'))
      BY <2>3, <3>3, UninstalledSound
    <3>4. ASSUME UNCHANGED edited, g = h, m = k
          PROVE  m \in Seq(UserLines) /\ ("hook" \notin torn => Sound(Text(g), m, edited'))
      BY <2>3, <3>4
    <3>5. QED
      BY <1>11, <2>2, <3>1, <3>2, <3>3, <3>4, UserStepIs
  <2>5. QED
    BY <2>1, <2>2, <2>4 DEF LinesInv
<1>12. CASE UNCHANGED projectVars
  BY <1>12 DEF LinesInv, projectVars, userFiles, initRun
<1>13. QED
  BY <1>1, <1>2, <1>3, <1>4, <1>5, <1>6, <1>7, <1>8, <1>9, <1>10, <1>11, <1>12, FilesAre
     DEF ProjectNext, InitStep, Aside

LEMMA EntryKeepsPatterns ==
    ASSUME NEW file, HasPatterns(file)
    PROVE  HasPatterns(WithEntry(file))
<1>1. CASE WithEntry(file) = file
  BY <1>1
<1>2. CASE WithEntry(file) = Append(file, "synth")
  <2>1. PICK g, n : g = Append(file, "synth") /\ n = Len(file)
    OBVIOUS
  <2>2. /\ n \in Nat /\ g \in Seq({"pattern", "synth"}) /\ Len(g) = n + 1
        /\ DOMAIN file = 1 .. n /\ DOMAIN g = 1 .. n + 1
        /\ \A i \in 1 .. n : i \in 1 .. n + 1 /\ g[i] = file[i]
    BY <2>1 DEF HasPatterns
  <2>3. PICK i \in 1 .. n : file[i] = "pattern"
    BY <2>2 DEF HasPatterns, Occurrences
  <2>4. QED
    BY <1>2, <2>1, <2>2, <2>3 DEF HasPatterns, Occurrences
<1>3. QED
  BY <1>1, <1>2 DEF WithEntry

LEMMA IgnoreInvStep ==
    InitInv /\ HookInv /\ IgnoreInv /\ [ProjectNext]_projectVars => IgnoreInv'
<1> SUFFICES ASSUME InitInv, HookInv, IgnoreInv, [ProjectNext]_projectVars
             PROVE  IgnoreInv'
    OBVIOUS
<1>0. content = [f \in Files |-> content[f]]
  BY DEF HookInv
<1>1. CASE Aside
  BY <1>1, AsideIs DEF IgnoreInv, userFiles
<1>2. CASE ReadFile("hook")
  BY <1>2, FilesAre DEF IgnoreInv, ReadFile, userFiles
<1>3. CASE ReadFile("ignore")
  BY <1>3, FilesAre DEF IgnoreInv, ReadFile, userFiles
<1>4. CASE TruncateFile("hook")
  <2>1. content' = [content EXCEPT !["hook"] = <<>>] /\ step' = "fill hook"
        /\ step = "truncate hook" /\ UNCHANGED torn
    BY <1>4, FilesAre DEF TruncateFile
  <2>2. content'["ignore"] = content["ignore"]
    BY <1>0, <2>1, FilesAre
  <2>3. QED
    BY <2>1, <2>2 DEF IgnoreInv
<1>5. CASE TruncateFile("ignore")
  BY <1>5, FilesAre DEF IgnoreInv, TruncateFile, initRun
<1>6. CASE FillFile("hook")
  <2>1. content' = [content EXCEPT !["hook"] = Installed(loaded)] /\ step' = "read ignore"
        /\ step = "fill hook" /\ UNCHANGED torn
    BY <1>6, FilesAre DEF FillFile, NewContent
  <2>2. content'["ignore"] = content["ignore"]
    BY <1>0, <2>1, FilesAre
  <2>3. QED
    BY <2>1, <2>2 DEF IgnoreInv
<1>7. CASE FillFile("ignore")
  <2>1. content' = [content EXCEPT !["ignore"] = WithEntry(loaded)] /\ step' = "done"
        /\ step = "fill ignore" /\ UNCHANGED torn
    BY <1>7, FilesAre DEF FillFile, NewContent
  <2>2. content'["ignore"] = WithEntry(loaded)
    BY <1>0, <2>1, FilesAre
  <2>3. "ignore" \notin torn => HasPatterns(WithEntry(loaded))
    BY <2>1, EntryKeepsPatterns DEF IgnoreInv
  <2>4. QED
    BY <2>1, <2>2, <2>3 DEF IgnoreInv
<1>8. CASE SkipFile("hook")
  BY <1>8, FilesAre DEF IgnoreInv, SkipFile
<1>9. CASE SkipFile("ignore")
  BY <1>9, FilesAre DEF IgnoreInv, SkipFile
<1>10. CASE CrashInit
  BY <1>10, FilesAre DEF IgnoreInv, CrashInit, End
<1>11. CASE UserStep
  BY <1>11, UserStepIs, UserActsIs DEF IgnoreInv
<1>12. CASE UNCHANGED projectVars
  BY <1>12 DEF IgnoreInv, projectVars, userFiles, initRun
<1>13. QED
  BY <1>1, <1>2, <1>3, <1>4, <1>5, <1>6, <1>7, <1>8, <1>9, <1>10, <1>11, <1>12, FilesAre
     DEF ProjectNext, InitStep, Aside

(* Init, at any release, its crashes and its warnings, the user's own edits  *)
(* and uninstalling keep every line of the user's in the hook, each once and *)
(* in their order if the markers are left alone, and the patterns in         *)
(* .gitignore; only a rewrite that was cut off after the truncation loses    *)
(* them (git/hooks.go, cli/init.go).                                         *)
THEOREM UserLinesCorrect == ProjectSpec => []UserLinesSurvive
<1>1. HookInv /\ LinesInv /\ IgnoreInv => UserLinesSurvive
  <2> SUFFICES ASSUME HookInv, LinesInv, IgnoreInv
               PROVE  UserLinesSurvive
      OBVIOUS
  <2>1. PICK h, f : h = content["hook"] /\ f = Text(h)
    OBVIOUS
  <2>2. h \in Hooks /\ f \in Seq(Lines) /\ (h # NoFile => h = f) /\ (h = NoFile => f = <<>>)
    BY <2>1, TextIs DEF HookInv
  <2>3. ASSUME "hook" \notin torn, step # "fill hook"
        PROVE  /\ edited => \A i \in DOMAIN userHook : Occurrences(h, userHook[i]) # {}
               /\ ~ edited => UserLinesAre(h, userHook)
    <3>1. Sound(f, userHook, edited) /\ userHook \in Seq(UserLines)
      BY <2>1, <2>3 DEF LinesInv
    <3>2. UserAt(h) = UserAt(f)
      <4>1. CASE h = NoFile
        <5>1. Len(f) = 0
          BY <2>2, <4>1
        <5>2. UserAt(f) = {}
          BY <2>2, <5>1, EmptyUserAt
        <5>3. QED
          BY <4>1, <5>2 DEF UserAt
      <4>2. QED
        BY <2>2, <4>1
    <3>3. CASE h = NoFile
      <4>1. Len(f) = 0 /\ UserAt(f) = {} /\ DOMAIN userHook = 1 .. Len(userHook)
        BY <2>2, <3>1, <3>2, <3>3 DEF UserAt
      <4>2. edited => \A i \in DOMAIN userHook : FALSE
        BY <3>1, <4>1 DEF Sound, Exposed
      <4>3. ~ edited => UserLinesAre(h, userHook)
        BY <3>1, <3>2, <4>1 DEF Sound, UserLinesAre
      <4>4. QED
        BY <4>2, <4>3
    <3>4. CASE h # NoFile
      <4>1. h = f /\ DOMAIN userHook = 1 .. Len(userHook) /\ DOMAIN f = 1 .. Len(f)
        BY <2>2, <3>1, <3>4
      <4>2. \A i \in DOMAIN userHook : Occurrences(h, userHook[i]) # {}
        BY <3>1, <4>1 DEF Sound, Exposed, Occurrences
      <4>3. QED
        BY <3>1, <4>1, <4>2 DEF Sound
    <3>5. QED
      BY <3>3, <3>4
  <2>4. "ignore" \notin torn /\ step # "fill ignore" =>
           Occurrences(content["ignore"], "pattern") # {}
    BY DEF IgnoreInv, HasPatterns
  <2>5. QED
    BY <2>1, <2>3, <2>4 DEF UserLinesSurvive
<1>2. QED
  BY <1>1, InitInvInit, InitInvStep, HookInvInit, HookInvStep,
     LinesInvInit, LinesInvStep, IgnoreInvStep, PTL DEF ProjectSpec
===============================================================================
