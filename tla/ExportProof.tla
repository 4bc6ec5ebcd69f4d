----------------------------- MODULE ExportProof -----------------------------
(***************************************************************************)
(* Proofs about Export: its types, that a file is removed only when every  *)
(* line recovery read from it was exported, that a handled and a buffered  *)
(* batch are kept, and that Normal is declared only after a clean pass.    *)
(*                                                                         *)
(* The first part is about the disk alone: whatever Save writes, and       *)
(* however far it gets, no file loses a line.  Each invariant then needs   *)
(* little more than that, because what it says of a line stays true of it. *)
(***************************************************************************)
EXTENDS Export, Induction

-----------------------------------------------------------------------------
(* What the proofs need to know besides the types *)

\* What a goroutine is doing when it holds a batch, a line or a file.
Holding ==
  /\ flush # "idle" => batch \in Batches
  /\ \A e \in Exporter : export[e] # "off" => flush = "export"
  /\ monitor = "export" => received \in Line
  /\ reader \in {"scan", "send"} => todo # {}

\* Every variable of Export has its type, and Holding.
TypeInv == TypeOK /\ Holding

\* The line l, number i of the oldest file, is between the reader and the
\* exporter.
InFlight(i, l) ==
  \/ reader = "send" /\ message = l /\ i = pos
  \/ monitor = "export" /\ received = l

Exported(l) == <<l.name, l.batch>> \in delivered

\* While no export of the file being read has failed, each line read from it
\* is exported or in flight.
ScanInv ==
  reader \in {"scan", "send"} =>
    /\ pos <= Len(files[Oldest].lines)
    /\ exportSuccess =>
         \A i \in 1 .. pos :
           LET l == files[Oldest].lines[i]
           IN  l # Torn /\ (Exported(l) \/ InFlight(i, l))

\* RemovedWasExported, and no more was read than was there.
RemovedInv ==
  \A f \in DOMAIN files :
    f \in removing \/ ~files[f].linked =>
      /\ f \in DOMAIN readTo
      /\ readTo[f] \in 0 .. Len(files[f].lines)
      /\ ExportedUpTo(f, readTo[f])

\* The batch b was written for e to some file, linked or not.  What recovery
\* then does with the file is the matter of RemovedInv: see WrittenIsKept.
WrittenFor(e, b) ==
  \E f \in DOMAIN files : LineOf(e, b) \in Range(files[f].lines)

Kept(e, b) == <<e, b>> \in delivered \union dropped \/ WrittenFor(e, b)

\* The batches handed over were exported or written, already by the
\* goroutines of flushBatch that are past their Export and their Save.
HandledInv ==
  /\ \A b \in handled, e \in Exporter : Kept(e, b)
  /\ flush = "export" =>
       \A e \in Exporter :
         export[e] \in {"off", "saved", "refused"} => Kept(e, batch)

\* A batch flushed while blocked is in blockData or was written.
BufferedWritten ==
  restarts = 0 /\ ~panicked =>
    \A b \in buffered \ raced :
      b \in Range(blockData) \/ WrittenFor(PipelineName, b)

\* The same, with what the append under way will store back: all that
\* blockData holds; and what that header holds besides is raced or saved.
BufferedInv ==
  /\ BufferedWritten
  /\ flush = "buffer" =>
       /\ Range(blockData) \subseteq Range(header)
       /\ \A b \in Range(header) :
            \/ b \in Range(blockData) \union raced
            \/ WrittenFor(PipelineName, b)
  /\ monitor = "truncate" =>
       \A b \in Range(blockData) : b \in raced \/ WrittenFor(PipelineName, b)

\* The file f was dealt with, as far as it was there when the pass began,
\* if it is there and whole.
Dealt(f) ==
  f \in Linked /\ Torn \notin Range(files[f].lines) =>
    f \in todo \/ ExportedUpTo(f, listed[f])

\* During a pass in which nothing failed, each file that was listed, and is
\* there and whole, is yet to be read or its listed lines were exported.
PassInv ==
  /\ ~errorCount => exportSuccess
  /\ monitor \in {"receive", "export"} =>
       /\ status # "Normal"
       /\ todo \subseteq DOMAIN listed
       /\ \A f \in DOMAIN listed : listed[f] \in 0 .. Len(files[f].lines)
       /\ reader = "send" /\ message = Finish => listed[Oldest] <= pos
       /\ ~errorCount => \A f \in DOMAIN listed : Dealt(f)

-----------------------------------------------------------------------------
(* The disk *)

Text == Line \union {Torn}
File == [lines : Seq(Text), linked : BOOLEAN]
Disks == {d \in [files : Seq(File), current : Nat] : d.current <= Len(d.files)}

\* The file g is the file f with lines added.
Longer(f, g) ==
  /\ g.linked = f.linked
  /\ Len(f.lines) <= Len(g.lines)
  /\ \A i \in 1 .. Len(f.lines) : g.lines[i] = f.lines[i]

HasLine(f, l) == \E i \in 1 .. Len(f.lines) : f.lines[i] = l

\* Every file of d is in g, perhaps longer; the others of g are linked.
Grown(d, g) ==
  /\ Len(d.files) <= Len(g.files)
  /\ \A f \in 1 .. Len(d.files) : Longer(d.files[f], g.files[f])
  /\ \A f \in Len(d.files) + 1 .. Len(g.files) : g.files[f].linked

Holds(d, l) == \E f \in 1 .. Len(d.files) : HasLine(d.files[f], l)

\* A disk with an open file that has grown from d.
Grows(d, g) == g \in Disks /\ g.current # 0 /\ Grown(d, g)

LEMMA FileFields ==
  ASSUME NEW f \in File
  PROVE  f.linked \in BOOLEAN /\ f.lines \in Seq(Text) /\ Len(f.lines) \in Nat
<1>1. f.linked \in BOOLEAN /\ f.lines \in Seq(Text)
  BY DEF File
<1> QED
  BY <1>1

LEMMA DiskFields ==
  ASSUME NEW d \in Disks
  PROVE  /\ d.files \in Seq(File) /\ Len(d.files) \in Nat
         /\ d.current \in 0 .. Len(d.files)
         /\ \A f \in 1 .. Len(d.files) : d.files[f] \in File
<1>1. d.files \in Seq(File) /\ d.current \in Nat /\ d.current <= Len(d.files)
  BY DEF Disks
<1> QED
  BY <1>1

LEMMA LongerRefl ==
  ASSUME NEW f \in File
  PROVE  Longer(f, f)
BY FileFields DEF Longer

LEMMA LongerTrans ==
  ASSUME NEW f \in File, NEW g \in File, NEW h \in File,
         Longer(f, g), Longer(g, h)
  PROVE  Longer(f, h)
<1>1. /\ Len(f.lines) \in Nat /\ Len(g.lines) \in Nat /\ Len(h.lines) \in Nat
      /\ Len(f.lines) <= Len(g.lines) /\ Len(g.lines) <= Len(h.lines)
  BY FileFields DEF Longer
<1>2. \A i \in 1 .. Len(f.lines) : i \in 1 .. Len(g.lines)
  BY <1>1
<1>3. \A i \in 1 .. Len(f.lines) : h.lines[i] = f.lines[i]
  BY <1>2 DEF Longer
<1> QED
  BY <1>1, <1>3 DEF Longer

LEMMA LongerHas ==
  ASSUME NEW f \in File, NEW g \in File, Longer(f, g), NEW l, HasLine(f, l)
  PROVE  HasLine(g, l)
<1>1. PICK i \in 1 .. Len(f.lines) : f.lines[i] = l
  BY DEF HasLine
<1>2. i \in 1 .. Len(g.lines)
  BY FileFields DEF Longer
<1> QED
  BY <1>1, <1>2 DEF HasLine, Longer

LEMMA GrownRefl ==
  ASSUME NEW d \in Disks
  PROVE  Grown(d, d)
BY DiskFields, LongerRefl DEF Grown

LEMMA GrownTrans ==
  ASSUME NEW d \in Disks, NEW g \in Disks, NEW h \in Disks,
         Grown(d, g), Grown(g, h)
  PROVE  Grown(d, h)
<1>1. /\ Len(d.files) \in Nat /\ Len(g.files) \in Nat /\ Len(h.files) \in Nat
      /\ Len(d.files) <= Len(g.files) /\ Len(g.files) <= Len(h.files)
  BY DiskFields DEF Grown
<1>2. ASSUME NEW f \in 1 .. Len(d.files)
      PROVE  Longer(d.files[f], h.files[f])
  <2>1. f \in 1 .. Len(g.files) /\ f \in 1 .. Len(h.files)
    BY <1>1
  <2>2. Longer(d.files[f], g.files[f]) /\ Longer(g.files[f], h.files[f])
    BY <2>1 DEF Grown
  <2>3. d.files[f] \in File /\ g.files[f] \in File /\ h.files[f] \in File
    BY <2>1, DiskFields
  <2> QED
    BY <2>2, <2>3, LongerTrans
<1>3. ASSUME NEW f \in Len(d.files) + 1 .. Len(h.files)
      PROVE  h.files[f].linked
  <2>1. CASE f \in Len(g.files) + 1 .. Len(h.files)
    BY <2>1 DEF Grown
  <2>2. CASE f \in 1 .. Len(g.files)
    <3>1. f \in Len(d.files) + 1 .. Len(g.files)
      BY <1>1, <2>2
    <3>2. g.files[f].linked /\ Longer(g.files[f], h.files[f])
      BY <2>2, <3>1 DEF Grown
    <3> QED
      BY <3>2 DEF Longer
  <2> QED
    BY <1>1, <2>1, <2>2
<1> QED
  BY <1>1, <1>2, <1>3 DEF Grown

LEMMA GrownHolds ==
  ASSUME NEW d \in Disks, NEW g \in Disks, Grown(d, g), NEW l, Holds(d, l)
  PROVE  Holds(g, l)
<1>1. PICK f \in 1 .. Len(d.files) : HasLine(d.files[f], l)
  BY DEF Holds
<1>2. f \in 1 .. Len(g.files) /\ Longer(d.files[f], g.files[f])
  BY DiskFields DEF Grown
<1>3. HasLine(g.files[f], l)
  BY <1>1, <1>2, LongerHas, DiskFields
<1> QED
  BY <1>2, <1>3 DEF Holds

\* rotateFile adds a file and makes it the current one.
LEMMA RotatedGrows ==
  ASSUME NEW d \in Disks
  PROVE  Grows(d, Rotated(d))
<1> DEFINE g == Rotated(d)
<1>1. d.files \in Seq(File) /\ Len(d.files) \in Nat
  BY DiskFields
<1>2. NewFile \in File
  BY DEF NewFile, File
<1>3. g.files = Append(d.files, NewFile) /\ g.current = Len(d.files) + 1
  BY DEF Rotated
<1>4. g.files \in Seq(File) /\ Len(g.files) = Len(d.files) + 1
  BY <1>1, <1>2, <1>3
<1>5. g \in [files : Seq(File), current : Nat]
  BY <1>1, <1>2 DEF Rotated
<1>6. g \in Disks /\ g.current # 0
  BY <1>1, <1>3, <1>4, <1>5 DEF Disks
<1>7. /\ \A f \in 1 .. Len(d.files) : g.files[f] = d.files[f]
      /\ g.files[Len(d.files) + 1] = NewFile
  BY <1>1, <1>3
<1>8. \A f \in 1 .. Len(d.files) : Longer(d.files[f], g.files[f])
  BY <1>7, DiskFields, LongerRefl
<1>9. \A f \in Len(d.files) + 1 .. Len(g.files) : g.files[f].linked
  BY <1>1, <1>4, <1>7 DEF NewFile
<1>10. Grown(d, g)
  BY <1>1, <1>4, <1>8, <1>9 DEF Grown
<1> QED
  BY <1>6, <1>10 DEF Grows

LEMMA OpenedGrows ==
  ASSUME NEW d \in Disks
  PROVE  Grows(d, Opened(d))
BY RotatedGrows, GrownRefl DEF Opened, Grows

\* What EXCEPT does to one field of a file and of a disk.
LEMMA FileExcept ==
  ASSUME NEW S, NEW f \in [lines : S, linked : BOOLEAN], NEW x
  PROVE  [f EXCEPT !.lines = x] = [lines |-> x, linked |-> f.linked]
OBVIOUS

LEMMA DiskExcept ==
  ASSUME NEW S, NEW d \in [files : S, current : Nat], NEW x
  PROVE  [d EXCEPT !.files = x] = [files |-> x, current |-> d.current]
OBVIOUS

LEMMA Appended ==
  ASSUME NEW S, NEW s \in Seq(S), NEW x \in S
  PROVE  /\ Append(s, x) \in Seq(S)
         /\ Len(Append(s, x)) = Len(s) + 1
         /\ Append(s, x)[Len(s) + 1] = x
         /\ \A i \in 1 .. Len(s) : Append(s, x)[i] = s[i]
OBVIOUS

\* One line is written: it is there, and nothing else is lost.
LEMMA WrittenGrows ==
  ASSUME NEW d \in Disks, d.current # 0, NEW l \in Text
  PROVE  Grows(d, Written(d, l)) /\ Holds(Written(d, l), l)
<1> DEFINE c == d.current
           old == d.files[c]
           text == Append(old.lines, l)
           new == [lines |-> text, linked |-> old.linked]
           all == [d.files EXCEPT ![c] = new]
           g == [files |-> all, current |-> c]
<1>1. d.files \in Seq(File) /\ Len(d.files) \in Nat /\ c \in 1 .. Len(d.files)
  BY DiskFields
<1>2. old \in File
  BY <1>1, DiskFields
<1>3. /\ old.lines \in Seq(Text) /\ Len(old.lines) \in Nat
      /\ old.linked \in BOOLEAN
  BY <1>2, FileFields
<1> HIDE DEF old
<1>4. /\ text \in Seq(Text)
      /\ Len(text) = Len(old.lines) + 1
      /\ text[Len(old.lines) + 1] = l
      /\ \A i \in 1 .. Len(old.lines) : text[i] = old.lines[i]
  BY <1>3, Appended
<1>5. new \in File
  BY <1>3, <1>4 DEF File
<1>6. Longer(old, new) /\ HasLine(new, l)
  <2>1. new.lines = text /\ new.linked = old.linked
    OBVIOUS
  <2> HIDE DEF new, text
  <2>2. Longer(old, new)
    BY <1>3, <1>4, <2>1 DEF Longer
  <2>3. Len(old.lines) + 1 \in 1 .. Len(text)
    BY <1>3, <1>4
  <2> QED
    BY <1>4, <2>1, <2>2, <2>3 DEF HasLine
<1> USE DEF old
<1>7. [d EXCEPT !.files[d.current].lines = Append(@, l)] = g
  <2>1. [old EXCEPT !.lines = text] = new
    BY <1>2, FileExcept DEF File
  <2>2. d \in [files : Seq(File), current : Nat]
    BY DEF Disks
  <2>3. [d EXCEPT !.files = all] = g
    BY <2>2, DiskExcept
  <2> QED
    BY <2>1, <2>3
<1> HIDE DEF new
<1>8. g.files = all /\ g.current = c
  OBVIOUS
<1>9. all \in Seq(File) /\ Len(all) = Len(d.files)
  BY <1>1, <1>5
<1>10. g \in Disks /\ g.current # 0
  <2> HIDE DEF all
  <2> QED
    BY <1>1, <1>9 DEF Disks
<1>11. /\ g.files[c] = new
       /\ \A f \in 1 .. Len(d.files) : f # c => g.files[f] = d.files[f]
  BY <1>1, <1>8
<1>12. ASSUME NEW f \in 1 .. Len(d.files)
       PROVE  Longer(d.files[f], g.files[f])
  BY <1>6, <1>11, DiskFields, LongerRefl
<1>13. Grown(d, g) /\ Holds(g, l)
  BY <1>1, <1>6, <1>9, <1>11, <1>12 DEF Grown, Holds
<1>14. Written(d, l) = IF Len(g.files[c].lines) > MaxLines
                       THEN Rotated(g) ELSE g
  BY <1>7 DEF Written
<1> HIDE DEF g
<1>15. Rotated(g) \in Disks /\ Rotated(g).current # 0 /\ Grown(g, Rotated(g))
  BY <1>10, RotatedGrows DEF Grows
<1>16. Grown(d, Rotated(g)) /\ Holds(Rotated(g), l)
  BY <1>10, <1>13, <1>15, GrownTrans, GrownHolds
<1> QED
  BY <1>10, <1>13, <1>14, <1>15, <1>16 DEF Grows

\* A disk to which the lines of a slice are written one after the other.
Log(d, lines, w) ==
  w = [k \in 0 .. Len(lines) |->
         IF k = 0 THEN d ELSE Written(w[k - 1], lines[k])]

\* There is such a log, so that the recursion of WrittenAll defines one.
LEMMA LogExists ==
  ASSUME NEW d, NEW lines \in Seq(Text)
  PROVE  \E w : Log(d, lines, w)
<1> DEFINE Upto(n, w) ==
             w = [k \in 0 .. n |->
                    IF k = 0 THEN d ELSE Written(w[k - 1], lines[k])]
           N == {n \in Nat : \E w : Upto(n, w)}
<1>1. 0 \in N
  <2> DEFINE w == [k \in 0 .. 0 |-> d]
  <2>1. \A k \in 0 .. 0 : k = 0
    OBVIOUS
  <2>2. Upto(0, w)
    BY <2>1
  <2> QED
    BY <2>2
<1>2. ASSUME NEW n \in Nat, n \in N
      PROVE  n + 1 \in N
  <2>1. PICK w : Upto(n, w)
    BY <1>2
  <2> DEFINE v == [k \in 0 .. n + 1 |->
                     IF k \in 0 .. n THEN w[k]
                     ELSE Written(w[n], lines[n + 1])]
  <2>2. \A k \in 0 .. n : v[k] = w[k]
    OBVIOUS
  <2>3. v[n + 1] = Written(w[n], lines[n + 1])
    OBVIOUS
  <2>4. \A k \in 0 .. n :
          w[k] = IF k = 0 THEN d ELSE Written(w[k - 1], lines[k])
    BY <2>1
  <2>5. ASSUME NEW k \in 0 .. n + 1
        PROVE  v[k] = IF k = 0 THEN d ELSE Written(v[k - 1], lines[k])
    <3>1. CASE k = 0
      BY <2>2, <2>4, <3>1
    <3>2. CASE k # 0 /\ k \in 0 .. n
      <4>1. k - 1 \in 0 .. n
        BY <3>2
      <4> HIDE DEF v
      <4> QED
        BY <2>2, <2>4, <3>2, <4>1
    <3>3. CASE k = n + 1
      <4>1. k # 0 /\ k - 1 = n /\ n \in 0 .. n
        BY <3>3
      <4> HIDE DEF v
      <4> QED
        BY <2>2, <2>3, <3>3, <4>1
    <3> QED
      BY <3>1, <3>2, <3>3
  <2>6. v = [k \in 0 .. n + 1 |-> v[k]]
    OBVIOUS
  <2> HIDE DEF v
  <2>7. [k \in 0 .. n + 1 |-> v[k]]
          = [k \in 0 .. n + 1 |->
               IF k = 0 THEN d ELSE Written(v[k - 1], lines[k])]
    BY <2>5
  <2>8. Upto(n + 1, v)
    BY <2>6, <2>7
  <2> HIDE DEF Upto
  <2> QED
    BY <2>8
<1>3. Len(lines) \in N
  <2> HIDE DEF N
  <2> QED
    BY <1>1, <1>2, NatInduct
<1> QED
  BY <1>3 DEF Log

\* Save writes every line it is given, and no file loses one.
LEMMA WrittenAllGrows ==
  ASSUME NEW d \in Disks, d.current # 0, NEW lines \in Seq(Text)
  PROVE  /\ Grows(d, WrittenAll(d, lines))
         /\ \A i \in 1 .. Len(lines) : Holds(WrittenAll(d, lines), lines[i])
<1> DEFINE w == CHOOSE w : Log(d, lines, w)
<1>1. Log(d, lines, w)
  BY LogExists
<1>2. WrittenAll(d, lines) = w[Len(lines)]
  BY DEF WrittenAll, Log
<1> HIDE DEF w
<1>3. /\ w[0] = d
      /\ \A k \in 0 .. Len(lines) :
           k # 0 => w[k] = Written(w[k - 1], lines[k])
  BY <1>1 DEF Log
<1> DEFINE Good(k) == /\ Grows(d, w[k])
                      /\ \A i \in 1 .. k : Holds(w[k], lines[i])
           N == {n \in Nat : n <= Len(lines) => Good(n)}
<1>4. 0 \in N
  BY <1>3, GrownRefl DEF Grows
<1>5. ASSUME NEW n \in Nat, n \in N
      PROVE  n + 1 \in N
  <2>1. SUFFICES ASSUME n + 1 <= Len(lines)
                 PROVE  Good(n + 1)
    OBVIOUS
  <2>2. /\ n + 1 \in 0 .. Len(lines) /\ n + 1 # 0 /\ (n + 1) - 1 = n
        /\ n + 1 \in 1 .. Len(lines) /\ n <= Len(lines)
    BY <2>1
  <2>3. Good(n)
    BY <1>5, <2>2
  <2>4. w[n + 1] = Written(w[n], lines[n + 1])
    BY <1>3, <2>2
  <2>5. lines[n + 1] \in Text
    BY <2>2
  <2>6. /\ Grows(w[n], w[n + 1]) /\ Holds(w[n + 1], lines[n + 1])
    BY <2>3, <2>4, <2>5, WrittenGrows DEF Grows
  <2>7. Grows(d, w[n + 1])
    BY <2>3, <2>6, GrownTrans DEF Grows
  <2>8. \A i \in 1 .. n : Holds(w[n + 1], lines[i])
    BY <2>3, <2>6, GrownHolds DEF Grows
  <2>9. \A i \in 1 .. n + 1 : i \in 1 .. n \/ i = n + 1
    OBVIOUS
  <2> QED
    BY <2>6, <2>7, <2>8, <2>9
<1>6. Len(lines) \in N
  <2> HIDE DEF N
  <2> QED
    BY <1>4, <1>5, NatInduct
<1> QED
  BY <1>2, <1>6

\* Save, whether it gets through, is refused or fails half way.
DiskStep ==
  \/ \E lines \in Seq(Line) : SaveOk(lines) \/ SaveFails(lines)
  \/ SaveDiskFull

DiskTyped == files \in Seq(File) /\ current \in 0 .. Len(files)

LEMMA DiskInDisks ==
  ASSUME DiskTyped
  PROVE  /\ Disk \in Disks /\ Disk.files = files /\ Disk.current = current
         /\ Opened(Disk) \in Disks /\ Opened(Disk).current # 0
         /\ Grown(Disk, Opened(Disk))
<1>1. Disk \in Disks
  BY DEF DiskTyped, Disk, Disks
<1>2. Disk.files = files /\ Disk.current = current
  BY DEF Disk
<1> QED
  BY <1>1, <1>2, OpenedGrows DEF Grows

\* What ToDisk makes of a disk that has grown from this one.
LEMMA ToDiskGrows ==
  ASSUME DiskTyped, NEW g, Grows(Opened(Disk), g), ToDisk(g)
  PROVE  /\ DiskTyped' /\ current' # 0
         /\ Grown(Disk, g) /\ Disk' \in Disks /\ Disk'.files = g.files
<1>1. g \in Disks /\ g.current # 0 /\ Grown(Disk, g)
  BY DiskInDisks, GrownTrans DEF Grows
<1>2. files' = g.files /\ current' = g.current
  BY DEF ToDisk
<1>3. DiskTyped'
  BY <1>1, <1>2, DiskFields DEF DiskTyped
<1> QED
  BY <1>1, <1>2, <1>3 DEF Disk, Disks, DiskTyped

\* From one state to the next no file loses a line or changes its name, and
\* a new file is linked.
DiskKept ==
  /\ Len(files) <= Len(files')
  /\ \A f \in 1 .. Len(files) : Longer(files[f], files'[f])
  /\ \A f \in Len(files) + 1 .. Len(files') : files'[f].linked

LEMMA SaveKeeps ==
  ASSUME DiskTyped, DiskStep
  PROVE  DiskTyped' /\ DiskKept
<1>1. \E g : ToDisk(g) /\ Grows(Opened(Disk), g)
  <2>1. ASSUME NEW lines \in Seq(Line), SaveOk(lines)
        PROVE  \E g : ToDisk(g) /\ Grows(Opened(Disk), g)
    <3>1. lines \in Seq(Text)
      BY DEF Text
    <3>2. Grows(Opened(Disk), WrittenAll(Opened(Disk), lines))
      BY <3>1, DiskInDisks, WrittenAllGrows
    <3> QED
      BY <2>1, <3>2 DEF SaveOk
  <2>2. ASSUME SaveDiskFull
        PROVE  \E g : ToDisk(g) /\ Grows(Opened(Disk), g)
    BY <2>2, DiskInDisks, GrownRefl DEF SaveDiskFull, Grows
  <2>3. ASSUME NEW lines \in Seq(Line), SaveFails(lines)
        PROVE  \E g : ToDisk(g) /\ Grows(Opened(Disk), g)
    <3>1. PICK k \in 0 .. Len(lines) - 1, torn \in BOOLEAN :
            ToDisk(WrittenAll(Opened(Disk),
                     SubSeq(lines, 1, k) \o IF torn THEN <<Torn>> ELSE <<>>))
      BY <2>3 DEF SaveFails
    <3> DEFINE part == SubSeq(lines, 1, k) \o IF torn THEN <<Torn>> ELSE <<>>
    <3>2. SubSeq(lines, 1, k) \in Seq(Text)
      BY DEF Text
    <3>3. (IF torn THEN <<Torn>> ELSE <<>>) \in Seq(Text)
      <4>1. <<Torn>> \in Seq(Text)
        BY DEF Text
      <4>2. <<>> \in Seq(Text)
        OBVIOUS
      <4> QED
        BY <4>1, <4>2
    <3>4. part \in Seq(Text)
      BY <3>2, <3>3
    <3>5. Grows(Opened(Disk), WrittenAll(Opened(Disk), part))
      BY <3>4, DiskInDisks, WrittenAllGrows
    <3> QED
      BY <3>1, <3>5
  <2> QED
    BY <2>1, <2>2, <2>3 DEF DiskStep
<1>2. PICK g : ToDisk(g) /\ Grows(Opened(Disk), g)
  BY <1>1
<1>3. DiskTyped' /\ Grown(Disk, g) /\ files' = g.files
  BY <1>2, ToDiskGrows DEF ToDisk
<1> QED
  BY <1>3, DiskInDisks DEF Grown, DiskKept

\* What a Save that returns nil was given is on the disk.
LEMMA SaveHolds ==
  ASSUME DiskTyped, NEW lines \in Seq(Line), SaveOk(lines)
  PROVE  \A i \in 1 .. Len(lines) :
           \E f \in 1 .. Len(files') : HasLine(files'[f], lines[i])
<1> DEFINE g == WrittenAll(Opened(Disk), lines)
<1>1. lines \in Seq(Text)
  BY DEF Text
<1>2. \A i \in 1 .. Len(lines) : Holds(g, lines[i])
  BY <1>1, DiskInDisks, WrittenAllGrows
<1>3. files' = g.files
  BY DEF SaveOk, ToDisk
<1> QED
  BY <1>2, <1>3 DEF Holds

-----------------------------------------------------------------------------
(* Types *)

LEMMA OldestIn ==
  ASSUME DiskTyped, todo \subseteq DOMAIN files, todo # {}
  PROVE  /\ Oldest \in todo /\ Oldest \in 1 .. Len(files)
         /\ files[Oldest] \in File
         /\ files[Oldest].lines \in Seq(Text)
         /\ Len(files[Oldest].lines) \in Nat
<1>1. DOMAIN files = 1 .. Len(files)
  BY DEF DiskTyped
<1>2. todo \in SUBSET Nat
  BY <1>1
<1>3. \E m \in todo : \A k \in todo : m <= k
  BY <1>2, Least
<1>4. Oldest \in todo
  BY <1>3 DEF Oldest, Min
<1> QED
  BY <1>1, <1>4, FileFields DEF DiskTyped

LEMMA TypedDisk ==
  ASSUME TypeOK
  PROVE  /\ DiskTyped /\ DOMAIN files = 1 .. Len(files) /\ Len(files) \in Nat
         /\ \A f \in 1 .. Len(files) :
              /\ files[f] \in File /\ files[f].lines \in Seq(Text)
              /\ Len(files[f].lines) \in Nat
<1>1. DiskTyped
  BY DEF TypeOK, DiskTyped, File, Text
<1>2. DOMAIN files = 1 .. Len(files) /\ Len(files) \in Nat
  BY <1>1 DEF DiskTyped
<1> QED
  BY <1>1, <1>2, FileFields DEF DiskTyped

LEMMA TypeInit == Init => TypeInv
<1> SUFFICES ASSUME Init
             PROVE  TypeInv
  OBVIOUS
<1>1. /\ files \in Seq([lines : Seq(Line \union {Torn}), linked : BOOLEAN])
      /\ blockData \in Seq(Batches) /\ header \in Seq(Batches)
      /\ Len(files) = 0 /\ DOMAIN files = {}
  BY DEF Init
<1>2. DOMAIN readTo = {} /\ DOMAIN listed = {}
  BY DEF Init
<1>3. batch \in 0 .. MaxBatch /\ faults \in 0 .. MaxFault
      /\ restarts \in 0 .. MaxRestart /\ current \in 0 .. Len(files)
  BY <1>1, BoundsAssumption DEF Init
<1>4. export \in [Exporter -> {"off", "export", "failed", "saved", "refused"}]
  BY DEF Init
<1>5. TypeOK
  BY <1>1, <1>2, <1>3, <1>4 DEF Init, TypeOK
<1> QED
  BY <1>5 DEF Init, TypeInv, Holding

LEMMA FlushTypes ==
  ASSUME TypeInv, FlushStep
  PROVE  TypeInv'
<1> USE DEF TypeInv, flushVars, diskVars, readerVars, passVars, lifeVars,
            histVars
<1>1. CASE FlushExport
  <2>1. batch' \in Batches
    BY <1>1, BoundsAssumption DEF FlushExport, TypeOK, Batches
  <2>2. export' \in [Exporter -> {"off", "export", "failed", "saved", "refused"}]
    BY <1>1 DEF FlushExport
  <2>3. TypeOK'
    BY <1>1, <2>1, <2>2, SMTT(30) DEF FlushExport, TypeOK, Batches
  <2> QED
    BY <1>1, <2>1, <2>3 DEF FlushExport, Holding, TypeOK
<1>2. CASE FlushBuffer
  <2>1. batch' \in Batches
    BY <1>2, BoundsAssumption DEF FlushBuffer, TypeOK, Batches
  <2>2. TypeOK'
    BY <1>2, <2>1 DEF FlushBuffer, TypeOK, Batches
  <2> QED
    BY <1>2, <2>1, <2>2 DEF FlushBuffer, Holding, TypeOK
<1>3. CASE FlushStore
  <2>1. batch \in Batches
    BY <1>3 DEF FlushStore, Holding
  <2>2. blockData' \in Seq(Batches)
    BY <1>3, <2>1 DEF FlushStore, TypeOK
  <2>3. TypeOK'
    BY <1>3, <2>1, <2>2 DEF FlushStore, TypeOK
  <2> QED
    BY <1>3, <2>3 DEF FlushStore, Holding
<1>4. CASE FlushReturn
  <2>1. batch \in Batches
    BY <1>4 DEF FlushReturn, Holding
  <2>2. TypeOK'
    BY <1>4, <2>1 DEF FlushReturn, TypeOK
  <2> QED
    BY <1>4, <2>2 DEF FlushReturn, Holding
<1> QED
  BY <1>1, <1>2, <1>3, <1>4 DEF FlushStep

LEMMA ExportTypes ==
  ASSUME TypeInv, NEW e \in Exporter, ExportStep(e)
  PROVE  TypeInv'
<1> USE DEF TypeInv, flushVars, diskVars, readerVars, passVars, lifeVars,
            histVars
<1>1. export[e] # "off" /\ flush = "export" /\ batch \in Batches
  BY DEF ExportStep, ExportOk, ExportError, SaveBatch, SetStatus, Holding
<1>2. CASE ExportOk(e)
  <2>1. TypeOK'
    BY <1>1, <1>2 DEF ExportOk, TypeOK
  <2> QED
    BY <1>1, <1>2, <2>1 DEF ExportOk, Holding, TypeOK
<1>3. CASE ExportError(e)
  <2>1. TypeOK'
    BY <1>3 DEF ExportError, TypeOK
  <2> QED
    BY <1>1, <1>3, <2>1 DEF ExportError, Holding, TypeOK
<1>4. CASE SaveBatch(e)
  <2>1. LineOf(e, batch) \in Line
    BY <1>1 DEF LineOf, Line, Batches
  <2>2. DiskStep
    <3>1. <<LineOf(e, batch)>> \in Seq(Line)
      BY <2>1
    <3> QED
      BY <1>4, <3>1 DEF SaveBatch, DiskStep
  <2>3. DiskTyped' /\ Len(files) <= Len(files') /\ Len(files) \in Nat
    BY <2>2, SaveKeeps, TypedDisk DEF DiskKept
  <2>4. faults' \in 0 .. MaxFault
    BY <1>4, BoundsAssumption DEF SaveBatch, SaveOk, SaveDiskFull, SaveFails, TypeOK
  <2>5. DOMAIN files \subseteq DOMAIN files'
    BY <2>3, TypedDisk DEF DiskTyped
  <2>6. /\ export' \in [Exporter -> {"off", "export", "failed", "saved",
                                     "refused"}]
        /\ dropped' \subseteq Exporter \X Batches
        /\ \A d \in Exporter : export'[d] # "off" => export[d] # "off"
    <3>1. \E s \in {"off", "saved", "refused"} :
            export' = [export EXCEPT ![e] = s]
      BY <1>4 DEF SaveBatch
    <3>2. \/ dropped' = dropped
          \/ dropped' = dropped \union {<<e, batch>>}
      BY <1>4 DEF SaveBatch
    <3>3. dropped \subseteq Exporter \X Batches
      BY DEF TypeOK
    <3>4. dropped' \subseteq Exporter \X Batches
      BY <1>1, <3>2, <3>3
    <3> QED
      BY <1>1, <3>1, <3>4 DEF TypeOK
  <2>7. TypeOK'
    BY <1>4, <2>3, <2>4, <2>5, <2>6
       DEF SaveBatch, TypeOK, DiskTyped, File, Text
  <2> QED
    BY <1>1, <1>4, <2>6, <2>7 DEF SaveBatch, Holding
<1>5. CASE SetStatus(e)
  <2>1. TypeOK'
    BY <1>5 DEF SetStatus, TypeOK
  <2> QED
    BY <1>1, <1>5, <2>1 DEF SetStatus, Holding, TypeOK
<1> QED
  BY <1>2, <1>3, <1>4, <1>5 DEF ExportStep

\* The lines recoveryMonitor saves of blockData.
BlockLines == [i \in DOMAIN blockData |-> LineOf(PipelineName, blockData[i])]

LEMMA BlockLinesTyped ==
  ASSUME TypeOK
  PROVE  /\ BlockLines \in Seq(Line) /\ Len(BlockLines) = Len(blockData)
         /\ \A i \in 1 .. Len(blockData) :
              BlockLines[i] = LineOf(PipelineName, blockData[i])
<1>1. /\ blockData \in Seq(Batches) /\ Len(blockData) \in Nat
      /\ DOMAIN blockData = 1 .. Len(blockData)
  BY DEF TypeOK
<1>2. \A i \in 1 .. Len(blockData) : LineOf(PipelineName, blockData[i]) \in Line
  <2>1. \A i \in 1 .. Len(blockData) : blockData[i] \in Batches
    BY <1>1
  <2> QED
    BY <2>1 DEF LineOf, Line, Batches
<1>3. BlockLines
        = [i \in 1 .. Len(blockData) |-> LineOf(PipelineName, blockData[i])]
  BY <1>1 DEF BlockLines
<1> QED
  BY <1>1, <1>2, <1>3

LEMMA MonitorTypes ==
  ASSUME TypeInv, MonitorStep
  PROVE  TypeInv'
<1> USE DEF TypeInv, flushVars, diskVars, readerVars, passVars, lifeVars,
            histVars
<1>1. CASE MonitorSave
  <2>1. DiskStep
    BY <1>1, BlockLinesTyped DEF MonitorSave, DiskStep, BlockLines
  <2>2. DiskTyped' /\ Len(files) <= Len(files') /\ Len(files) \in Nat
    BY <2>1, SaveKeeps, TypedDisk DEF DiskKept
  <2>3. faults' \in 0 .. MaxFault
    BY <1>1, BoundsAssumption DEF MonitorSave, SaveOk, SaveFails, TypeOK
  <2>4. DOMAIN files \subseteq DOMAIN files'
    BY <2>2, TypedDisk DEF DiskTyped
  <2>5. monitor' \in {"idle", "truncate"}
    BY <1>1 DEF MonitorSave
  <2>6. TypeOK'
    BY <1>1, <2>2, <2>3, <2>4, <2>5, SMTT(30)
       DEF MonitorSave, TypeOK, DiskTyped, File, Text
  <2> QED
    BY <1>1, <2>5, <2>6 DEF MonitorSave, Holding
<1>2. CASE MonitorTruncate
  BY <1>2 DEF MonitorTruncate, TypeOK, Holding
<1>3. CASE MonitorEnter
  BY <1>3 DEF MonitorEnter, TypeOK, Holding
<1>4. CASE PassStart
  BY <1>4 DEF PassStart, TypeOK, Holding, Linked
<1>5. CASE ReceiveLine
  BY <1>5 DEF ReceiveLine, TypeOK, Holding
<1>6. CASE ReceiveFinish
  <2>1. Oldest \in DOMAIN files
    BY <1>6, TypedDisk, OldestIn DEF ReceiveFinish, Holding, TypeOK
  <2>2. removing' \subseteq DOMAIN files /\ DOMAIN readTo' \subseteq DOMAIN files
    BY <1>6, <2>1 DEF ReceiveFinish, TypeOK
  <2>3. TypeOK'
    BY <1>6, <2>2 DEF ReceiveFinish, TypeOK
  <2> QED
    BY <1>6, <2>3 DEF ReceiveFinish, Holding
<1>7. CASE RecoverOk
  <2>1. received \in Line
    BY <1>7 DEF RecoverOk, Holding
  <2>2. delivered' \subseteq Exporter \X Batches
    BY <1>7, <2>1 DEF RecoverOk, TakesDecoded, TypeOK, Line, Batches
  <2> QED
    BY <1>7, <2>2 DEF RecoverOk, TypeOK, Holding
<1>8. CASE RecoverError
  BY <1>8, ZenonT(30) DEF RecoverError, TypeOK, Holding
<1>9. CASE PassEnd
  <2>1. DOMAIN listed' = {}
    BY <1>9 DEF PassEnd
  <2>2. status' \in {"Normal", "Blocked", "Recovering"}
    BY <1>9 DEF PassEnd, TypeOK
  <2>3. TypeOK'
    BY <1>9, <2>1, <2>2 DEF PassEnd, TypeOK
  <2> QED
    BY <1>9, <2>3 DEF PassEnd, Holding
<1> QED
  BY <1>1, <1>2, <1>3, <1>4, <1>5, <1>6, <1>7, <1>8, <1>9 DEF MonitorStep

LEMMA ReaderTypes ==
  ASSUME TypeInv, ReaderStep
  PROVE  TypeInv'
<1> USE DEF TypeInv, flushVars, diskVars, passVars, lifeVars, histVars,
            ReaderOnly
<1>1. CASE ReaderOpen
  BY <1>1 DEF ReaderOpen, TypeOK, Holding
<1>2. CASE ReaderScan
  <2>1. /\ todo # {} /\ Oldest \in 1 .. Len(files)
        /\ files[Oldest].lines \in Seq(Text)
        /\ Len(files[Oldest].lines) \in Nat /\ pos \in Nat
    BY <1>2, TypedDisk, OldestIn DEF ReaderScan, Holding, TypeOK
  <2>2. pos + 1 \in 1 .. Len(files[Oldest].lines) /\ pos + 1 \in Nat
    BY <1>2, <2>1 DEF ReaderScan
  <2>3. files[Oldest].lines[pos + 1] \in Text
    BY <2>1, <2>2
  <2>4. message' \in Line \union {Finish}
    BY <1>2, <2>3 DEF ReaderScan, Text, TypeOK
  <2>5. /\ reader' \in {"open", "send"} /\ pos' \in Nat
        /\ todo' \subseteq DOMAIN files
        /\ reader' = "send" => todo' # {}
    BY <1>2, <2>1, <2>2 DEF ReaderScan, TypeOK
  <2>6. TypeOK'
    <3>1. ReaderOnly
      BY <1>2 DEF ReaderScan
    <3> QED
      BY <2>4, <2>5, <3>1 DEF TypeOK
  <2> QED
    BY <1>2, <2>5, <2>6 DEF ReaderScan, Holding
<1>3. CASE ReaderEOF
  <2>1. TypeOK'
    BY <1>3, SMTT(30) DEF ReaderEOF, TypeOK
  <2> QED
    BY <1>3, <2>1 DEF ReaderEOF, Holding
<1> QED
  BY <1>1, <1>2, <1>3 DEF ReaderStep

LEMMA RestartTypes ==
  ASSUME TypeInv, Restart, restarts' \in 0 .. MaxRestart, panicked' \in BOOLEAN
  PROVE  TypeInv'
<1>1. /\ blockData' \in Seq(Batches) /\ header' \in Seq(Batches)
      /\ DOMAIN listed' = {}
  BY DEF Restart
<1>2. current' \in 0 .. Len(files')
  BY TypedDisk DEF Restart, TypeInv
<1>3. export' \in [Exporter -> {"off", "export", "failed", "saved", "refused"}]
  BY DEF Restart
<1>4. TypeOK'
  BY <1>1, <1>2, <1>3 DEF TypeInv, Restart, TypeOK
<1> QED
  BY <1>4 DEF Restart, TypeInv, Holding

LEMMA OtherTypes ==
  ASSUME TypeInv,
         \/ RemoveStep \/ Crash \/ NilExporter \/ DiskChange
         \/ UNCHANGED vars
  PROVE  TypeInv'
<1> USE DEF TypeInv, flushVars, diskVars, readerVars, passVars, lifeVars,
            histVars
<1>1. CASE RemoveStep
  <2>1. PICK f \in removing : RemoveFile(f)
    BY <1>1 DEF RemoveStep
  <2>2. f \in DOMAIN files
    BY <2>1 DEF TypeOK
  <2>3. files' = [files EXCEPT ![f] = [files[f] EXCEPT !.linked = FALSE]]
    BY <2>1 DEF RemoveFile
  <2>4. [files[f] EXCEPT !.linked = FALSE] \in File
    BY <2>2, TypedDisk DEF File
  <2>5. files' \in Seq(File) /\ Len(files') = Len(files)
        /\ DOMAIN files' = DOMAIN files
    BY <2>2, <2>3, <2>4, TypedDisk DEF DiskTyped
  <2>6. /\ files' \in Seq([lines : Seq(Line \union {Torn}), linked : BOOLEAN])
        /\ current' \in 0 .. Len(files')
        /\ removing' \subseteq DOMAIN files'
    BY <2>1, <2>5 DEF RemoveFile, TypeOK, File, Text
  <2>7. TypeOK'
    <3>1. /\ todo' \subseteq DOMAIN files' /\ DOMAIN readTo' \subseteq DOMAIN files'
          /\ DOMAIN listed' \subseteq DOMAIN files'
      BY <2>1, <2>5 DEF RemoveFile, TypeOK
    <3>2. UNCHANGED <<status, diskFull, blockData, flushVars, export, faults,
                      monitor, reader, pos, message, passVars, lifeVars,
                      delivered, handled, buffered, raced, dropped>>
      BY <2>1 DEF RemoveFile
    <3> QED
      BY <2>6, <3>1, <3>2, SMTT(30) DEF TypeOK
  <2> QED
    BY <2>1, <2>7 DEF RemoveFile, Holding
<1>2. CASE Crash
  <2>1. restarts' \in 0 .. MaxRestart
    BY <1>2, BoundsAssumption DEF Crash, TypeOK
  <2> QED
    BY <1>2, <2>1, RestartTypes DEF Crash, TypeOK
<1>3. CASE NilExporter
  BY <1>3, RestartTypes DEF NilExporter, TypeOK
<1>4. CASE DiskChange
  BY <1>4 DEF DiskChange, TypeOK, Holding
<1>5. CASE UNCHANGED vars
  BY <1>5 DEF vars, TypeOK, Holding
<1> QED
  BY <1>1, <1>2, <1>3, <1>4, <1>5

LEMMA TypeStep == TypeInv /\ [Next]_vars => TypeInv'
BY FlushTypes, ExportTypes, MonitorTypes, ReaderTypes, OtherTypes DEF Next

LEMMA TypeInvariance == Spec => []TypeInv
BY TypeInit, TypeStep, PTL DEF Spec

\* Every variable of Export keeps its type, whatever fails, fills up or
\* crashes: what the reader hands to an exporter is a line that was decoded.
THEOREM TypeCorrect == Spec => []TypeOK
<1>1. TypeInv => TypeOK
  BY DEF TypeInv
<1> QED
  BY <1>1, TypeInvariance, PTL

-----------------------------------------------------------------------------
(* What every step leaves alone *)

\* No line is lost, exported or not, and what was noted of a batch stays.
LinesKept ==
  /\ Len(files) <= Len(files')
  /\ \A f \in 1 .. Len(files) :
       /\ Len(files[f].lines) <= Len(files'[f].lines)
       /\ \A i \in 1 .. Len(files[f].lines) :
            files'[f].lines[i] = files[f].lines[i]

HistoryKept ==
  /\ delivered \subseteq delivered'
  /\ dropped \subseteq dropped'
  /\ raced \subseteq raced'

LEMMA SameDisk ==
  ASSUME TypeInv, files' = files
  PROVE  DiskKept
BY TypedDisk, LongerRefl DEF TypeInv, DiskKept

\* Only a RemoveFile goroutine changes more of the disk than Save does.
LEMMA StepDisk ==
  ASSUME TypeInv, [Next]_vars
  PROVE  DiskKept \/ RemoveStep
<1> USE DEF flushVars, diskVars, readerVars, passVars, lifeVars, histVars
<1>1. CASE FlushStep
  BY <1>1, SameDisk
     DEF FlushStep, FlushExport, FlushBuffer, FlushStore, FlushReturn
<1>2. ASSUME NEW e \in Exporter, ExportStep(e)
      PROVE  DiskKept
  <2>1. CASE SaveBatch(e)
    <3>1. <<LineOf(e, batch)>> \in Seq(Line)
      BY <2>1 DEF SaveBatch, TypeInv, Holding, LineOf, Line, Batches
    <3>2. DiskStep
      BY <2>1, <3>1 DEF SaveBatch, DiskStep
    <3> QED
      BY <3>2, SaveKeeps, TypedDisk DEF TypeInv
  <2> QED
    BY <1>2, <2>1, SameDisk DEF ExportStep, ExportOk, ExportError, SetStatus
<1>3. CASE MonitorStep
  <2>1. CASE MonitorSave
    <3>1. DiskStep
      BY <2>1, BlockLinesTyped DEF MonitorSave, DiskStep, BlockLines, TypeInv
    <3> QED
      BY <3>1, SaveKeeps, TypedDisk DEF TypeInv
  <2> QED
    BY <1>3, <2>1, SameDisk
       DEF MonitorStep, MonitorTruncate, MonitorEnter, PassStart, ReceiveLine,
           ReceiveFinish, RecoverOk, RecoverError, PassEnd
<1>4. CASE ReaderStep
  BY <1>4, SameDisk
     DEF ReaderStep, ReaderOpen, ReaderScan, ReaderEOF, ReaderOnly
<1>5. CASE Crash \/ NilExporter \/ DiskChange \/ UNCHANGED vars
  BY <1>5, SameDisk DEF Crash, NilExporter, Restart, DiskChange, vars
<1> QED
  BY <1>1, <1>2, <1>3, <1>4, <1>5 DEF Next

\* What a RemoveFile goroutine does to the disk.
LEMMA RemoveDisk ==
  ASSUME TypeInv, NEW f \in removing, RemoveFile(f)
  PROVE  /\ f \in 1 .. Len(files)
         /\ Len(files') = Len(files)
         /\ \A g \in 1 .. Len(files) :
              /\ files'[g].lines = files[g].lines
              /\ g # f => files'[g].linked = files[g].linked
         /\ ~files'[f].linked
<1>1. f \in 1 .. Len(files)
  BY TypedDisk DEF TypeInv, TypeOK
<1>2. files' = [files EXCEPT ![f] = [files[f] EXCEPT !.linked = FALSE]]
  BY DEF RemoveFile
<1> DEFINE gone == [files[f] EXCEPT !.linked = FALSE]
<1>3. gone.lines = files[f].lines /\ ~gone.linked
  BY <1>1, TypedDisk DEF TypeInv, File
<1> HIDE DEF gone
<1>4. /\ files'[f] = gone
      /\ \A g \in 1 .. Len(files) : g # f => files'[g] = files[g]
      /\ Len(files') = Len(files)
  BY <1>1, <1>2, TypedDisk DEF TypeInv, DiskTyped, gone
<1> QED
  BY <1>1, <1>3, <1>4

LEMMA StepKeeps ==
  ASSUME TypeInv, [Next]_vars
  PROVE  LinesKept /\ HistoryKept
<1>1. LinesKept
  <2>1. CASE DiskKept
    BY <2>1 DEF DiskKept, Longer, LinesKept
  <2>2. CASE RemoveStep
    <3>1. PICK f \in removing : RemoveFile(f)
      BY <2>2 DEF RemoveStep
    <3> QED
      BY <3>1, RemoveDisk, TypedDisk DEF LinesKept, TypeInv
  <2> QED
    BY <2>1, <2>2, StepDisk
<1>2. HistoryKept
  <2> USE DEF HistoryKept, flushVars, diskVars, readerVars, passVars,
              lifeVars, histVars
  <2>1. CASE FlushStep
    BY <2>1
       DEF FlushStep, FlushExport, FlushBuffer, FlushStore, FlushReturn
  <2>2. ASSUME NEW e \in Exporter, ExportStep(e)
        PROVE  HistoryKept
    BY <2>2 DEF ExportStep, ExportOk, ExportError, SaveBatch, SetStatus
  <2>3. CASE MonitorStep
    BY <2>3
       DEF MonitorStep, MonitorSave, MonitorTruncate, MonitorEnter, PassStart,
           ReceiveLine, ReceiveFinish, RecoverOk, RecoverError, PassEnd
  <2>4. CASE ReaderStep
    BY <2>4 DEF ReaderStep, ReaderOpen, ReaderScan, ReaderEOF, ReaderOnly
  <2>5. CASE \/ RemoveStep \/ Crash \/ NilExporter \/ DiskChange
             \/ UNCHANGED vars
    BY <2>5 DEF RemoveStep, RemoveFile, Crash, NilExporter, Restart,
                DiskChange, vars
  <2> QED
    BY <2>1, <2>2, <2>3, <2>4, <2>5 DEF Next
<1> QED
  BY <1>1, <1>2

\* So a file whose first n lines are exported stays one, as long as n lines
\* were there,
LEMMA ExportedKept ==
  ASSUME TypeInv, LinesKept, HistoryKept,
         NEW f \in 1 .. Len(files), NEW n \in 0 .. Len(files[f].lines),
         ExportedUpTo(f, n)
  PROVE  ExportedUpTo(f, n)'
<1>1. Len(files[f].lines) \in Nat
  BY TypedDisk DEF TypeInv
<1>2. \A i \in 1 .. n : i \in 1 .. Len(files[f].lines)
  BY <1>1
<1>3. \A i \in 1 .. n : files'[f].lines[i] = files[f].lines[i]
  BY <1>2 DEF LinesKept
<1> QED
  BY <1>3 DEF ExportedUpTo, HistoryKept

\* a line that is saved stays saved,
LEMMA SavedKept ==
  ASSUME TypeInv, TypeInv', LinesKept, NEW e, NEW b, WrittenFor(e, b)
  PROVE  WrittenFor(e, b)'
<1>1. PICK f \in DOMAIN files : LineOf(e, b) \in Range(files[f].lines)
  BY DEF WrittenFor
<1>2. /\ f \in 1 .. Len(files) /\ f \in 1 .. Len(files')
      /\ f \in DOMAIN files'
      /\ DOMAIN files[f].lines = 1 .. Len(files[f].lines)
      /\ DOMAIN files'[f].lines = 1 .. Len(files'[f].lines)
      /\ Len(files[f].lines) \in Nat /\ Len(files'[f].lines) \in Nat
  BY TypedDisk DEF TypeInv, LinesKept
<1>3. PICK i \in 1 .. Len(files[f].lines) : files[f].lines[i] = LineOf(e, b)
  BY <1>1, <1>2 DEF Range
<1>4. /\ i \in DOMAIN files'[f].lines
      /\ files'[f].lines[i] = LineOf(e, b)
  BY <1>2, <1>3 DEF LinesKept
<1>5. LineOf(e, b) \in Range(files'[f].lines)
  BY <1>4 DEF Range
<1> QED
  BY <1>2, <1>5 DEF WrittenFor, LineOf

\* and a file cut off once stays cut off.
LEMMA TornKept ==
  ASSUME TypeInv, TypeInv', LinesKept, NEW f \in 1 .. Len(files),
         Torn \in Range(files[f].lines)
  PROVE  Torn \in Range(files'[f].lines)
<1>1. /\ f \in 1 .. Len(files') 
      /\ DOMAIN files[f].lines = 1 .. Len(files[f].lines)
      /\ DOMAIN files'[f].lines = 1 .. Len(files'[f].lines)
      /\ Len(files[f].lines) \in Nat /\ Len(files'[f].lines) \in Nat
  BY TypedDisk DEF TypeInv, LinesKept
<1>2. PICK i \in 1 .. Len(files[f].lines) : files[f].lines[i] = Torn
  BY <1>1 DEF Range
<1>3. i \in DOMAIN files'[f].lines /\ files'[f].lines[i] = Torn
  BY <1>1, <1>2 DEF LinesKept
<1> QED
  BY <1>3 DEF Range

-----------------------------------------------------------------------------
(* What was handed over was exported or written *)

LEMMA KeptStays ==
  ASSUME TypeInv, [Next]_vars, NEW e, NEW b, Kept(e, b)
  PROVE  Kept(e, b)'
BY TypeStep, StepKeeps, SavedKept DEF Kept, HistoryKept

\* A line that a Save returning nil was given is saved.
LEMMA NowSaved ==
  ASSUME TypeInv, TypeInv', NEW lines \in Seq(Line), SaveOk(lines),
         NEW i \in 1 .. Len(lines), NEW e, NEW b, lines[i] = LineOf(e, b)
  PROVE  WrittenFor(e, b)'
<1>1. PICK f \in 1 .. Len(files') : HasLine(files'[f], LineOf(e, b))
  BY SaveHolds, TypedDisk DEF TypeInv
<1>2. /\ f \in DOMAIN files'
      /\ DOMAIN files'[f].lines = 1 .. Len(files'[f].lines)
  BY TypedDisk DEF TypeInv
<1>3. LineOf(e, b) \in Range(files'[f].lines)
  BY <1>1, <1>2 DEF HasLine, Range
<1> QED
  BY <1>2, <1>3 DEF WrittenFor, LineOf

LEMMA HandledInit == Init => HandledInv
BY DEF Init, HandledInv

LEMMA HandledStep ==
  ASSUME TypeInv, HandledInv, [Next]_vars
  PROVE  HandledInv'
<1> USE DEF flushVars, diskVars, readerVars, passVars, lifeVars, histVars
<1>1. TypeInv' /\ \A e, b : Kept(e, b) => Kept(e, b)'
  BY TypeStep, KeptStays
<1>2. \A b \in handled, e \in Exporter : Kept(e, b)'
  BY <1>1 DEF HandledInv, Kept
<1>3. SUFFICES
        /\ \A b \in handled' \ handled, e \in Exporter : Kept(e, b)'
        /\ flush' = "export" =>
             \A e \in Exporter :
               export'[e] \in {"off", "saved", "refused"} => Kept(e, batch)'
  BY <1>2 DEF HandledInv, Kept
<1>4. CASE UNCHANGED <<flush, batch, export, handled>>
  BY <1>1, <1>4 DEF HandledInv
<1>5. CASE FlushExport
  BY <1>5 DEF FlushExport
<1>6. CASE FlushBuffer \/ FlushStore
  BY <1>6 DEF FlushBuffer, FlushStore
<1>7. CASE FlushReturn
  BY <1>1, <1>7 DEF FlushReturn, HandledInv
<1>8. ASSUME NEW e \in Exporter, ExportStep(e)
      PROVE  /\ handled' = handled
             /\ flush' = "export" =>
                  \A d \in Exporter :
                    export'[d] \in {"off", "saved", "refused"}
                      => Kept(d, batch)'
  <2>1. /\ handled' = handled /\ batch' = batch /\ flush = "export"
        /\ \A d \in Exporter : d # e => export'[d] = export[d]
    BY <1>8 DEF ExportStep, ExportOk, ExportError, SaveBatch, SetStatus,
                TypeInv, TypeOK, Holding
  <2>2. \A d \in Exporter \ {e} :
          export'[d] \in {"off", "saved", "refused"} => Kept(d, batch)'
    BY <1>1, <2>1 DEF HandledInv
  <2>3. export'[e] \in {"off", "saved", "refused"} => Kept(e, batch)'
    <3>1. CASE ExportOk(e)
      BY <2>1, <3>1 DEF ExportOk, Kept
    <3>2. CASE ExportError(e)
      BY <3>2 DEF ExportError, TypeInv, TypeOK
    <3>3. CASE SaveBatch(e)
      <4>1. CASE <<e, batch>> \in dropped'
        BY <2>1, <4>1 DEF Kept
      <4>2. CASE SaveOk(<<LineOf(e, batch)>>)
        <5> DEFINE one == <<LineOf(e, batch)>>
        <5>1. one \in Seq(Line)
          BY <3>3 DEF SaveBatch, TypeInv, Holding, LineOf, Line, Batches
        <5>2. 1 \in 1 .. Len(one) /\ one[1] = LineOf(e, batch)
          OBVIOUS
        <5>3. SaveOk(one)
          BY <4>2
        <5> HIDE DEF one
        <5>4. \A b : b = batch => WrittenFor(e, b)'
          BY <1>1, <5>1, <5>2, <5>3, NowSaved
        <5> QED
          BY <2>1, <5>4 DEF Kept, WrittenFor
      <4> QED
        BY <3>3, <4>1, <4>2 DEF SaveBatch
    <3>4. CASE SetStatus(e)
      <4>1. Kept(e, batch)
        BY <2>1, <3>4 DEF SetStatus, HandledInv
      <4> QED
        BY <1>1, <2>1, <4>1
    <3> QED
      BY <1>8, <3>1, <3>2, <3>3, <3>4 DEF ExportStep
  <2> QED
    BY <2>1, <2>2, <2>3
<1>9. CASE Crash \/ NilExporter
  BY <1>9 DEF Crash, NilExporter, Restart
<1>10. CASE MonitorStep
  BY <1>4, <1>10
     DEF MonitorStep, MonitorSave, MonitorTruncate, MonitorEnter, PassStart,
         ReceiveLine, ReceiveFinish, RecoverOk, RecoverError, PassEnd
<1>11. CASE ReaderStep \/ RemoveStep \/ DiskChange \/ UNCHANGED vars
  BY <1>4, <1>11
     DEF ReaderStep, ReaderOpen, ReaderScan, ReaderEOF, ReaderOnly,
         RemoveStep, RemoveFile, DiskChange, vars
<1> QED
  BY <1>5, <1>6, <1>7, <1>8, <1>9, <1>10, <1>11 DEF Next, FlushStep

LEMMA HandledInvariance == Spec => []HandledInv
<1>1. Init => TypeInv /\ HandledInv
  BY TypeInit, HandledInit
<1>2. TypeInv /\ HandledInv /\ [Next]_vars => (TypeInv /\ HandledInv)'
  BY TypeStep, HandledStep
<1> QED
  BY <1>1, <1>2, PTL DEF Spec

-----------------------------------------------------------------------------
(* What was buffered is in memory or written *)

LEMMA BufferedInit == Init => BufferedInv
BY DEF Init, BufferedInv, BufferedWritten

BlockStays ==
  /\ UNCHANGED <<blockData, buffered, raced, restarts, panicked>>
  /\ flush' = "buffer" => flush = "buffer" /\ header' = header
  /\ monitor' = "truncate" => monitor = "truncate"

LEMMA BufferedStays ==
  ASSUME BufferedInv, BlockStays,
         \A b : WrittenFor(PipelineName, b) => WrittenFor(PipelineName, b)'
  PROVE  BufferedInv'
BY DEF BufferedInv, BufferedWritten, BlockStays

\* What is in a slice after append: what was, and the new element.
LEMMA AppendRange ==
  ASSUME NEW S, NEW s \in Seq(S), NEW x \in S
  PROVE  Range(Append(s, x)) = Range(s) \union {x}
<1>1. /\ DOMAIN s = 1 .. Len(s) /\ Len(s) \in Nat
      /\ DOMAIN Append(s, x) = 1 .. Len(s) + 1
      /\ Append(s, x)[Len(s) + 1] = x
      /\ \A i \in 1 .. Len(s) : Append(s, x)[i] = s[i]
  OBVIOUS
<1> DEFINE t == Append(s, x)
<1>2. \A i \in DOMAIN t : i \in DOMAIN s \/ i = Len(s) + 1
  BY <1>1
<1>3. DOMAIN s \subseteq DOMAIN t /\ Len(s) + 1 \in DOMAIN t
  BY <1>1
<1>4. \A i \in DOMAIN s : t[i] = s[i]
  BY <1>1
<1>5. t[Len(s) + 1] = x
  BY <1>1
<1> HIDE DEF t
<1> QED
  BY <1>2, <1>3, <1>4, <1>5 DEF Range

LEMMA BufferedStep ==
  ASSUME TypeInv, BufferedInv, [Next]_vars
  PROVE  BufferedInv'
<1> USE DEF flushVars, diskVars, readerVars, passVars, lifeVars, histVars
<1>1. /\ TypeInv' /\ LinesKept
      /\ \A b : WrittenFor(PipelineName, b) => WrittenFor(PipelineName, b)'
  BY TypeStep, StepKeeps, SavedKept
<1>2. CASE BlockStays
  BY <1>1, <1>2, BufferedStays
<1>3. CASE FlushBuffer
  BY <1>1, <1>3 DEF FlushBuffer, BufferedInv, BufferedWritten
<1>4. CASE FlushStore
  <2>1. Range(blockData') = Range(header) \union {batch}
    BY <1>4, AppendRange DEF FlushStore, TypeInv, TypeOK, Holding
  <2>2. /\ flush = "buffer" /\ flush' = "idle" /\ monitor' = monitor
        /\ buffered' = buffered \union {batch}
        /\ raced' = IF monitor = "truncate" THEN raced \union {batch}
                                            ELSE raced
        /\ restarts' = restarts /\ panicked' = panicked
    BY <1>4 DEF FlushStore
  <2>3. BufferedWritten'
    BY <1>1, <2>1, <2>2 DEF BufferedInv, BufferedWritten
  <2>4. ASSUME monitor = "truncate", NEW b \in Range(blockData')
        PROVE  b \in raced' \/ WrittenFor(PipelineName, b)'
    <3>1. CASE b = batch
      BY <2>2, <2>4, <3>1
    <3>2. CASE b \in Range(header)
      BY <1>1, <2>2, <2>4, <3>2 DEF BufferedInv
    <3> QED
      BY <2>1, <3>1, <3>2
  <2> QED
    BY <2>2, <2>3, <2>4 DEF BufferedInv
<1>5. CASE MonitorSave
  <2>1. CASE monitor' = "truncate"
    <3>1. /\ SaveOk(BlockLines) /\ blockData' = blockData /\ raced' = raced
          /\ buffered' = buffered /\ header' = header /\ flush' = flush
          /\ restarts' = restarts /\ panicked' = panicked
      BY <1>5, <2>1 DEF MonitorSave, BlockLines
    <3>2. ASSUME NEW b \in Range(blockData)
          PROVE  WrittenFor(PipelineName, b)'
      <4>1. PICK i \in 1 .. Len(blockData) : blockData[i] = b
        BY DEF Range, TypeInv, TypeOK
      <4>2. /\ BlockLines \in Seq(Line) /\ i \in 1 .. Len(BlockLines)
            /\ BlockLines[i] = LineOf(PipelineName, b)
        BY <4>1, BlockLinesTyped DEF TypeInv
      <4> HIDE DEF BlockLines
      <4> QED
        BY <1>1, <3>1, <4>2, NowSaved
    <3> QED
      BY <1>1, <3>1, <3>2 DEF BufferedInv, BufferedWritten
  <2>2. CASE monitor' # "truncate"
    BY <1>2, <1>5, <2>2 DEF MonitorSave, BlockStays
  <2> QED
    BY <2>1, <2>2
<1>6. CASE MonitorTruncate
  <2>1. Range(blockData') = {}
    BY <1>6 DEF MonitorTruncate, Range
  <2>2. /\ monitor = "truncate" /\ monitor' = "enter"
        /\ UNCHANGED <<flush, header, buffered, raced, restarts, panicked>>
    BY <1>6 DEF MonitorTruncate
  <2> QED
    BY <1>1, <2>1, <2>2 DEF BufferedInv, BufferedWritten
<1>7. CASE Crash
  BY <1>7 DEF Crash, Restart, BufferedInv, BufferedWritten, TypeInv, TypeOK
<1>8. CASE NilExporter
  BY <1>8 DEF NilExporter, Restart, BufferedInv, BufferedWritten
<1>9. CASE FlushExport \/ FlushReturn
  BY <1>2, <1>9 DEF FlushExport, FlushReturn, BlockStays
<1>10. ASSUME NEW e \in Exporter, ExportStep(e)
       PROVE  BlockStays
  BY <1>10 DEF ExportStep, ExportOk, ExportError, SaveBatch, SetStatus,
               BlockStays
<1>11. CASE \/ MonitorEnter \/ PassStart \/ ReceiveLine \/ ReceiveFinish
            \/ RecoverOk \/ RecoverError \/ PassEnd
  BY <1>2, <1>11
     DEF MonitorEnter, PassStart, ReceiveLine, ReceiveFinish, RecoverOk,
         RecoverError, PassEnd, BlockStays
<1>12. CASE ReaderStep \/ RemoveStep \/ DiskChange \/ UNCHANGED vars
  BY <1>2, <1>12
     DEF ReaderStep, ReaderOpen, ReaderScan, ReaderEOF, ReaderOnly,
         RemoveStep, RemoveFile, DiskChange, vars, BlockStays
<1> QED
  BY <1>2, <1>3, <1>4, <1>5, <1>6, <1>7, <1>8, <1>9, <1>10, <1>11, <1>12
     DEF Next, FlushStep, MonitorStep

LEMMA BufferedInvariance == Spec => []BufferedInv
<1>1. Init => TypeInv /\ BufferedInv
  BY TypeInit, BufferedInit
<1>2. TypeInv /\ BufferedInv /\ [Next]_vars => (TypeInv /\ BufferedInv)'
  BY TypeStep, BufferedStep
<1> QED
  BY <1>1, <1>2, PTL DEF Spec

-----------------------------------------------------------------------------
(* RemovedWasExported *)

LEMMA ScanInit == Init => ScanInv /\ RemovedInv
BY DEF Init, ScanInv, RemovedInv

\* The line i of the oldest file has been dealt with, if no export failed.
Passed(i) ==
  LET l == files[Oldest].lines[i]
  IN  l # Torn /\ (Exported(l) \/ InFlight(i, l))

LEMMA ScanMeans ==
  ScanInv <=> (reader \in {"scan", "send"} =>
                 /\ pos <= Len(files[Oldest].lines)
                 /\ exportSuccess => \A i \in 1 .. pos : Passed(i))
BY DEF ScanInv, Passed

\* Lines and what is noted of them stay, so ScanInv does as long as the reader
\* is where it was and no line in flight is lost.
LEMMA ScanStays ==
  ASSUME TypeInv, ScanInv, LinesKept, HistoryKept,
         UNCHANGED <<todo, reader, pos>>,
         exportSuccess' => exportSuccess,
         reader \in {"scan", "send"} /\ exportSuccess' =>
           \A i \in 1 .. pos : \A l \in Line :
             InFlight(i, l) => Exported(l)' \/ InFlight(i, l)'
  PROVE  ScanInv'
<1>1. SUFFICES ASSUME reader \in {"scan", "send"}
               PROVE  /\ pos <= Len(files'[Oldest].lines)
                      /\ exportSuccess' => \A i \in 1 .. pos : Passed(i)'
  BY ScanMeans DEF ScanInv, Passed, Oldest
<1>2. /\ Oldest \in 1 .. Len(files) /\ Oldest' = Oldest
      /\ Len(files[Oldest].lines) \in Nat /\ pos \in Nat
      /\ files[Oldest].lines \in Seq(Text)
  BY <1>1, OldestIn, TypedDisk DEF TypeInv, TypeOK, Holding, Oldest
<1>3. /\ pos <= Len(files[Oldest].lines)
      /\ Len(files[Oldest].lines) <= Len(files'[Oldest].lines)
      /\ exportSuccess => \A i \in 1 .. pos : Passed(i)
  BY <1>1, <1>2, ScanMeans DEF LinesKept
<1>4. ASSUME exportSuccess', NEW i \in 1 .. pos, Passed(i)
      PROVE  Passed(i)'
  <2>1. i \in 1 .. Len(files[Oldest].lines)
    BY <1>2, <1>3
  <2> DEFINE l == files[Oldest].lines[i]
  <2>2. files'[Oldest].lines[i] = l
    BY <1>2, <2>1 DEF LinesKept
  <2>3. l \in Text
    BY <1>2, <2>1
  <2>4. l # Torn /\ (Exported(l) \/ InFlight(i, l))
    BY <1>4 DEF Passed
  <2>5. Exported(l)' \/ InFlight(i, l)'
    <3>1. PICK k \in Line : k = l
      BY <2>3, <2>4 DEF Text
    <3>2. Exported(k)' \/ InFlight(i, k)'
      BY <1>1, <1>4, <2>4, <3>1 DEF Exported, HistoryKept
    <3>3. l' = l
      BY <1>2, <2>2
    <3> QED
      BY <3>1, <3>2, <3>3 DEF Exported, InFlight
  <2> QED
    BY <1>2, <2>2, <2>4, <2>5 DEF Passed
<1>5. pos <= Len(files'[Oldest].lines)
  BY <1>2, <1>3 DEF LinesKept
<1> QED
  BY <1>3, <1>4, <1>5

LEMMA ScanStep ==
  ASSUME TypeInv, ScanInv, [Next]_vars
  PROVE  ScanInv'
<1> USE DEF flushVars, diskVars, readerVars, passVars, lifeVars, histVars
<1>1. TypeInv' /\ LinesKept /\ HistoryKept
  BY TypeStep, StepKeeps
<1>2. CASE reader' \notin {"scan", "send"}
  BY <1>2 DEF ScanInv
<1>3. CASE /\ UNCHANGED <<readerVars, received, exportSuccess>>
           /\ monitor = "export" => monitor' = "export"
  BY <1>1, <1>3, ScanStays DEF InFlight
<1>4. CASE PassStart \/ PassEnd \/ ReceiveFinish \/ Crash \/ NilExporter
  BY <1>2, <1>4
     DEF PassStart, PassEnd, ReceiveFinish, Crash, NilExporter, Restart
<1>5. CASE ReaderOpen
  <2>1. CASE reader' = "scan"
    <3>1. /\ todo # {} /\ todo' = todo /\ Oldest' = Oldest
          /\ files' = files /\ pos' = 0
      BY <1>5, <2>1 DEF ReaderOpen, ReaderOnly, Oldest
    <3>2. Len(files[Oldest].lines) \in Nat
      BY <3>1, OldestIn, TypedDisk DEF TypeInv, TypeOK
    <3> QED
      BY <3>1, <3>2 DEF ScanInv
  <2> QED
    BY <1>2, <1>5, <2>1 DEF ReaderOpen
<1>6. CASE ReaderScan /\ reader' = "send"
  <2>1. /\ reader = "scan" /\ todo' = todo /\ todo # {} /\ pos' = pos + 1
        /\ monitor' = monitor /\ received' = received
        /\ files' = files /\ delivered' = delivered
        /\ exportSuccess' = exportSuccess /\ Oldest' = Oldest
        /\ pos < Len(files[Oldest].lines)
        /\ files[Oldest].lines[pos + 1] # Torn
        /\ message' = files[Oldest].lines[pos + 1]
    BY <1>6 DEF ReaderScan, ReaderOnly, Oldest, TypeInv, Holding
  <2>2. /\ pos \in Nat /\ Len(files[Oldest].lines) \in Nat
    BY <2>1, OldestIn, TypedDisk DEF TypeInv, TypeOK
  <2>3. pos' <= Len(files'[Oldest'].lines)
    BY <2>1, <2>2
  <2>4. ASSUME exportSuccess', NEW i \in 1 .. pos'
        PROVE  Passed(i)'
    <3>1. CASE i = pos + 1
      BY <1>6, <2>1, <3>1 DEF Passed, InFlight
    <3>2. CASE i \in 1 .. pos
      <4>1. Passed(i)
        BY <2>1, <2>4, <3>2, ScanMeans
      <4> QED
        BY <2>1, <4>1 DEF Passed, InFlight, Exported
    <3> QED
      BY <2>1, <2>2, <3>1, <3>2
  <2> QED
    BY <2>3, <2>4 DEF ScanInv, Passed, InFlight, Exported, Oldest
<1>7. CASE ReaderScan /\ reader' # "send"
  BY <1>2, <1>7 DEF ReaderScan
<1>8. CASE ReaderEOF
  <2>1. /\ reader = "scan" /\ todo' = todo /\ pos' = pos
        /\ monitor' = monitor /\ received' = received
        /\ files' = files /\ delivered' = delivered
        /\ exportSuccess' = exportSuccess /\ Oldest' = Oldest
    BY <1>8 DEF ReaderEOF, ReaderOnly, Oldest
  <2> QED
    BY <2>1 DEF ScanInv, InFlight, Exported, Oldest
<1>9. CASE ReceiveLine
  <2>1. /\ reader = "send" /\ todo' = todo /\ pos' = pos
        /\ monitor = "receive" /\ monitor' = "export" /\ received' = message
        /\ files' = files /\ delivered' = delivered
        /\ exportSuccess' = exportSuccess /\ Oldest' = Oldest
    BY <1>9 DEF ReceiveLine, Oldest
  <2> QED
    BY <2>1 DEF ScanInv, InFlight, Exported, Oldest
<1>10. CASE RecoverOk
  <2>1. /\ UNCHANGED <<todo, reader, pos, message, exportSuccess>>
        /\ delivered' = delivered \union {<<received.name, received.batch>>}
    BY <1>10 DEF RecoverOk
  <2>2. \A i, l : InFlight(i, l) => Exported(l)' \/ InFlight(i, l)'
    BY <2>1 DEF InFlight, Exported
  <2> QED
    BY <1>1, <2>1, <2>2, ScanStays
<1>11. CASE RecoverError
  BY <1>1, <1>11, ScanStays DEF RecoverError
<1>12. CASE FlushStep
  BY <1>3, <1>12
     DEF FlushStep, FlushExport, FlushBuffer, FlushStore, FlushReturn
<1>13. ASSUME NEW e \in Exporter, ExportStep(e)
       PROVE  ScanInv'
  BY <1>3, <1>13 DEF ExportStep, ExportOk, ExportError, SaveBatch, SetStatus
<1>14. CASE MonitorSave \/ MonitorTruncate \/ MonitorEnter
  BY <1>3, <1>14 DEF MonitorSave, MonitorTruncate, MonitorEnter
<1>15. CASE RemoveStep \/ DiskChange \/ UNCHANGED vars
  BY <1>3, <1>15 DEF RemoveStep, RemoveFile, DiskChange, vars
<1> QED
  BY <1>4, <1>5, <1>6, <1>7, <1>8, <1>9, <1>10, <1>11, <1>12, <1>13, <1>14,
     <1>15
     DEF Next, MonitorStep, ReaderStep

\* When Finish is taken and no export of the file failed, all lines read
\* from it are exported: none is in flight.
LEMMA FinishExported ==
  ASSUME TypeInv, ScanInv, ReceiveFinish, exportSuccess
  PROVE  /\ Oldest \in 1 .. Len(files)
         /\ pos \in 0 .. Len(files[Oldest].lines)
         /\ ExportedUpTo(Oldest, pos)
<1>1. /\ reader = "send" /\ monitor = "receive" /\ message = Finish
      /\ todo # {}
  BY DEF ReceiveFinish, TypeInv, Holding
<1>2. /\ Oldest \in 1 .. Len(files) /\ files[Oldest].lines \in Seq(Text)
      /\ Len(files[Oldest].lines) \in Nat /\ pos \in Nat
      /\ pos <= Len(files[Oldest].lines)
  BY <1>1, OldestIn, TypedDisk DEF TypeInv, TypeOK, ScanInv
<1>3. ASSUME NEW i \in 1 .. pos
      PROVE  files[Oldest].lines[i] # Torn /\ Exported(files[Oldest].lines[i])
  <2>1. Passed(i)
    BY <1>1, ScanMeans
  <2>2. files[Oldest].lines[i] \in Text
    BY <1>2
  <2>3. files[Oldest].lines[i] # Finish
    BY <2>1, <2>2, MarkAssumption DEF Passed, Text
  <2> QED
    BY <1>1, <2>1, <2>3 DEF Passed, InFlight
<1> QED
  BY <1>2, <1>3 DEF ExportedUpTo, Exported

LEMMA RemovedStep ==
  ASSUME TypeInv, ScanInv, RemovedInv, [Next]_vars
  PROVE  RemovedInv'
<1> USE DEF flushVars, diskVars, readerVars, passVars, lifeVars, histVars
<1> DEFINE Fine(f) == /\ f \in DOMAIN readTo
                      /\ readTo[f] \in 0 .. Len(files[f].lines)
                      /\ ExportedUpTo(f, readTo[f])
<1>1. /\ TypeInv' /\ LinesKept /\ HistoryKept
      /\ DOMAIN files = 1 .. Len(files) /\ DOMAIN files' = 1 .. Len(files')
      /\ Len(files) \in Nat /\ Len(files') \in Nat
  BY TypeStep, StepKeeps, TypedDisk DEF TypeInv
<1>2. ASSUME NEW f \in 1 .. Len(files), Fine(f),
             f \in DOMAIN readTo', readTo'[f] = readTo[f]
      PROVE  Fine(f)'
  <2>1. PICK n \in 0 .. Len(files[f].lines) : n = readTo[f]
    BY <1>2
  <2>2. ExportedUpTo(f, n)'
    BY <1>1, <1>2, <2>1, ExportedKept
  <2>3. Len(files[f].lines) \in Nat /\ Len(files'[f].lines) \in Nat
        /\ Len(files[f].lines) <= Len(files'[f].lines)
    BY <1>1, TypedDisk DEF LinesKept, TypeInv
  <2> QED
    BY <1>2, <2>1, <2>2, <2>3 DEF ExportedUpTo
<1>3. CASE DiskKept /\ readTo' = readTo /\ removing' \subseteq removing
  <2>1. SUFFICES ASSUME NEW f \in 1 .. Len(files'),
                        f \in removing' \/ ~files'[f].linked
                 PROVE  Fine(f)'
    BY <1>1 DEF RemovedInv
  <2>2. f \in 1 .. Len(files) /\ (f \in removing \/ ~files[f].linked)
    <3>1. CASE f \in removing'
      BY <1>1, <1>3, <3>1 DEF TypeInv, TypeOK
    <3>2. CASE ~files'[f].linked
      <4>1. f \notin Len(files) + 1 .. Len(files')
        BY <1>3, <3>2 DEF DiskKept
      <4>2. f \in 1 .. Len(files)
        BY <1>1, <4>1
      <4> QED
        BY <1>3, <3>2, <4>2 DEF DiskKept, Longer
    <3> QED
      BY <2>1, <3>1, <3>2
  <2> QED
    BY <1>1, <1>2, <1>3, <2>2 DEF RemovedInv
<1>4. CASE RemoveStep
  <2>1. PICK f \in removing : RemoveFile(f)
    BY <1>4 DEF RemoveStep
  <2>2. SUFFICES ASSUME NEW g \in 1 .. Len(files'),
                        g \in removing' \/ ~files'[g].linked
                 PROVE  Fine(g)'
    BY <1>1 DEF RemovedInv
  <2>3. /\ g \in 1 .. Len(files) /\ (g \in removing \/ ~files[g].linked)
        /\ readTo' = readTo
    BY <2>1, <2>2, RemoveDisk DEF RemoveFile
  <2> QED
    BY <1>1, <1>2, <2>3 DEF RemovedInv
<1>5. CASE ReceiveFinish /\ exportSuccess
  <2>1. /\ removing' = removing \union {Oldest}
        /\ readTo' = [f \in DOMAIN readTo \union {Oldest} |->
                        IF f = Oldest THEN pos ELSE readTo[f]]
        /\ files' = files /\ delivered' = delivered
    BY <1>5 DEF ReceiveFinish
  <2>2. SUFFICES ASSUME NEW f \in 1 .. Len(files'),
                        f \in removing' \/ ~files'[f].linked
                 PROVE  Fine(f)'
    BY <1>1 DEF RemovedInv
  <2>3. CASE f = Oldest
    <3>1. f \in DOMAIN readTo' /\ readTo'[f] = pos
      BY <2>1, <2>3
    <3> QED
      BY <1>5, <2>1, <2>3, <3>1, FinishExported DEF ExportedUpTo
  <2>4. CASE f # Oldest
    <3>1. Fine(f) /\ f \in 1 .. Len(files)
      BY <1>1, <2>1, <2>2, <2>4 DEF RemovedInv
    <3>2. f \in DOMAIN readTo' /\ readTo'[f] = readTo[f]
      BY <2>1, <2>4, <3>1
    <3> QED
      BY <1>2, <3>1, <3>2
  <2> QED
    BY <2>3, <2>4
<1>6. CASE ReceiveFinish /\ ~exportSuccess
  BY <1>3, <1>6, SameDisk DEF ReceiveFinish
<1>7. CASE FlushStep
  BY <1>3, <1>7, SameDisk
     DEF FlushStep, FlushExport, FlushBuffer, FlushStore, FlushReturn
<1>8. ASSUME NEW e \in Exporter, ExportStep(e)
      PROVE  readTo' = readTo /\ removing' = removing /\ ~RemoveStep
  BY <1>8 DEF ExportStep, ExportOk, ExportError, SaveBatch, SetStatus,
              RemoveStep, RemoveFile
<1>9. CASE Crash \/ NilExporter
  BY <1>3, <1>9, SameDisk DEF Crash, NilExporter, Restart
<1>10. CASE \/ MonitorSave \/ MonitorTruncate \/ MonitorEnter \/ PassStart
            \/ ReceiveLine \/ RecoverOk \/ RecoverError \/ PassEnd
  <2>1. readTo' = readTo /\ removing' = removing
    BY <1>10 DEF MonitorSave, MonitorTruncate, MonitorEnter, PassStart,
                 ReceiveLine, RecoverOk, RecoverError, PassEnd
  <2> QED
    BY <1>3, <1>4, <2>1, StepDisk
<1>11. CASE ReaderStep \/ DiskChange \/ UNCHANGED vars
  BY <1>3, <1>11, SameDisk
     DEF ReaderStep, ReaderOpen, ReaderScan, ReaderEOF, ReaderOnly,
         DiskChange, vars
<1>12. CASE \E e \in Exporter : ExportStep(e)
  BY <1>3, <1>8, <1>12, StepDisk
<1> QED
  BY <1>4, <1>5, <1>6, <1>7, <1>9, <1>10, <1>11, <1>12
     DEF Next, MonitorStep

LEMMA RemovedInvariance == Spec => []RemovedInv
<1>1. Init => TypeInv /\ ScanInv /\ RemovedInv
  BY TypeInit, ScanInit
<1>2. /\ TypeInv /\ ScanInv /\ RemovedInv /\ [Next]_vars
      => (TypeInv /\ ScanInv /\ RemovedInv)'
  BY TypeStep, ScanStep, RemovedStep
<1> QED
  BY <1>1, <1>2, PTL DEF Spec

\* A file is removed only when every line recovery read from it was exported:
\* for any number of exporters, files and lines, whatever is saved, fails or
\* crashes meanwhile (tryRecoverFromDisk, recoverFile).
THEOREM RemovedExported == Spec => []RemovedWasExported
<1>1. RemovedInv => RemovedWasExported
  BY DEF RemovedInv, RemovedWasExported
<1> QED
  BY RemovedInvariance, <1>1, PTL

-----------------------------------------------------------------------------
(* HandledIsKept and BufferedIsKept: what was written and then removed was   *)
(* exported, unless it was behind what recovery had read. *)

LEMMA WrittenIsKept ==
  ASSUME RemovedInv, NEW e, NEW b, WrittenFor(e, b)
  PROVE  KeptFor(e, b)
<1>1. PICK f \in DOMAIN files : LineOf(e, b) \in Range(files[f].lines)
  BY DEF WrittenFor
<1>2. PICK i \in DOMAIN files[f].lines : files[f].lines[i] = LineOf(e, b)
  BY <1>1 DEF Range
<1>3. CASE files[f].linked \/ i \notin 1 .. readTo[f]
  BY <1>2, <1>3 DEF KeptFor, SavedFor
<1>4. CASE ~files[f].linked /\ i \in 1 .. readTo[f]
  <2>1. ExportedUpTo(f, readTo[f])
    BY <1>4 DEF RemovedInv
  <2>2. <<files[f].lines[i].name, files[f].lines[i].batch>> \in delivered
    BY <1>4, <2>1 DEF ExportedUpTo
  <2>3. files[f].lines[i].name = e /\ files[f].lines[i].batch = b
    BY <1>2 DEF LineOf
  <2> QED
    BY <2>2, <2>3 DEF KeptFor
<1> QED
  BY <1>3, <1>4

\* A batch given to the exporters is kept for each of them, exported or in a
\* file that recovery has not removed, unless its own Save reported an error:
\* for any number of exporters, over crashes, full disks, failed writes and
\* removals (flushBatch, handleExportError, tryRecoverFromDisk).
THEOREM HandledKept == Spec => []HandledIsKept
<1>1. HandledInv /\ RemovedInv => HandledIsKept
  <2> SUFFICES ASSUME HandledInv, RemovedInv,
                      NEW b \in handled, NEW e \in Exporter
               PROVE  <<e, b>> \in dropped \/ KeptFor(e, b)
    BY DEF HandledIsKept
  <2>1. Kept(e, b)
    BY DEF HandledInv
  <2> QED
    BY <2>1, WrittenIsKept DEF Kept, KeptFor
<1> QED
  BY HandledInvariance, RemovedInvariance, <1>1, PTL

\* While the process lives, a batch appended to blockData is in it or saved,
\* however appends that started on an older header, failing writes and the
\* monitor's truncation interleave, but for those raced (flushBatch,
\* recoveryMonitor).
THEOREM BufferedKept == Spec => []BufferedIsKept
<1>1. BufferedInv /\ RemovedInv => BufferedIsKept
  <2> SUFFICES ASSUME BufferedInv, RemovedInv
               PROVE  BufferedIsKept
    OBVIOUS
  <2>1. \A b : WrittenFor(PipelineName, b) => KeptFor(PipelineName, b)
    BY WrittenIsKept
  <2>2. BufferedWritten
    BY DEF BufferedInv
  <2> QED
    BY <2>1, <2>2 DEF BufferedIsKept, BufferedWritten
<1> QED
  BY BufferedInvariance, RemovedInvariance, <1>1, PTL

-----------------------------------------------------------------------------
(* NormalAfterCleanPass *)

InPass == monitor \in {"receive", "export"}

LEMMA PassInit == Init => PassInv
BY DEF Init, PassInv

\* No file comes back once it was removed.
LEMMA StepLinked ==
  ASSUME TypeInv, [Next]_vars, NEW f \in 1 .. Len(files), f \in Linked'
  PROVE  f \in Linked
<1>1. f \in DOMAIN files /\ files'[f].linked
  BY TypedDisk DEF TypeInv, Linked
<1>2. files[f].linked
  <2>1. CASE DiskKept
    BY <1>1, <2>1 DEF DiskKept, Longer
  <2>2. CASE RemoveStep
    <3>1. PICK g \in removing : RemoveFile(g)
      BY <2>2 DEF RemoveStep
    <3> QED
      BY <1>1, <3>1, RemoveDisk
  <2> QED
    BY <2>1, <2>2, StepDisk
<1> QED
  BY <1>1, <1>2 DEF Linked

\* What a pass knows of a file stays true while the file is yet to be read or
\* has been exported.
LEMMA DealtStays ==
  ASSUME TypeInv, [Next]_vars, NEW f \in DOMAIN listed,
         listed[f] \in 0 .. Len(files[f].lines), listed' = listed,
         Dealt(f), f \in todo => f \in todo'
  PROVE  /\ Dealt(f)'
         /\ listed[f] \in 0 .. Len(files'[f].lines)
<1>1. /\ TypeInv' /\ LinesKept /\ HistoryKept /\ f \in 1 .. Len(files)
      /\ Len(files[f].lines) \in Nat
  <2>1. f \in 1 .. Len(files)
    BY TypedDisk DEF TypeInv, TypeOK
  <2> QED
    BY <2>1, TypeStep, StepKeeps, TypedDisk DEF TypeInv
<1>2. PICK n \in 0 .. Len(files[f].lines) : n = listed[f]
  OBVIOUS
<1>3. ExportedUpTo(f, n) => ExportedUpTo(f, n)'
  BY <1>1, ExportedKept
<1>4. n \in 0 .. Len(files'[f].lines)
  BY <1>1 DEF LinesKept
<1>5. ASSUME f \in Linked', Torn \notin Range(files'[f].lines)
      PROVE  f \in todo' \/ ExportedUpTo(f, n)'
  <2>1. f \in Linked /\ Torn \notin Range(files[f].lines)
    BY <1>1, <1>5, StepLinked, TornKept
  <2> QED
    BY <1>2, <1>3, <2>1 DEF Dealt
<1> QED
  BY <1>2, <1>4, <1>5 DEF Dealt, ExportedUpTo

LEMMA PassStep ==
  ASSUME TypeInv, ScanInv, PassInv, [Next]_vars
  PROVE  PassInv'
<1> USE DEF flushVars, diskVars, readerVars, passVars, lifeVars, histVars
<1>1. /\ TypeInv' /\ LinesKept
  BY TypeStep, StepKeeps
<1>2. CASE ~InPass' /\ exportSuccess' = exportSuccess /\ errorCount' = errorCount
  BY <1>2 DEF PassInv, InPass
<1>3. ASSUME InPass, listed' = listed,
             NEW f \in DOMAIN listed, ~errorCount => Dealt(f),
             f \in todo => f \in todo'
      PROVE  /\ listed'[f] \in 0 .. Len(files'[f].lines)
             /\ ~errorCount => Dealt(f)'
  <2>1. listed[f] \in 0 .. Len(files[f].lines)
    BY <1>3 DEF PassInv, InPass
  <2>2. f \in 1 .. Len(files)
    BY TypedDisk DEF TypeInv, TypeOK
  <2>3. listed[f] \in 0 .. Len(files'[f].lines)
    BY <1>1, <2>1, <2>2 DEF LinesKept
  <2>4. ~errorCount => Dealt(f)'
    BY <1>3, <2>1, DealtStays
  <2> QED
    BY <1>3, <2>3, <2>4
\* A step that leaves the reader and the flags of the pass alone.
<1>4. CASE /\ UNCHANGED <<readerVars, listed, exportSuccess, errorCount>>
           /\ InPass' => InPass /\ (status' = status \/ status' # "Normal")
  <2>1. Oldest' = Oldest
    BY <1>4 DEF Oldest
  <2>2. CASE InPass'
    <3>1. /\ InPass /\ status' # "Normal"
      BY <1>4, <2>2 DEF PassInv, InPass
    <3>2. \A f \in DOMAIN listed :
            /\ listed'[f] \in 0 .. Len(files'[f].lines)
            /\ ~errorCount => Dealt(f)'
      BY <1>3, <1>4, <3>1 DEF PassInv, InPass
    <3> QED
      BY <1>4, <2>1, <3>1, <3>2 DEF PassInv, InPass
  <2> QED
    BY <1>2, <1>4, <2>2
<1>5. CASE PassStart
  <2>1. /\ todo' = Linked /\ listed' = [f \in Linked |-> Len(files[f].lines)]
        /\ status' # "Normal" /\ files' = files /\ reader' = "open"
        /\ exportSuccess'
    BY <1>5 DEF PassStart
  <2>2. \A f \in Linked : Len(files[f].lines) \in Nat
    BY TypedDisk DEF TypeInv, Linked
  <2> QED
    BY <2>1, <2>2 DEF PassInv, Dealt
<1>6. CASE PassEnd
  BY <1>6 DEF PassEnd, PassInv
<1>7. CASE Crash \/ NilExporter
  BY <1>7 DEF Crash, NilExporter, Restart, PassInv
<1>8. CASE ReaderStep /\ ~InPass
  BY <1>2, <1>8
     DEF ReaderStep, ReaderOpen, ReaderScan, ReaderEOF, ReaderOnly, InPass
\* The reader is done with a file, or starts on one.
<1>9. CASE InPass /\ (ReaderOpen \/ (ReaderScan /\ reader' = "open"))
  <2>1. /\ UNCHANGED <<files, listed, status, delivered, exportSuccess,
                       errorCount, monitor>>
        /\ reader' # "send" /\ todo # {} /\ todo' \subseteq todo
    BY <1>9 DEF ReaderOpen, ReaderScan, ReaderOnly, TypeInv, Holding
  <2>2. ASSUME NEW f \in DOMAIN listed, f \in todo, f \notin todo'
        PROVE  ~(f \in Linked /\ Torn \notin Range(files[f].lines))
    <3>1. f = Oldest
      BY <1>9, <2>2 DEF ReaderOpen, ReaderScan
    <3>2. CASE ReaderOpen
      BY <2>2, <3>1, <3>2 DEF ReaderOpen
    <3>3. CASE ReaderScan
      <4>1. /\ files[f].lines[pos + 1] = Torn /\ pos < Len(files[f].lines)
        BY <1>9, <3>1, <3>3 DEF ReaderScan, ReaderOpen
      <4>2. /\ files[f].lines \in Seq(Text) /\ Len(files[f].lines) \in Nat
            /\ pos \in Nat
        BY <2>1, <3>1, OldestIn, TypedDisk DEF TypeInv, TypeOK
      <4>3. pos + 1 \in DOMAIN files[f].lines
        BY <4>1, <4>2
      <4> QED
        BY <4>1, <4>3 DEF Range
    <3> QED
      BY <1>9, <3>2, <3>3
  <2>3. ASSUME NEW f \in DOMAIN listed, ~errorCount
        PROVE  Dealt(f)'
    <3>1. Dealt(f)
      BY <1>9, <2>3 DEF PassInv, InPass
    <3> QED
      BY <2>1, <2>2, <3>1 DEF Dealt, Linked, ExportedUpTo
  <2> QED
    BY <1>9, <2>1, <2>3 DEF PassInv, InPass
<1>10. CASE InPass /\ ReaderScan /\ reader' # "open"
  <2>1. /\ UNCHANGED <<files, listed, status, delivered, exportSuccess,
                       errorCount, monitor, todo>>
        /\ todo # {} /\ pos < Len(files[Oldest].lines)
        /\ files[Oldest].lines[pos + 1] # Torn
        /\ message' = files[Oldest].lines[pos + 1]
    BY <1>10 DEF ReaderScan, ReaderOnly, TypeInv, Holding
  <2>2. /\ files[Oldest].lines \in Seq(Text) /\ pos \in Nat
        /\ Len(files[Oldest].lines) \in Nat
    BY <2>1, OldestIn, TypedDisk DEF TypeInv, TypeOK
  <2>3. files[Oldest].lines[pos + 1] \in Text
    BY <2>1, <2>2
  <2>4. message' # Finish
    BY <2>1, <2>3, MarkAssumption DEF Text
  <2> QED
    BY <1>10, <2>1, <2>4 DEF PassInv, InPass, Dealt, Linked, ExportedUpTo
<1>11. CASE InPass /\ ReaderEOF
  <2>1. /\ UNCHANGED <<files, listed, status, delivered, exportSuccess,
                       errorCount, monitor, todo, pos>>
        /\ todo # {} /\ pos = Len(files[Oldest].lines)
    BY <1>11 DEF ReaderEOF, ReaderOnly, TypeInv, Holding
  <2>2. Oldest \in todo /\ Oldest' = Oldest
    BY <2>1, OldestIn, TypedDisk DEF TypeInv, TypeOK, Oldest
  <2>3. listed[Oldest] \in 0 .. pos
    BY <1>11, <2>1, <2>2 DEF PassInv, InPass
  <2>4. listed'[Oldest'] <= pos'
    BY <2>1, <2>2, <2>3
  <2> QED
    BY <1>11, <2>1, <2>4 DEF PassInv, InPass, Dealt, Linked, ExportedUpTo
<1>12. CASE ReceiveLine
  BY <1>12
     DEF ReceiveLine, PassInv, InPass, Dealt, Linked, ExportedUpTo, Oldest
<1>13. CASE ReceiveFinish
  <2>1. /\ UNCHANGED <<files, listed, status, delivered, errorCount, monitor>>
        /\ InPass /\ reader = "send" /\ message = Finish /\ reader' = "open"
        /\ todo' = todo \ {Oldest} /\ exportSuccess'
    BY <1>13 DEF ReceiveFinish, InPass
  <2>2. ASSUME NEW f \in DOMAIN listed, ~errorCount
        PROVE  Dealt(f)'
    <3>1. Dealt(f) /\ exportSuccess
      BY <2>1, <2>2 DEF PassInv, InPass
    <3>2. CASE f = Oldest /\ f \in todo
      <4>1. ExportedUpTo(f, pos) /\ pos \in Nat
        BY <1>13, <3>1, <3>2, FinishExported DEF TypeInv, TypeOK
      <4>2. listed[f] \in Nat /\ listed[f] <= pos
        BY <2>1, <3>2 DEF PassInv, InPass
      <4>3. ExportedUpTo(f, listed[f])
        BY <4>1, <4>2 DEF ExportedUpTo
      <4> QED
        BY <2>1, <4>3 DEF Dealt, ExportedUpTo
    <3>3. CASE ~(f = Oldest /\ f \in todo)
      BY <2>1, <3>1, <3>3 DEF Dealt, Linked, ExportedUpTo
    <3> QED
      BY <3>2, <3>3
  <2> QED
    BY <2>1, <2>2 DEF PassInv, InPass
<1>14. CASE RecoverOk
  <2>1. /\ UNCHANGED <<readerVars, listed, exportSuccess, errorCount, status>>
        /\ InPass
    BY <1>14 DEF RecoverOk, InPass
  <2> QED
    BY <1>4, <2>1
<1>15. CASE RecoverError
  BY <1>15 DEF RecoverError, PassInv, InPass, Oldest
<1>16. CASE FlushStep
  <2>1. UNCHANGED <<readerVars, listed, exportSuccess, errorCount, status,
                    monitor>>
    BY <1>16 DEF FlushStep, FlushExport, FlushBuffer, FlushStore, FlushReturn
  <2> QED
    BY <1>4, <2>1 DEF InPass
<1>17. ASSUME NEW e \in Exporter, ExportStep(e)
       PROVE  PassInv'
  <2>1. /\ UNCHANGED <<readerVars, listed, exportSuccess, errorCount, monitor>>
        /\ status' = status \/ status' # "Normal"
    BY <1>17 DEF ExportStep, ExportOk, ExportError, SaveBatch, SetStatus
  <2> QED
    BY <1>4, <2>1 DEF InPass
<1>18. CASE MonitorSave \/ MonitorTruncate \/ MonitorEnter
  BY <1>2, <1>18 DEF MonitorSave, MonitorTruncate, MonitorEnter, InPass
<1>19. CASE RemoveStep \/ DiskChange \/ UNCHANGED vars
  <2>1. UNCHANGED <<readerVars, listed, exportSuccess, errorCount, status,
                    monitor>>
    BY <1>19 DEF RemoveStep, RemoveFile, DiskChange, vars
  <2> QED
    BY <1>4, <2>1 DEF InPass
<1> QED
  BY <1>5, <1>6, <1>7, <1>8, <1>9, <1>10, <1>11, <1>12, <1>13, <1>14, <1>15,
     <1>16, <1>17, <1>18, <1>19
     DEF Next, MonitorStep, ReaderStep

\* Recovery declares Normal only when every line its pass had listed was
\* exported, in every file that is still there and whole
\* (tryRecoverFromDisk).
THEOREM NormalClean == Spec => NormalAfterCleanPass
<1>1. Init => TypeInv /\ ScanInv /\ PassInv
  BY TypeInit, ScanInit, PassInit
<1>2. /\ TypeInv /\ ScanInv /\ PassInv /\ [Next]_vars
      => (TypeInv /\ ScanInv /\ PassInv)'
  BY TypeStep, ScanStep, PassStep
<1>3. TypeInv /\ PassInv /\ [Next]_vars => [NormalIsClean]_vars
  <2>1. SUFFICES ASSUME TypeInv, PassInv, PassEnd, status' = "Normal"
                 PROVE  \A f \in DOMAIN listed :
                          f \in Linked /\ Torn \notin Range(files[f].lines) =>
                            ExportedUpTo(f, listed[f])
    BY DEF NormalIsClean
  <2>2. todo = {} /\ InPass /\ ~errorCount
    BY <2>1 DEF PassEnd, PassInv, InPass
  <2> QED
    BY <2>1, <2>2 DEF PassInv, InPass, Dealt
<1> QED
  BY <1>1, <1>2, <1>3, PTL DEF Spec, NormalAfterCleanPass
=============================================================================
