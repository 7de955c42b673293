------------------------------- MODULE LogFields -------------------------------
(***************************************************************************)
(* The fields a logger prints with every line, as Go slices.               *)
(*                                                                         *)
(* A slice is a length of an array with a capacity.  append writes into    *)
(* the array while there is room, and then everyone who holds more of that *)
(* array sees the write.  Builder.WithFields, Fields.With and the log      *)
(* calls of SlogAdapter, FuncLogger and PrintfLogger append; the With of   *)
(* all four loggers copies; Build, BuildDefault and WithContext share.     *)
(*                                                                         *)
(* A view is somebody who holds a slice, with what he was `given`:         *)
(*   "builder"  Builder                                                    *)
(*   "default"  DefaultLogger, which a builder makes and which only reads  *)
(*   "adapter"  SlogAdapter, FuncLogger, PrintfLogger                      *)
(*   "call"     a log call of one of these                                 *)
(*   "set"      a variable of type Fields                                  *)
(***************************************************************************)
EXTENDS Naturals, Sequences, FiniteSets

CONSTANTS
  Field,      \* fields, told apart by key and value
  MaxArrays,  \* bound: arrays in use
  MaxViews,   \* bound: views
  MaxLength   \* bound: length of a slice

ASSUME FieldAssumption == Field # {}
ASSUME ArraysAssumption == MaxArrays \in Nat /\ MaxArrays >= 2

VARIABLES
  heap,   \* the arrays in use, each as long as its capacity
  views   \* who holds a slice

fieldVars == <<heap, views>>

View(kind, arr, given) == [kind |-> kind, arr |-> arr, len |-> Len(given), given |-> given]

\* What is in the slice now.
Sees(v) == SubSeq(heap[v.arr], 1, v.len)

\* NewBuilder, the constructors of the loggers, and a literal Fields{f, f}.
Arrays == 1 .. MaxArrays
FieldsInit ==
  LET f == CHOOSE g \in Field : TRUE IN
  /\ heap = [a \in Arrays |-> IF a = 2 THEN <<f, f>> ELSE << >>]
  /\ views = {View("builder", 1, << >>), View("adapter", 1, << >>), View("set", 2, <<f, f>>)}
-----------------------------------------------------------------------------
Unused(a) == \A v \in views : v.arr # a
Fresh == CHOOSE a \in Arrays : Unused(a)

\* `array` is stored at a, newViews are held; what nobody holds is collected.
Becomes(a, array, newViews) ==
  /\ views' = newViews /\ Cardinality(newViews) <= MaxViews
  /\ heap' = [b \in Arrays |-> IF \A v \in newViews : v.arr # b THEN << >>
                               ELSE IF b = a THEN array ELSE heap[b]]

\* append(s, fs...): in place if it fits, else into an array of twice the
\* capacity, or of the length needed if that is more.
Grown(array, need) ==
  LET capacity == IF need > 2 * Len(array) THEN need ELSE 2 * Len(array) IN
  [i \in 1 .. capacity |-> IF i <= Len(array) THEN array[i] ELSE CHOOSE f \in Field : TRUE]

Put(array, at, fs) ==
  [i \in DOMAIN array |-> IF i \in at + 1 .. at + Len(fs) THEN fs[i - at] ELSE array[i]]

\* Somebody of this kind gets append(v, fs...); `others` stay.
Appends(v, fs, kind, others) ==
  LET array == heap[v.arr]
      need == v.len + Len(fs)
      got(a) == others \cup {View(kind, a, v.given \o fs)} IN
  IF need <= Len(array)
  THEN Becomes(v.arr, Put(array, v.len, fs), got(v.arr))
  ELSE /\ \E a \in Arrays : Unused(a)
       /\ Becomes(Fresh, Put(Grown(array, need), v.len, fs), got(Fresh))

\* What is passed as `fields ...Field`: one written out, or a set.
Arguments(v) ==
  {fs \in {<<f>> : f \in Field} \cup {Sees(w) : w \in {w \in views : w.kind = "set"}} :
     v.len + Len(fs) <= MaxLength}

SetWith(v, fs) == v.kind = "set" /\ Appends(v, fs, "set", views)

BuilderWithFields(v, fs) == v.kind = "builder" /\ Appends(v, fs, "builder", views \ {v})

\* The builder goes on, with the array it has handed out.
Build(v) ==
  /\ v.kind = "builder"
  /\ Becomes(v.arr, heap[v.arr], views \cup {View("default", v.arr, v.given)})

\* DefaultLogger, or one of the adapters.
LogKinds == {"default", "adapter"}

\* Mutant: append(l.fields, fields...).
LoggerWith_Appends(v, fs) == v.kind \in LogKinds /\ Appends(v, fs, v.kind, views)

\* make([]Field, 0, len(l.fields) + len(fields)), and two appends.
LoggerWith(v, fs) ==
  /\ v.kind \in LogKinds /\ \E a \in Arrays : Unused(a)
  /\ Becomes(Fresh, Sees(v) \o fs, views \cup {View(v.kind, Fresh, v.given \o fs)})

\* allFields := append(a.fields, fields...), without a lock, on its way to
\* the function that prints it.
LogBegins(v, fs) == v.kind = "adapter" /\ Appends(v, fs, "call", views)

LogEnds(v) == v.kind = "call" /\ Becomes(v.arr, heap[v.arr], views \ {v})

FieldsNext ==
  \E v \in views :
    \/ \E fs \in Arguments(v) :
         SetWith(v, fs) \/ BuilderWithFields(v, fs) \/ LoggerWith(v, fs) \/ LogBegins(v, fs)
    \/ Build(v) \/ LogEnds(v)

FieldsSpec == FieldsInit /\ [][FieldsNext]_fieldVars
-----------------------------------------------------------------------------
(***************************************************************************)
(* A logger prints the fields it was made with, and a line in progress the *)
(* fields of its logger and its own, whoever extends the same builder,     *)
(* logger or set meanwhile.  (Sets themselves are not safe: two that are   *)
(* derived from one may share the array, fields.go:168.)                   *)
(***************************************************************************)
FieldsKept == \A v \in views : v.kind # "set" => Sees(v) = v.given
=============================================================================
