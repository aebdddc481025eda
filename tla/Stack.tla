-------------------------------- MODULE Stack --------------------------------
(***************************************************************************)
(* The stack of a C function (lapi.c), the buffers that libraries build     *)
(* strings in, which move onto it when they grow (lauxlib.c), and the       *)
(* binding of C++ classes, Luna.h, which is written on top of it.           *)
(*                                                                         *)
(* A frame is a record: its stack, a sequence whose last element is the     *)
(* top, and the upvalues of the function.  What the caller must see to      *)
(* (api_check) is a condition of use.                                       *)
(***************************************************************************)
EXTENDS Integers, Sequences, SequencesExt

CONSTANT RegistryIndex    \* LUA_REGISTRYINDEX; upvalues are below it

Nil == [k |-> "nil"]
NonValid == [k |-> "none"]
Top(f) == Len(f.stack)
Push(f, v) == [f EXCEPT !.stack = Append(@, v)]

(* lua_absindex; index2addr as a place and as the value there.              *)
AbsIndex(f, idx) == IF idx > 0 \/ idx <= RegistryIndex THEN idx ELSE Top(f) + idx + 1
Value(f, idx) ==
  LET i == AbsIndex(f, idx)
  IN IF i > 0 THEN IF i > Top(f) THEN NonValid ELSE f.stack[i]
     ELSE IF i = RegistryIndex THEN f.registry
     ELSE IF RegistryIndex - i > Len(f.upvalues) THEN NonValid ELSE f.upvalues[RegistryIndex - i]

SetTop(f, idx) ==
  LET n == IF idx >= 0 THEN idx ELSE Top(f) + idx + 1
  IN [f EXCEPT !.stack = [i \in 1 .. n |-> IF i <= Top(f) THEN @[i] ELSE Nil]]
Pop(f, n) == SetTop(f, -n - 1)

(* The two ends go towards each other until they meet.                      *)
ReverseSegment(s, from, to) ==
  [i \in DOMAIN s |-> IF i \in from .. to THEN s[from + to - i] ELSE s[i]]

Rotate(f, idx, n) ==
  LET t == Top(f)
      p == AbsIndex(f, idx)
      m == IF n >= 0 THEN t - n ELSE p - n - 1
      prefix == ReverseSegment(f.stack, p, m)
      suffix == ReverseSegment(prefix, m + 1, t)
  IN [f EXCEPT !.stack = ReverseSegment(suffix, p, t)]

Copy(f, from, to) ==
  LET i == AbsIndex(f, to)
      v == Value(f, from)
  IN IF i > 0 THEN [f EXCEPT !.stack[i] = v]
     ELSE IF i = RegistryIndex THEN [f EXCEPT !.registry = v]
     ELSE [f EXCEPT !.upvalues[RegistryIndex - i] = v]

PushValue(f, idx) == Push(f, Value(f, idx))

(* lua_insert, lua_remove and lua_replace of lua.h. *)
LuaInsert(f, idx) == Rotate(f, idx, 1)
LuaRemove(f, idx) == Pop(Rotate(f, idx, -1), 1)
LuaReplace(f, idx) == Pop(Copy(f, -1, idx), 1)

-----------------------------------------------------------------------------
(* Buffers.  b has the bytes, its size and whether they are in a userdata   *)
(* on the stack; Box is that userdata.  TooLarge is luaL_error.             *)
Box == [k |-> "box"]
TooLarge == [k |-> "error"]
Sized(n) == [k |-> "string", n |-> n]    \* a string of n bytes
BuffInit(size) == [bytes |-> <<>>, size |-> size, onstack |-> FALSE]

(* luaL_prepbuffsize: f and b with room for sz bytes; sizes are size_t.     *)
PrepBuffer(s, sz, sizes) ==
  LET n == Len(s.b.bytes)
      double == (s.b.size * 2) % sizes
      size == IF (double - n) % sizes < sz THEN (n + sz) % sizes ELSE double
      boxed == Push(s.f, Box)
  IN IF s.b.size - n >= sz THEN s
     ELSE IF size < n \/ (size - n) % sizes < sz THEN [s EXCEPT !.failed = TRUE]
     ELSE [s EXCEPT !.f = IF s.b.onstack THEN LuaRemove(boxed, -2) ELSE boxed,
                    !.b.size = size, !.b.onstack = TRUE]

AddLString(s, bytes, sizes) ==
  LET r == PrepBuffer(s, Len(bytes), sizes)
  IN IF r.failed THEN r ELSE [r EXCEPT !.b.bytes = @ \o bytes]

(* luaL_addvalue: the string on the top, which goes below the box first.    *)
AddValue(s, sizes) ==
  LET v == Value(s.f, -1)
      below == IF s.b.onstack THEN [s EXCEPT !.f = LuaInsert(@, -2)] ELSE s
      r == AddLString(below, v.bytes, sizes)
  IN IF r.failed THEN r ELSE [r EXCEPT !.f = LuaRemove(@, IF r.b.onstack THEN -2 ELSE -1)]

PushResult(s) ==
  LET pushed == Push(s.f, [k |-> "string", bytes |-> s.b.bytes])
  IN [s EXCEPT !.f = IF s.b.onstack THEN LuaRemove(pushed, -2) ELSE pushed]

-----------------------------------------------------------------------------
(* Luna.h.  A class is a record of its name and of the sequences of its     *)
(* methods' and its properties' names; a metatable is a function from names *)
(* to values.  Objects are pointers: numbers, 0 for none.                   *)
Str(s) == [k |-> "string", s |-> s]
Number(n) == [k |-> "number", n |-> n]
Function(name) == [k |-> "function", name |-> name]
Userdata(class, obj) == [k |-> "userdata", class |-> class, obj |-> obj]

MethodBit == 256    \* 1 << 8
Metamethods0 == [__gc |-> "gc_obj", __tostring |-> "to_string", __eq |-> "equals",
                 __index |-> "property_getter", __newindex |-> "property_setter"]

(* What Register puts into the metatable: later entries replace earlier.    *)
MetatableOf(class) ==
  LET own == [n \in DOMAIN Metamethods0 |-> Function(Metamethods0[n])]
      Enter(t, names, Index(_)) ==
        FoldLeft(LAMBDA acc, i : [n \in DOMAIN acc \cup {names[i]} |->
                                    IF n = names[i] THEN Number(Index(i - 1)) ELSE acc[n]],
                 t, [i \in DOMAIN names |-> i])
      properties == Enter(own, class.properties, LAMBDA i : i)
  IN Enter(properties, class.methods, LAMBDA i : i + MethodBit)

(* Register: the constructor becomes a global; luaL_newmetatable leaves the *)
(* metatable on the stack, on top of what the function had there.           *)
Register(f, class) == Push([f EXCEPT !.globals = @ \cup {class.name}], [k |-> "metatable", of |-> class.name])

RawGet(class, key) ==
  IF key.k = "string" /\ key.s \in DOMAIN MetatableOf(class) THEN MetatableOf(class)[key.s] ELSE Nil

(* What both start with: the metatable of the object and what it says of    *)
(* the name.                                                                *)
LookUp(f, class) ==
  LET meta == Push(f, [k |-> "metatable", of |-> class.name])
      name == PushValue(meta, 2)
  IN Push(Pop(name, 1), RawGet(class, Value(name, -1)))

IsMethod(index) == (index \div MethodBit) % 2 = 1

(* property_getter: the value of p.name: a closure for a method, the result *)
(* of a getter, or whatever else the metatable has under the name.          *)
PropertyGetter(f, class) ==
  LET found == LookUp(f, class)
      index == Value(found, -1).n
      third == PushValue(found, 3)
      called == LuaRemove(LuaRemove(Pop(third, 2), 1), 1)
  IN IF Value(found, -1).k # "number" THEN [does |-> "return", value |-> Value(found, -1)]
     ELSE IF IsMethod(index)
     THEN [does |-> "return",
           value |-> [k |-> "closure", upvalues |-> <<Number(index - MethodBit), Value(third, 1)>>]]
     ELSE [does |-> "get", property |-> index, args |-> called.stack, obj |-> Value(f, 1).obj]

(* property_setter: p.name = v. *)
PropertySetter(f, class) ==
  LET found == LookUp(f, class)
      index == Value(found, -1).n
      called == LuaRemove(LuaRemove(Pop(found, 2), 1), 1)
  IN IF Value(found, -1).k # "number" THEN [does |-> "nothing"]
     ELSE IF Value(f, 1).obj = 0 \/ index >= MethodBit THEN [does |-> "error"]
     ELSE [does |-> "set", property |-> index, args |-> called.stack, obj |-> Value(f, 1).obj]

(* function_dispatch: the closure is called with arguments of its own.      *)
FunctionDispatch(closure, args) ==
  LET f == [stack |-> args, upvalues |-> closure.upvalues]
  IN [does |-> "call", method |-> Value(f, RegistryIndex - 1).n,
      obj |-> Value(f, RegistryIndex - 2).obj, args |-> f.stack]

(* check and lightcheck: luaL_checkudata fails, luaL_testudata finds null.  *)
LightCheck(f, narg, class) ==
  LET v == Value(f, narg)
  IN IF v.k = "userdata" THEN IF v.class = class.name THEN v.obj ELSE 0 ELSE 0
Check(f, narg, class) ==
  LET v == Value(f, narg)
  IN IF v.k = "userdata" /\ v.class = class.name THEN [does |-> "return", obj |-> v.obj] ELSE [does |-> "error"]

(* equals: == of two objects calls it with the operands in order.           *)
Equals(f) == Value(f, -1).obj = Value(f, 1).obj
=============================================================================
