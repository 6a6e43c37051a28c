# A TLA+ development of calx

calx (`src/`) is a calculator language: a single-threaded C program that parses
a source text into bytecode and evaluates it, with arbitrary-precision decimal
numbers, strings, lists, dicts, functions and weak references, all reference
counted. There are no threads, no messages and no persistent state. What is hard
about it is of another kind: one growing array that moves under raw pointers,
reference counts that set off cascades in the middle of an instruction, addresses
that are reused, code that is patched before it is moved, chains of indices that
have to survive the removal of any element, and errors that leave by `longjmp`.
A test sees one program at a time; the modules here look at all programs (or all
sequences of operations, or all texts, or all pairs of numbers) up to a bound. Proved
without bounds are: the evaluator's invariants, for every program, and that its one value
stack implements separate frames; that the hash table is a map, for every hash function
and every sequence of operations; and the ownership of numbers, for every base, word
length and operand.

Contents: 1 the system, 2 the modules, 3 the runs, 4 what is proved,
5 disagreements found, 6 what is not modelled, 7 the plan.

## 1. The system

How a text is run:

    main.c (file, inline, interactive)  ->  parse(): lexer.c -> parse.c -> Chunk
        ^                                                          |
        |   value, or NULL after an error                          v
        +------------------------------------------------  state_eval (vm.c)
                                                              |        ^
                             instructions: str, list, dict,   |        |
                             xht, wref, number                v        |
                                                          natives (main.c X_*),
                                                          X_Require evaluates another text

| component | state | operations | what is hard | what makes it correct |
| --- | --- | --- | --- | --- |
| evaluator (`vm.c`) | a chain of scratch pads, each with a value stack, a call stack, and the registers ip, consts, locals | one per opcode; `do_call` (scatter, gather, coerce), return, throw | the value stack is one array that `realloc` moves while `locals` points into it; nothing checks for room when an instruction pushes; `longjmp` | no overrun; the top is where codegen computed it; ip, callee and constants belong together; calls behave as frames of their own |
| nested evaluations (`vm.c`, `main.c` X_Require) | the pads' `prev` links, the error handler of each | state_eval from inside a native function | an error inside must stop at the right handler, free the right pad, and go on outside | only Require is ever resumed; errors reach the driver |
| references (`vm.h`, `list.h`, `dict.h`, `str.c`) | the count in every object's header | ref, unref (a recursive cascade), store, in-place append | old value dropped before the new one is there; counts decide whether a string may be changed in place | counts exact; freed once, never used after; only cycles leak; strings immutable |
| weak references (`wref.h`) | a doubly linked list per container | Wref, Wvalue, death of either end | the reference may die before, after or during the death of its target; addresses are reused | the lists hold exactly the living references; a dead target is forgotten |
| hash table (`xht.c`, `xht.h`), dicts | items in an array, chains of 32-bit indices | insert, get, remove (moves the last item), grow, iterate (`NextKey`) | removal rewrites up to three links in an order that matters; iteration while keys go away; indices at 2^32 | it is a map; iteration misses and repeats nothing |
| expressions (`parse.c` 568-1013) | the C stack of the recursion, the code emitted | one per token | minimum priorities; one "value expected" flag; the target of `=` is recognised after it has been emitted | the tree is the one the README's table gives; nothing well-formed is refused |
| statements, code generation (`parse.c` 341-566, 1015-1479) | code, scopes, ranges of code, shapes, stacks of jumps to patch | one per statement, or opening and closing part of one | jumps patched before code moves; names resolved at the end of the function; one linear walk computes the operand depth | jumps land, names are resolved, depth is static and within `maxstack`, lines are found |
| lexer (`lexer.c`) | position, line, a stack of levels, the level a keyword waits for its block at | next lexeme | semicolons are put in outside of expressions, and whether `{` opens a block is decided without the parser | semicolons where the README says; longest words; right positions |
| numbers (`number.c`, `number.h`, `ntp.c`, `fancy.c`) | words of 9 or 19 digits, the lowest `scale` of them the fraction; sign; count | arithmetic, comparison, rounding, scaling, bit operators, texts in base 10 and others | a result is written into an operand nothing else refers to; both operands may be one object; operands are aligned by extending one of them, and swapped; truncation within a word; minus zero | results exact, or cut where the documentation says; no leading zeros; counts exact; what a variable refers to is never written into |
| natives and drivers (`main.c`, `prompt.c`) | - | X_* functions, the three modes | arguments on the stack are still the caller's while a native works on them; the interactive mode's decision to read on | partly (Require, Wref, Wvalue, Pop, RemoveKey, NextKey, all natives on numbers) |
| standard library (`stdlib.calx`) | - | pure functions in calx itself | - | not modelled |

How they interact: the parser hands the evaluator a chunk and promises it a *static
operand depth*: `Shape.maxstack` is enough, every instruction works at one depth,
`OP_RETURN` at depth 1. `Codegen` shows that promise (DepthStatic), `Program` and
`EvalStack` rely on it. The evaluator's slots are references, counted in `Heap`; a dict
is an `Xht` whose values are references, which `Heap` has as an array. Numbers are values
to `EvalStack` and are counted in `Number` by the rule `Heap` has for strings (a count of
one may be written into). `Expr` shows what
code an expression becomes; `Codegen` uses templates of that form.

`PROJECT.json` lists every hazard with its line and the property that would catch it.

## 2. The modules

| module | models | lines of code |
| --- | --- | --- |
| `Program` | what the evaluator knows of a program: values, functions, shapes | `vm.h` Shape |
| `EvalStack` | the evaluator, in detail | `vm.c` do_call, state_eval, value_stack_*, scratch_pad_*; `main.c` X_Require |
| `CallFrames` | what calling promises, with no value stack | abstract specification of EvalStack |
| `EvalStackProofs` | theorems: EvalStack's invariants | |
| `EvalFramesProofs` | theorem: EvalStack implements CallFrames | |
| `Xht` | the hash table | `xht.c`, `xht.h`, `dict.h`, X_NextKey |
| `KeyMap` | a map with iteration | abstract specification of Xht |
| `Heap` | counting, cascades, weak references, in-place append | `vm.h`, `vm.c` value_free, store, get_elem_*; `wref.h`, `list.h`, `str.c` |
| `Number` | numbers, the operators and natives on them | `number.c`, `number.h`, `ntp.c`, `fancy.c`; `vm.c` OP_ADD to OP_SHR and the comparisons; `main.c` X_Trunc to X_Decode |
| `XhtProofs` | theorems: Xht's limits; lemmas on chains of links; Xht implements KeyMap | |
| `NumberProofs` | theorems about Number | |
| `HeapCounts`, `HeapProofs` | counts, chains of weak references (lemmas); theorems: Heap's invariants and action properties | |
| `Lexer` | characters to lexemes, semicolons put in | `lexer.c` |
| `LexerProofs` | theorems: Lexer's invariants | |
| `Expr` | precedence climbing token by token | `parse.c` 568-1013, 1200-1261 |
| `Codegen` | statements, scopes, jumps, shapes, lines | `parse.c` 341-566, 1015-1479; `vm.c` find_quark, state_intern_global |
| `CodegenProofs` | theorems: Codegen's types, names and lines | |
| `MCEvalStack`, `MCXht`, `MCHeap`, `MCLexer`, `MCExpr`, `MCCodegen` | constants of the runs | |

**EvalStack.** `pads` is the chain of scratch pads, `ret` what state_eval has just
returned. A pad has `slots` (the value stack up to its top), `cap` (its capacity), `blk`
(which block of memory it is in: realloc may or may not give a new one, so both are
tried), the call stack `cs`, and the registers. A pointer into the stack is a block and an
offset; after a move a pointer with the old block dangles, reads through it give any
value the function might load, writes through it are lost, and an offset computed from
it is `Wild`. An instruction pointer is abstracted to the function it is in and
the operand depth of that point. A whole `do_call` (scatter, coerce with gather, room,
call site, registers) is one action, with every outcome of every `realloc` in it. Every
opcode is covered by an action; what an operator *computes* is any value the function may
load (`Loads`). `bottom` in a call site is history.

**CallFrames** has frames with locals, operands and constants of their own and passes
arguments by value. EvalStack's FramesSpec is `CallFrames!Spec` with each pad read as
frames *where the code would look for them* (through the saved offsets, not through the
history variable).

**Xht.** `ht` is the C structure: items in order, buckets, chains by index, capacity.
Every public operation is one action, including growth and the panic of the overflow
handlers. `U32` stands for 2^32: it is a variable that Init chooses from `Widths` and
nothing changes, so that one run has a table that reaches the limit and one that does
not. `at` is the key a program's NextKey loop is at.

**Heap.** Addresses are reused. Dropping the last reference starts a cascade;
the recursion of value_free is laid out in `due`, one step of it per action, so that
the state between any two steps is a state of the model and the invariants hold there
too. Instructions and natives act only when `due` is empty, as the C code does. `bound`,
chosen by Init from `Bounds`, is how many objects of which kinds there may be.

**Number.** `heap` is what is alive, by address, `vars` what two variables of the program
refer to, `stack` the operands (or the result) of an operation, `call` and `out` its name
and what it returned besides a number. One action is one instruction or native: it takes
the references on the stack, does everything number.c does to both operands (sharing and
mkuniq, aligning, writing the result into the left one, the right one or a new one,
normalising, dropping what is left), and leaves a reference to the result, which is an
operand of the next operation, alone or with what the variables hold. No action stores a
result in a variable: Init has operands that variables refer to as well, `Load` makes what a
variable refers to an operand once more, `Forget` clears a variable. The operators hold
their operands, with the same object twice if a program writes `x * x`; natives take a
reference of their own first (`Argument`). A span of words that a libdeci function loops
over is taken by value (`IntOf`, `Words`), everything around those loops is in words, as
in the code. D and LOG stand for 10 and 9 or 19. Scale(x) sets the decimal places and
reads them back; texts are the digits before and after the point; the guards of Encode and
Decode on the base are left out, `Bases` has only bases they accept. The properties read
numbers as integers and fractions, texts as the values of their digits and a uint32_t as a
set of bits; what they share with the actions is the arithmetic of spans and digits
(`IntOf`, `DigitsValue`), not the operators modelled after the functions.

**Lexer.** The source is typed first, then cut up, one iteration of lexer_next's loop per
action. A character stands for those the lexer treats alike; a keyword is one character
(`if` for those with a block after them, `nil` for the rest), so columns count it as one.
`levels`, `blocky`, `exprContext` and `flag` are the fields of LevelStack and Lexer; `out`
is history. The property side knows none of them: `Opened` matches brackets as a grammar
would, `Spelled` lists the words of the language.

**Expr.** The C stack of expr, unary_operator, binary_operator, funcall, newlist, newdict
and expr_or_assignment is `frames`; an action is one loop iteration, or what a function
does once the one it called has returned. The token that comes next is any token, so all
texts up to the bound are tried, each as far as the parser reads it. Operators are
represented by one per priority and by those with a second meaning (`-`, `*`).

**Codegen.** One action per simple statement, one for the opening and closing part of
each compound statement; the recursion of stmt and block is laid out in `todo`. Names are
symbolic until close_scope walks the function's ranges of code; for_stmt rotates the post
clause behind the body *after* the jumps were patched, as the code does; a failed parse
keeps the globals it interned. `fn`, `path` and `goal` of an instruction are history
(which function and construct it was written in, what its jump is for), and they move with
the instruction, so JumpsLand and NamesResolved compare where things ended with
where they were meant to.

## 3. The runs

Each is `tlc -config <run>.cfg <module>`. State counts are distinct states; each takes
between a few seconds and two minutes on two cores.

| run | module | states | properties |
| --- | --- | --- | --- |
| `EvalStack` | MCEvalStack | 538,271 | TypeOK RoomForFrames DepthAgrees ResultAloneAtDone CalleePinned SitesMatch |
| `EvalFrames` | MCEvalStack | 24,460 | OuterAwaitsRequire LocalsSound, FramesSpec (refinement), ErrorsReachTheDriver (liveness) |
| `EvalStaleLocals` | MCEvalStack | violation | OffsetsAsDocumented |
| `Xht` | MCXht | 27,947 | TypeOK WellChained RoomLeft, MapSpec (refinement) |
| `Heap` | MCHeap | 1,186,933 | TypeOK CountsExact TasksSound WeakListsSound OnlyCyclesLeak, ForgetsTheDead StringsImmutable (action properties) |
| `Number` | Number | 1,962,470 | TypeOK CountsExact, VariablesKept SumsExact ProductsExact QuotientsTruncated IntegersRight OrderRight TextsRight (action properties) |
| `NumberCeil` | Number | violation | CeilAsDocumented |
| `Lexer` | MCLexer | 1,883,092 | TypeOK SemicolonsAsDocumented LongestWords PositionsRight |
| `Expr` | MCExpr | 1,996,157 | GroupedAsDocumented NothingRefused |
| `ExprBitwise` | MCExpr | violation | GroupedAsDocumented |
| `Codegen` | MCCodegen | 290,400 | JumpsLand NamesResolved DepthStatic LinesFound |
| `CodegenFunInFor` | MCCodegen | violation | FunStmtIsAssignment |

Two configurations beside these are not in PROJECT.json's list of runs, and show findings 5
and 6 in a few seconds each: `tlc -config NumberFrac.cfg Number` has FracAsDocumented
violated (`frac` of -1 is 0), `tlc -config NumberEncode.cfg Number` has EncodeAsDocumented
violated (0 in base 2 with two digits is the text `0`).

What they show and why the bounds are enough:

- **EvalStack**: calls three frames deep with no free operand slot (`Slack = 0`), so that
  every scatter and gather can move the array; one function with locals and a parameter,
  one that gathers, lists of length 0, 1 and 2. Three frames are the least in which a
  frame is neither the outermost nor the running one. The invariants hold although the
  locals register may dangle. The evaluation is not limited in length.
- **EvalFrames**: with room at every call (`NoEarlyGrowth`, `Slack = 1`) the single array
  implements separate frames, step by step. A text requires a module, which may itself
  require one (two pads; a third is cut off by the bound, `MaxPads`), with failure possible
  at every step.
- **Xht**: four keys, of which two have one hash and a third shares a bucket with another
  until the buckets are split: all the cases of pop_item_at_index (removed item is the
  last; the last is linked from the removed one; same chain; other chain) and of
  grow_buckets occur. A second value shows that overwriting changes the right item. An
  index has 64 values, which four keys do not exhaust, or eight, where the second growth
  is refused.
- **Heap**: either lists of lists, weak references to lists and weak references kept in
  lists, at four addresses (three objects in one chain of weak references, and one more to
  reuse an address), with one item in a list and three operands; or strings in dicts, in
  a global and on the stack, at three addresses, where a dict of two items may hold the same
  string twice and itself. The addresses are symmetric.
- **Number**: every operation on every pair of numbers that have three words between
  them, and on every number of three words, each with no, one or both operands also in
  variables, or both the same object; results are worked on again, alone or with a
  variable's number, at most three numbers being alive. Three words are a fraction of one against one of two,
  with or without an integer part, or no words at all, so all alignments and both kinds
  of swap occur. A word has three digits, the least with which the digits kept and the
  digits cut in a word (`LOG - r` and `r`) differ; base 2, like 10, has 2 as a
  factor once (`D % 4 = 2`), which ntp_to_prec relies on when it counts a power's trailing
  zeros; rounding compares a word with half of `BASE`, which is 8. SIZE_MAX is 6,
  so that exponents and scales below, at and above it are tried; a uint32_t has four bits,
  more than an integer part of one word, less than one of two.
- **Lexer**: seven characters of a keyword with a block, `(`, `{`, `}` and line breaks (six
  with `)`) are enough for a block in a block, a dict in a block, in a head and after a
  block, each with a line break in it; five for quotes and backslashes, four for numbers,
  comments and identifiers, three for the rest. SemicolonsAsDocumented says nothing of
  texts no program begins with: brackets that do not match, a keyword within an
  expression (functions are statements in calx). PositionsRight stops at a string with a
  line break in it, which the lexer lets through after a backslash (`lexer.c:217`) without
  counting it; add_string_const refuses the escape before the parser asks for more.
- **Expr**: up to eight tokens for operators (three binary operators, or two and a
  group), seven with brackets of every kind (a call with two arguments, the second
  scattered; a dict with an entry and a field), five with the rarer tokens.
  A text is read as far as the parser goes; NothingRefused also tries the endings that
  could have completed what was refused.
- **Codegen**: four statements, clauses or functions after the outermost one: a loop in
  a loop, a function in a loop in a function, if with elif and else, break and continue
  in each; each of the templates of an expression. NamesResolved and DepthStatic are stated
  for functions that do not define another one in the body of a for loop with a post
  clause (`RangesMoved`), where finding 2 applies.

Deadlock is checked where the program goes on for ever (EvalStack's runs); it is not
where it really stops: a panic (`Xht`, `Number`), state_destroy (`Heap`), the end of parse()
(`Lexer`, `Expr`, `Codegen`). The type invariants of Codegen and Expr say nothing that
their other invariants do not depend on and are not in a run.

**Fairness.** Only ErrorsReachTheDriver needs any. `FairSpec` has weak fairness for
`RequireThrow` and `Deliver`: what X_Require and the driver do with a NULL from state_eval
is the very next statement of the same thread. Nothing is assumed of the evaluated
program, which may loop for ever.

**Mutants.** For every property of every passing run, PROJECT.json names a change to one
mapped definition under which TLC finds the property violated. They are beside the
definitions they change, marked `\* mutant`.

## 4. What is proved

### The evaluator

`EvalStackProofs`, for every program and every bound: any set of functions, shapes,
lists and loads that satisfies `ProgramAssumption` (values are what they are called; a
function's parameters are among its locals, which close_scope guarantees; bounds are
positive).

| theorem | states |
| --- | --- |
| Invariance | `Spec => []IInv` |
| TypeCorrect | TypeOK |
| NoOverrun | RoomForFrames |
| StaticDepth | DepthAgrees |
| DoneAssertion | ResultAloneAtDone, the `assert` at the end of state_eval |
| CalleesAlive | CalleePinned |
| SitesAgree | SitesMatch |
| OuterWaits | OuterAwaitsRequire |
| LocalsStaySound | LocalsSound, if NoEarlyGrowth |

None of the properties is inductive by itself: that the function's slot is where
OP_RETURN counts back to depends on the depth, the depth after a return depends on what
the call site remembers, and room after a return depends on what was reserved when the
caller was entered. `IInv` therefore says of every pad that its layout can be computed
*from the call stack alone* (`PadOK`):

- SitesOK: every call site's `bottom` is the end of the frame below plus the depth at
  the call, less the arguments; frames do not overlap; ip, callee and constants match;
- RoomOK: every frame on the stack, not only the running one, has its room;
- PinnedOK: under each frame's locals is its function;
- TopOK: the top is where the running function's depth says, or where the arguments of a
  native call end; and if the locals register points into the present block it is right.

and that a pad with another one above it is waiting for Require. The register may dangle
(TopOK says nothing of it once the block is another), which is why the theorems hold in
spite of finding 1: the evaluator finds frames by counting, and only locals are reached
through the register. There is one lemma per operation on a pad (ensure, scatter, gather,
enter, return...), one per action, and `NextInv` puts them together. LocalsStaySound uses a
second invariant, LInv, under NoEarlyGrowth: room at every call for what scattering and
gathering push. Without the assumption it is false, which is finding 1.

`EvalFramesProofs` has the refinement: `ImplementsFrames == ASSUME NoEarlyGrowth PROVE
Spec => FramesSpec`. The assumption is the one of LocalsStaySound, and for the same reason:
without it a frame's locals are not found. The invariant is LInv, before and after the step;
what is new is the argument that each step on the array is a step on frames:

- a frame is a *segment* of the slots, `Seg(s, a, b)`; FrameAt gives it from the call site
  and the place where it stops, and FrameIs says that FramesSpec's frames, found through
  the saved offsets, are those;
- FrameSame, FrameBelow: a step that leaves the slots under a frame's end alone leaves
  the frame alone, so a step on the top changes the last frame only (TopFrameChanged), a
  call adds one (FramePushed), a return removes one (FramePopped);
- ArgumentsPassed, CoerceSlots, EnterSlots: what scattering, gathering and nil make of
  the arguments is, slot by slot, what CallFrames hands over by value; CallerFrame: the
  caller is left without the function and its arguments;
- one lemma per kind of step (OperateStep, WriteLocalStep, CallFuncStep, CallNativeStep,
  NativeEnd, ReturnStep, FinishStep, UnwindStep, BeginStep), which FramesStep puts
  together.

In the abstract specification nothing reaches another function's frame, so the theorem is
also the statement that no function disturbs another one's slots, for every program in
which each OP_CALL finds enough room.

### The hash table

`XhtProofs`, for every set of keys and values, every hash function and every width of an
index of at least two (`XhtAssumption`):

| theorem | states |
| --- | --- |
| LimitsKept | RoomLeft |
| TypesKept | TypeOK |
| ChainsKept | WellChained |
| IsMap | MapSpec: Xht implements KeyMap |

For RoomLeft the invariant `Inv` adds what it does not say (`Table`): the buckets are an
interval of indices from 0 and fewer than U32, the capacity is below U32 and never
exceeded, and the load factor of 3/4 is kept. It says nothing of the chains, which
RoomLeft does not depend on. There is a lemma for each of the ways a table is changed
(inserting with both kinds of growth, unlinking, popping the last item).

For the rest the invariant is `MapInv`: the table is `Sound`, that is, it is such a
`Table`, the hash stored with an item is that of its key, no two items have the same key, and *each
bucket has a chain*. A chain is an explicit function: `Links(c, m, head, nxt, S)` says
that c[0], c[1], ..., c[m - 1] are the members of S, each once, that each leads to the next one,
and that c is `End` from m on. The model's `Path` follows links for as many steps as there
are items; PathOf shows once that it is the chain (by induction over the naturals,
which can be had here in first-order form: LeastNat takes the least counterexample,
SameByInduction compares two functions). After that there is no induction: a first group
of lemmas says what putting an index in front of a chain, leaving one out or
renaming one does to c, a second one what each operation does with them:

- Search, Found: an index is found exactly if its key is among the items;
- AppendedContent, RegrownContent: insertion with and without rehashing (Rechained builds
  all the chains again from items in order, as grow_buckets does);
- UnlinkedChains, PoppedChains, RemovedChains: removal, in the code's order: the links
  around the removed item, then the last item moved into the hole and the one link that
  led to it. The cases of PoppedChains (the last item itself is removed; it is linked from
  the removed one; same chain; another one) are those of pop_item_at_index;
- After, LeftIn, RemovedOrder: the keys a NextKey loop still has to visit. Removing any key
  takes that key and no other from them, although the last item changes its index, since
  chains are ordered by links and not by indices; FirstOf and NextOf: xht_indexed_first
  and xht_indexed_next give one of the right keys.

IsMap then goes operation by operation (PutStep, GetStep, RemoveStep, FirstStep,
NextKeyStep).

### Numbers

`NumberProofs`, for every base, word length, width and bound that satisfies
`NumberAssumption`:

| theorem | states |
| --- | --- |
| ReferencesExact | CountsExact |
| VariablesNeverWritten | VariablesKept |

CountsExact is not inductive: between taking the operands and leaving the result, an
operation holds references that are neither in a variable nor on the stack. `Owned` says
of a state between two operations that the count of every address is the number of
variables and operands that refer to it. What an operation does in between is described by
three relations on heaps, and each function of number.c gets the lemma that says in
which of them it is:

- `Moves(u, w)`: one reference was given up for another one (maybe the same), all the
  other counts are as they were, and whatever something else referred to has not
  changed. `Uniq` adds that the result is referred to by nothing else, which is what
  mkuniq promises and what makes it safe to write into;
- `Consumes`: the same for two operands, of which one may be the other;
- `Spends`: the same for what was on the stack.

They are composed: MkuniqMoves and PutMoves give ScaleDownMoves, that gives the natives';
BinaryKeeps and UnaryKeeps take the operations one by one. The proofs do not depend
on what the words are, only on where they are written, so they hold for the code's
digit loops as well as for their values here.

### References and weak references

`HeapProofs`, for any finite sets of addresses and globals and any bounds that satisfy
`HeapAssumption` (nil and NULL are no objects, what stands for free memory is no object's
contents):

| theorem | states |
| --- | --- |
| HeapInvariant | `Spec => []HInv` |
| TypesHold | TypeOK |
| CountsAlwaysExact | CountsExact |
| NothingFreedTwice | TasksSound |
| WeakListsKept | WeakListsSound |
| SharedStringsKept | StringsImmutable |
| TargetsForgotten | ForgetsTheDead |
| CyclesAloneLeak | OnlyCyclesLeak |

`HInv` holds in every state, in the middle of a cascade too. Its parts need one another,
and each says more than the property it is for:

- `Balanced`: stack, globals, items of what is alive and tasks together hold as many
  references to an object as its `nrefs` says, *plus one if `store` is about to overwrite
  one* (`Lost`): that one is owed by a task already, and still stands where it was;
- `Tasks`: there is one write at most, and the container it is into is released by a later
  task. CountsExact alone would let the cascade free the container between the drop of
  the old item and the write of the new one; that OP_STORE_AT drops it last is what
  forbids it (the mutant StoreAtUnrefFirst is the other order). A block is freed by one
  task, and no longer counted when it is;
- `WellLinked`: the lists of weak references are doubly linked, those in one list have one
  target (or none: they have lost it), and along `next` a *rank* falls. Ranks are what makes
  a list end: WeakListsSound says which weak references wrefable_invalidate reaches by
  walking, and a walk in a ring would never be known to have reached all. The theorem does not depend on
  how ranks are chosen: a new weak reference gets a rank above all others (PutLinks), and
  removing one keeps the ranks there are. A list whose object has died stays linked, as
  wref_destroy needs it.

`HeapCounts` has what these proofs rest on: counting in sequences (CountConcat, CountDrop,
CountPut), in containers (ItemsAt: only the container that changes makes a difference),
globals and tasks; what each kind of change to the heap keeps (CountedIs, NewCell, Refill,
LinkedSame); WalkIs, that the walk is the list (by taking a least counterexample, as in
XhtProofs); DyingIs, what value_free does to the other objects before its items are dropped
(ContainerDies, WrefDies). `HeapProofs` then has one lemma per instruction (LoadAtKeeps,
StoreAtKeeps, ...), built from `Settled`, which is HInv when nothing is due; one per step
of the cascade (DropRefKeeps, FreeBlockKeeps, OverwriteKeeps), where DropKeeps is the
case in which a count stays positive and DieKeeps the one in which an object dies and its
items are put in front of the tasks. RefsCounted leads from Balanced to the sum over places
that CountsExact states. For the action properties, NextIsMild says that every step either
leaves all targets, and the text of whatever has more than one reference, as they were, and
lets no count become zero (`Mild`), or is the drop of a last reference (`LastDrop`).

OnlyCyclesLeak is about reachability. It needs one more invariant, `DeadFreed` (what has a
count of zero has a task that frees it; by NextIsMild, case by case), so that between two
instructions everything allocated is referred to. ReachedFacts shows that ReachedFrom,
which follows references for as many steps as there are objects, is the least
closed set: a step that reaches nothing new is the last one, and there cannot be more steps
that do than objects. Were there an unreachable object outside of all cycles, it would have a
referrer, which reaches strictly more than it does and is unreachable and outside of all
cycles too; so take the one that reaches most (NoOtherLeak).

### The lexer

`LexerProofs`, for every alphabet within `Char` and texts of every length
(`LexerAssumption`; the limits on how often a character is typed play no part):

| theorem | states |
| --- | --- |
| LexerTypes | TypeOK |
| LexerPositions | PositionsRight |
| LexerWords | LongestWords |
| LexerSemicolons | SemicolonsAsDocumented |

Each step is first put into one of four shapes (`Shapes`): it *prepares* the text, *skips*
blanks or a comment, *emits* a word `WordAt(k, cur, n)`, or *fails*. For emitting there is a
lemma per class of words. NumberWord, IdentifierWord and OperatorWord show that what
scanning from the left stops at is the longest word; OperatorWord includes that of two
operators the longer one is tried first (choice1223). StringWord relates two ways to
find the end of a string: the code skips a character after each backslash, LongestWords
counts the backslashes in front of a quote (RunCount, StopRuns: a quote is passed exactly
if their number is odd). That the recursive functions have values at all is shown by
taking a least counterexample (StopsExist, OpensExist), as for chains in `XhtProofs`.

The first three invariants need little beyond themselves: `Typed` says that nothing has
been handed out while the text is typed; `PositionsInv` says what would be reported for
a lexeme at the current position; `WordsInv` says that everything since the last lexeme may be
left out.

Semicolons take more. `SemicolonsAsDocumented` looks at the brackets that are open by the
lexemes handed out; the code has a stack of levels, the level a keyword waits for its block
at (`blocky`), a cached `exprContext` and a flag that the last lexeme was a semicolon
put in. `SemicolonInv` relates them:

- `Matched`, `Shape`: as long as brackets match, those open are k blocks, then perhaps the
  head of a statement that waits for its block, then m brackets of expressions; the levels
  are k of "stmt" and m of "expr"; and `blocky` is k exactly if there is such a head. So
  the lexer's guess whether a `{` opens a block is right for every text whose brackets
  match, and the levels are the brackets;
- `Read`: lexemes end where the lexer is or before; none but a semicolon put in begins
  there, and that one exactly if the flag is set;
- every position passed is `Good`: it has the semicolon the rule asks for, or has none.

DueHere is the heart: at a line break, a `}` or the end of the text, insert_semicolon's
condition, on levels and flag, is the rule's, on brackets and lexemes. `Moves` says what each
step does to levels, `blocky` and flag; MatchedOpen, MatchedBrace, MatchedClose and MatchedIf
carry Matched over it. OpensGrow, StackStays and GoodStays say that lexemes handed out
later change nothing about what has been passed. Once brackets do not match, the
documented rule has nothing to say and neither has the invariant (`Bad` is never left).

### The code generator

`CodegenProofs`, for every set of identifiers, expressions, headers and signatures that
satisfies `CodegenAssumption` (they are well-formed; a function that gathers has a
parameter) and sources of every length and nesting:

| theorem | states |
| --- | --- |
| CodegenTypes | TypeOK |
| CodegenNames | NamesResolved |
| CodegenLines | LinesFound |

NamesResolved speaks of functions that have ended. What makes it true is what is known of
those that have not: close_scope walks the ranges of code recorded for the innermost scope
and replaces what is symbolic there, so the ranges must be exactly that function's code.
`IInv` says, while a source is parsed, that there are functions sc, own and h from the open
constructs to scopes, shapes and heights of the stacks such that (`Built`):

- `Scoped`: scopes and shapes increase with each function that is begun, and no other
  construct has its own;
- `Placed`: constructs are in the order of their positions, and so are the jump each has to
  patch and the clauses of a for loop;
- `Stacked`: the stacks of jumps to be patched are cut into segments by marks, one for each
  construct that has one, and what a construct pushed lies behind where it began. This is
  what keeps stack_segment_end_fixup within its own segment, and a for loop's rotation from
  moving a jump that an outer construct is still to patch;
- `Owned`: an open function begins with its OP_FUNCTION; all code since is its own or that of
  functions within it;
- `Ranged`, `Covering`: the ranges are in the order of their scopes, the last one is open, and
  every instruction of an open function is in a range of its scope;
- `Looped`: the post clause of an open for loop is that function's own code, in one range;
  or the body has defined a function, and then RangesMoved holds;
- `Named`: names of open functions are symbolic, or the locals they declare by `:=`;

and of those that have ended, that every name is `Settled`: the local of its index or the
global of its number, in a table of globals that only grows and in which no name is twice.

The case that is hardest is ForEnd: rotating the code permutes positions, so all of the
above is carried over along the permutation, and the ranges, which are not rotated,
still cover the code, unless the body has defined a function: finding 2. ClosedIs shows
that the walk over the last ranges settles all and only that function's names.
BuiltEntered and BuiltClosed carry `Built` over the beginning and the end of a function,
EmitContinues over anything that appends code.

LinesFound needs no invariant but the type of `prog`; the code may be in any order. Quarks
and FindQuark are recursive functions; that they have the values their equations
say is shown once, for any function that is computed step by step (Recursion). Of the
table, `Marks` says that at each instruction with a line the last entry not behind it is of
that line, so that to_chunk may leave out the others; of the search, `Searches` says that all
below the window are not behind the instruction, all above it are, and that it
shrinks. So it ends at that entry, which is not before the first: the `assert` of find_quark.

### Only model-checked

- Liveness (ErrorsReachTheDriver): the proof system has no rule for ENABLED.
- What numbers are worth: TypeOK, SumsExact and the others of Number need an induction over
  the words.
- JumpsLand and DepthStatic of Codegen. They compare the code emitted with where each construct
  ended up and with walks along it, from jump to jump. A jump keeps its aim through the
  patches and rotations of later statements because those move whole constructs; an
  invariant for that has to describe the layout of every construct, open or closed, after any
  number of rotations around it, and of DepthStatic it would need the depth at each
  instruction besides: an induction over paths.
- Everything about Expr. NothingRefused and GroupedAsDocumented compare with trees that are
  built by folding over the tokens, an induction over data.

## 5. Disagreements found

1. **Locals after a call that gathers or scatters** (`vm.c:1218`, run EvalStaleLocals). The
   offset of the caller's locals is computed from the register *after* the value
   stack may have moved. With a full operand stack and an array that is exactly full,
   calling a gathering function with no extra argument saves a meaningless offset, and the
   caller's locals are lost when the callee returns.
2. **A function in the body of a for loop with a post clause** (`parse.c:1331`, run
   CodegenFunInFor). The rotation moves code whose position the RangeStack remembers. The
   store of the function under its name is never resolved, or, with a longer post clause,
   instructions are skipped and the parser reports "program is too big"
   (`TooBig` is reached in the run Codegen).
3. **Priorities of & and ^** (`parse.c:616`, run ExprBitwise): the README's table has
   them the other way round.
4. **ceil** (`number.c:928`, run NumberCeil): README.md:840 has it round away from zero;
   the code adds one to a positive number only, so ceil(-1.5) is -1.
5. **frac of a negative number** (`number.c:943`, `NumberFrac.cfg`): README.md:849-850 has it
   as `x + trunc(x)`; number_frac returns x - trunc(x) for every x, so frac(-1) is 0, not
   -2. IntegersRight speaks of frac only where the two agree.
6. **Digits of Encode** (`number.c:507`, `NumberEncode.cfg`): README.md:777 promises `n` digits
   in the fractional part; number_tostring_base removes the trailing zeros among them, so
   Encode(0.5, 2, 3) is 0.1. TextsRight says of Encode's text that it stands for x cut to n
   digits and has at most n, which is so either way.

Seen while reading, outside what is modelled so far: `load_string` does not free the error
message when more text is needed (`main.c:87`); OP_MODIFY_AT leaves a nil behind
when the operation fails (`vm.c:1502`, modelled in Heap as it is); the comment above
get_elem_ptr_at speaks of stealing references the code leaves with the caller
(`vm.c:941`); the scatter error after a comma is reported as need-more at the end of a
line (`parse.c:682`, modelled in Expr as it is); a line break after a backslash in a string is
passed over without counting the line (`lexer.c:217`), so PositionsRight stops there.

## 6. What is not modelled, and why

- *Digit loops.* What libdeci's functions do to a span of words is taken by value: it is
  an external library whose directory is empty here. Which of its multiplications and
  divisions `fancy.c` chooses at which length is left out with it. Lengths and scales that
  saturate at SIZE_MAX words do not fit into memory.
- *Interactive mode*: main.c's loop that reads on while parse() needs more. It keeps
  nothing but the text typed so far.
- *Natives on strings, random numbers, the clock*: pure functions or I/O.
- *stdlib.calx*: pure functions in the language itself.
- *Instruction semantics*: which value an operator computes, and the comparison
  and conversion rules. EvalStack lets it be any value; Number has those on numbers.
- *setup_for_eval's refusal* of a function with parameters (`vm.c:1068`): state_eval is called
  on what parse() made of a whole text only, which has none.
- *Functions, chunks as counted objects*: Heap has lists, dicts, strings and weak
  references; functions hold no values but their chunk's constants and cannot be part of a cycle.
- *Memory exhaustion*: the allocation wrappers of common.c end the process.
- *Text output, disassembler, prompt*: I/O without state of its own.
- *Names as strings*: identifiers are model values; hashes are given by `Hash`.

## 7. The plan

Done, in this order, the most important first: Program, EvalStack, CallFrames and the proofs
of EvalStack's invariants; Xht and KeyMap; Heap; Codegen; Expr; Lexer; Number; the proofs
about Xht's limits and Number; that Xht implements KeyMap and EvalStack CallFrames; the
proofs about Heap; the proofs about Lexer; those about Codegen's names and lines.

Next:

1. `Session`: the interactive loop of main.c over the lexer, parse and eval: what is kept
   from one line to the next (globals, the buffer), what is dropped after an error; a
   line that could be continued is never taken for complete, and one that is complete is
   not held back. Decoding of literals (escapes, numbers).
2. `Stdlib`: gcd, jacobi, probab_prime, nth_root as functions checked against their
   definitions.
3. Proofs: Codegen: JumpsLand, from the layout of a closed construct (its pieces in order and
   without a hole, jumps by distance) on top of the invariant there is.
4. Composition: Codegen's output as the program EvalStack runs, on small programs, to
   replace the depth contract by the code itself.
