# A verification of jlox in C

The repository is a tree-walking interpreter for Lox, "JLox in C"
(`CMakeLists.txt`): it scans and parses a script, or a line typed at a prompt,
and runs it. This directory holds TLA+ models of its core, the TLC
configurations that check them on small instances, and proofs for the TLA+
proof system. Paths below are relative to `src/source/` unless they say
otherwise.

## 1. The system

| Component | Code | State | Operations |
|---|---|---|---|
| driver | `main.c`, `lib.c` | `HadError`, `HadRuntimeError`, the one `Interpreter`, `errno` | `library_run_file`, `library_run_prompt`, `library_run`, `library_error`, `library_runtime_error` |
| scanner | `private/scanner.c`, `private/token.c` | start, current, line, token list, keyword table | `scanner_scan_tokens` |
| parser | `private/parser.c` | cursor in the token list | recursive descent, `synchronize` |
| syntax trees | `private/ast/expr.c`, `stmt.c` | none after construction | `expr_new_*`, `stmt_new_*`, the accept macros |
| interpreter | `private/interpreter.c`, `runtime_error.c` | `environment`, `globals`, the C stack | one visitor per node, `interpreter_call`, `interpreter_execute_block`, `interpret` |
| objects | `private/object.c` | immutable values | constructors, `object_arity`, `is_truthy`, `is_equal`, operators, printing |
| environments | `private/environment.c` | a table and `enclosing` | define, assign, get |
| hash table | `private/hash/table.c` | `data`, `len`, `cap`, `function` | insert, rehash, try_get, contains |
| hash function | `private/hash/fnv.c` | none | FNV-1a |
| lists | `private/list.h`, `list.c` | `pointer`, `length`, `capacity` | init, reserve, push |
| statement dump | `private/ast/debug.c` | an indentation level | `stmt_debug`, `expr_debug`, before every run |
| AST printer | `private/ast/printer.c`, `strutils.c` | none | never called |
| garbage collector | `src/gc-8.0.4` | third-party | `GC_MALLOC` |

`main` calls the driver; the driver makes one interpreter for the life of the
process and sends each text through scanner, parser, `stmt_debug` and
`interpret`. The
scanner, the parser and the interpreter call back into the driver to report an
error, which sets a flag that the driver tests later. The interpreter keeps its
scopes in environments, each on a hash table; the scanner's keywords are
another such table.

The program has one thread. What is hard in it is not concurrency but:

* **unwinding**: results travel back through an arbitrary stack of visitors,
  blocks and calls; each must test, convert and pass on errors and returns, and
  restore `interpreter->environment` on every way out;
* **state that outlives a run**: at the prompt the interpreter, its globals,
  the two flags and `errno` are shared by all lines, failed ones included;
* **closures** that run in a scope whose block ended long ago;
* **the table**: probe loops without a bound, wrap-around, a load test taken
  before the count goes up, a capacity that changes before the buckets move;
* **limits and partial failure**: assertions on values a program can choose, a
  parser that goes on after errors with missing subtrees, recursion on the C
  stack.

What makes each part correct:

* *table*: every call returns; no index leaves its array; a lookup finds exactly
  the keys inserted, in whatever order they collided and however often the table
  grew; a key shows the value last given to it (false, see findings);
* *environments and interpreter*: a scope entered is left on every path; a
  statement runs in the scope the text puts it in; a runtime error reaches the
  report and nothing runs in between (false for `while`); a call has a scope of its
  own with every parameter in it; a run that has an end reaches it;
* *driver*: a line runs if and only if it is well formed itself; the exit status
  tells the outcome; the end of the input is not a failure (false);
* *scanner and lists*: the text is cut the way the lexical grammar says; no read
  or write is outside of the text or the list; lines are counted; one `TOKEN_EOF`,
  last; a push loses nothing; scanning ends;
* *parser*: exactly the sentences of the grammar are accepted, with their trees;
  a null pointer that half of the functions do not test for has been reported by
  the time it is returned or stored; recovery makes progress and ends; no null
  pointer is followed (false);
* *the whole*: a session is the interpreter's session over what its correct lines
  mean; each of these is run, before the next line is read, and damaged lines have
  no part in it.

## 2. The modules

| Module | Models | Checked by | Proved in |
|---|---|---|---|
| `HashTable` | `hash/table.c` | `MCHashTable` | `HashTableProofs`, `BindingsProofs` |
| `BindingLists` | what a table contains, as its callers see it | through its users | |
| `Bindings` | the abstract specification of a table | refined by `HashTable` | `BindingsProofs` |
| `Environment` | `environment.c`, over `BindingLists` | through `Interpreter` | |
| `Objects` | `object.c` and the operators of `interpreter.c` | through `Interpreter` | |
| `Syntax` | the constructors of `ast/` | through `MCInterpreter`, `MCParser` | |
| `Trees` | the whole trees: what `ast/expr.h` and `ast/stmt.h` declare, with a node at every pointer that is followed without a test | through `MCParser` | `ParserProofs` |
| `Depths` | no code: fills in the depths of trees that are written down by hand | | |
| `Interpreter` | `interpreter.c`, with `Objects` and `Environment` | `MCInterpreter`, `MCScopes` | `InterpreterProofs`, `ScopesProofs` |
| `Scopes` | no code: the trees `Interpreter` is given, and the invariant behind its scoping | `MCScopes` | `ScopesProofs` |
| `Library` | `main.c`, `lib.c` | `MCLibrary` | `LibraryProofs` |
| `Lists` | `list.h`, `list.c` | through `Scanner` | `ScannerProofs` |
| `Scanner` | `scanner.c`, over `Lists` | `MCScanner` | `ScannerProofs` |
| `Parser` | `parser.c`, over `Syntax` and `Trees` | `MCParser` | `ParserProofs` |
| `Jlox` | `library_run` at the prompt: `Scanner`, `Parser`, `ast/debug.c` and `Interpreter` | `MCJlox` | `JloxProofs` |

`PROJECT.json` maps each definition to the lines it stands for. Operators named
`Faulty...` are plausible mistakes (a missing reset, an index that does not
wrap, an early return past a restore); no specification uses them, and each is
there because a property is violated when it takes the place of its original.

### HashTable

The variables `data`, `len`, `cap` and `function` are the fields of the struct;
`slot` is the local `hash` of the probe loops; `newdata`, `oldcap` and `i` are
the locals of `rehash`. `pc` says which loop is running and every iteration of
every loop is a step, so termination and absence of lost buckets are properties
and not assumptions. `latest` is a history variable. `TryGet` is
`hash_table_try_get` as its two kinds of caller use it: to read, and (in
`environment_assign`) to store through the pointer it returns.

`Bindings` says what this comes to: each key has a list of bindings, an
insertion appends, a lookup sees the first, an assignment replaces the first,
and an insertion that grows the table may *rotate* lists. The rotation is real:
`rehash` copies buckets in index order, so the buckets of a key that had wrapped
round the end of the array are copied before the others.

### Objects, Environment, Syntax

An object is a record with the member its C variant has. A double is an integer
up to `MaxNumber`, an infinity or NaN, which is all the operators and the
comparisons tell apart in the programs that are checked; there is no negative
zero, and the tolerance of `is_equal` is left without effect except on
infinities, whose difference is NaN. A string is the sequence of the pieces it
was concatenated from.

The heap of environments is a sequence and a pointer an index, with 0 for NULL.
The table in an environment is one of `BindingLists`, with `len` and `cap` so
that it grows when the C table grows; as the hashes of the names are left open,
growing allows every rotation. Nothing is ever freed, as the collector frees
only what cannot be reached.

### Interpreter

A machine with an explicit stack. A C call that waits for a nested `evaluate` or
`interpreter_execute` is a frame, and `ctl` is what the innermost call is doing:
visiting a node, making a call, or returning one of the results of the two
result types. There is one action for the entry of each visitor and one for each
place where it is resumed. `BlockExit` is the common tail of
`interpreter_execute_block`, `CallReturns` the conversion of an execution result
at the end of `interpreter_call`, `WhileBody` the call in a `while` loop whose
result is dropped.

Assertions are kept (the build does not define `NDEBUG`): one that fails is the
control state `abort`, in which the process has ended. The C stack is modelled
by the bound `MaxStack`, beyond which a call aborts as a stack overflow does.
`depth` in a statement, and `raised` and `swallowed`, exist only for properties.
Messages, line numbers and formatting are left out, and so are the
tokens a node keeps only for reports.

### Library

A text is what becomes of it: whether it scans, parses, makes `parse_assignment`
crash (see findings), holds a literal out of
the range of a double, and how its run ends. The C library is modelled by the
outcomes the code tells apart, with what each does to `errno`. Branches on
`EINVAL` are kept although no call the driver makes can produce it.

### Lists and Scanner

A list is its `length`, its `capacity` and `capacity` cells, so that a write
behind the block, and cells that a growth does not copy, can be seen. The
scanner works on characters: an action is what `scanner_scan_token` does with
the first character of a token, or one turn of the loop of a comment, a string,
a number or an identifier. A NUL may be a character of the text, as it may be of
a file; it ends the copy `strncpy` makes of a string. `source_begin` is defined up to that NUL and not behind it: a read further out
stops TLC. The keyword table is empty, or complete as an earlier line has left it.
`strtod` is the decimal that is written, without rounding.

### Parser

A machine with an explicit stack, like the interpreter: a `parse_...` function
that waits for another is a frame with the nodes it has collected, `ctl` the
point the innermost one has come to or the node it returns. `PassOnNull` is every
`if (!node) return NULL;`, and the set `TestsForNull` names the calls that are
followed by one. The others (`parse_or`, `parse_and`, a function's body, a
grouping, both sides of an assignment) go on with the null pointer; `hole` records
that it was built into a tree. `from` in a frame is the cursor at the call. The
six binary levels differ in operators, operands and that test, and are one
function with the level as a parameter. A for loop is rebuilt by `Desugared`.
A statement is returned with its depth, the number of blocks and function bodies
around the functions that wait for it (`Inside`); the code keeps no such number,
and the properties about scoping need it.

### Jlox

The composition. The three machines are instances of their modules with
variables of their own; they share `HadError`, and the table of keywords and the
interpreter outlive a line. Every step is a step of one machine or of
`library_run` between them: a line is read, its tokens are handed over, the parser
returns and `HadError` is tested, the statements are dumped and interpreted, the
line ends and the flag is reset. (`HadRuntimeError`, which is reset there too, is
reset when the next run begins; nothing reads it in between.) `AsParsed` is the one conversion: a lexeme
becomes a string and a decimal one of the doubles of `Objects`. The names a
session can use are those of the lines' words that are no keywords (`Names`). `stmt_debug` and
`expr_debug` are the walks over the trees, which return if they meet no null
pointer where they follow one.

## 3. What TLC checks

All passing runs finish in well under five minutes.

| Run | Configuration | Shows |
|---|---|---|
| `table` | three keys, two values, up to 5 insertions with redefinition | `TypeOK`, `ProbeChains`, `VacantBucket`, `LookupFindsKey`, `CopyInv`, `CallsReturn`, and that the table implements `Bindings` |
| `table_fresh` | five keys, each inserted once, two hash functions | `TableInv` (the inductive invariant of the proofs) and `LatestVisible` |
| `scripts` | 3209 generated scripts | `TypeOK`, `EnvironmentRestored`, `LexicalScoping`, `ScopeInv` (the inductive invariant of the proofs), `CallsOwnScopes`, `ErrorsPropagate`, `RunsFinish` |
| `driver` | a script, or up to three lines at the prompt | `LinesStandAlone`, `StatusTellsOutcome` |
| `scanner` | every text of up to 4 characters of 11 classes, and longer ones | `TypeOK`, `LinesCounted`, `TokensInOrder`, `WordsWhole`, `TokensKept`, `AsGrammar`, `ScannerFinishes` |
| `parser` | sentences, sentences with one token removed or replaced, every text of up to 4 tokens of 8 kinds | `TypeOK`, `NullsReported`, `TreesWhole`, `DeclarationsAdvance`, `LimitsReported`, `AcceptsOnlySentences`, `AcceptsSentences`, `ParserFinishes` |
| `jlox` | up to four of eight lines, in every order, from characters | `WholeTrees`, `EnvironmentRestored`, `LexicalScoping`, `ErrorsPropagate`, `CorrectLinesRun`, `LinesFinish`, and that the program implements the interpreter's session over what the correct lines mean |

The properties, in words:

* `ProbeChains`: no free bucket between a key's home slot and its bucket, at
  every iteration of a rehash too; `VacantBucket`: every array a probe loop runs
  on has a free bucket; `LookupFindsKey`: a lookup answers NULL exactly for the
  keys never inserted; `LatestVisible`: without redefinition a key shows the
  value last given to it; `CopyInv`: at each iteration of a rehash the buckets
  of a key copied so far are met in the new array in the order of the old one;
  `CallsReturn`: every call comes back.
* `EnvironmentRestored`: every waiting function finds, when it is resumed, the
  environment it left, and after a run, failed or not, the interpreter is in the
  globals. `LexicalScoping`: a statement runs in an environment nested as deeply
  as the statement is in the text; depths are all it compares, and which of several
  environments of that depth it is follows from the closure a function object
  carries. `ScopeInv`: what makes that so, a relation
  between the text and every function object, waiting call and environment (see
  section 4). `CallsOwnScopes`: the scope of a call in progress is younger than all
  that are in use below it, and every parameter is bound there until the call
  returns, which is where the comment "arity was checked, so this is OK" leads.
  `ErrorsPropagate`: from its creation to its
  report, a runtime error is the only thing in progress. `RunsFinish`: the scripts
  of this run end, or abort; each was chosen to have an end (a loop whose body
  returns need not, see findings).
* `LinesStandAlone`: a line typed at the prompt is executed if and only if it is
  well formed itself, in the one interpreter all lines share.
  `StatusTellsOutcome`: the exit status of a script says whether it failed to
  parse, failed at run time, or ran.

* `AsGrammar`: the tokens are the longest lexemes of a grammar that is stated
  over the whole text, with their types, literals and lines, and an error is
  reported exactly if something fits none. `LinesCounted`: every token carries its
  line, behind comments and strings over several lines too. `TokensInOrder`: what
  the parser relies on. `WordsWhole`: a token that starts with a letter is a whole
  word, and its type is what the table of keywords says of it, whether this text or
  an earlier one built the table. `TokensKept`: growing the list changes no token.
* `AcceptsOnlySentences`: a text without a reported error is a sentence, and
  writing down the tree gives back the tokens, so precedence, associativity and
  dangling `else` are right. `AcceptsSentences`: no sentence is rejected, and a for
  loop is the while loop it stands for. `NullsReported`: whichever way a null
  pointer takes, an error has been reported by then. `TreesWhole`: what
  `parser_parse` returns without an error are whole trees, and the statements in them
  are as deep as they are in the text. `DeclarationsAdvance`: a
  declaration, a failed one too, takes a token, which is what makes the two loops
  over declarations end. `LimitsReported`: lists beyond 255 do not pass.
* `WholeTrees`: nothing with a hole in it reaches `stmt_debug` or `interpret`.
  `ImplementsSession` is a refinement: with everything but the interpreter's
  variables hidden, `Jlox` is `Interpreter` with the trees of the correct lines,
  written down by hand in `MCJlox`, as its programs: only these run, one after the
  other and none twice. It obliges nobody to run them; `CorrectLinesRun` does: when
  `library_run` returns, the programs that were run are those of the correct lines
  typed so far. A flag or a table of keywords that an earlier line left in disorder
  would make a correct line miss.

**Bounds.** `INITIAL_CAPACITY` is 5 instead of 8, so that the fifth insertion makes
the table grow; the proofs hold for every capacity above 4. Five insertions include a
creation, a growth with a wrapped chain and an insertion behind it. `Spread` makes two keys collide at the last bucket of the
first array, where probes wrap, and part when the table grows; `Collide` is the
longest chain there is. `MaxStack` is above what every terminating program there needs, so only the
unbounded recursions in `scripts` reach it. The scripts put each of seventeen
statements (returning, failing, calling, shadowing, redefining, recursing) into
a function and into a block, and eleven at the top level; thirty more return a function
from the function it was declared in, store it, shadow the names it uses, and call it
from a block, from itself and from the top level. Three lines are enough
for a line, one that disturbs the shared state, and one that would notice. The
sequence of a session is otherwise unconstrained; the proofs remove the bounds.
Four characters are two more than the longest lookahead needs; lists of 7 to 17
tokens meet the capacities 8 and 16 from both sides. The parser's sentences have
every operator next to every other on both sides, its damaged ones an error at
every place of every construct; the two limits are 2 instead of 255. `Heights` ends at 9,
no lower than the highest tree among them. Four of the
lines of `jlox` are as many as the longest chain of lines that need one another
(a closure, a function, a loop that calls it, and a line that uses all three).
Its loops end also when their bodies fail, because the error is dropped (see
findings); a `for` loop whose body fails never comes to its increment, and the
lines avoid that.

**Fairness.** `HashTable` and `Interpreter` assume weak fairness of `Run`, the
steps of a call or program that has begun: they are straight C code of one
thread, and the operating system keeps scheduling it. Nothing obliges anyone to
make another call or to type another line. `Scanner` and `Parser` assume it of
their next step, and `Jlox` of `library_run`, for the same reason. `Library` has no liveness property
and no fairness.

**Deadlock** is checked for the table. A session and the process do stop, after
the last program, an exit or an abort, and the scanner and the parser when they
return, so it is not checked for the others.

### Findings

Five runs check what the code, or the description of the program as JLox,
says, and show that it does not hold. Each was seen in the program too.

| Run | Property | What happens |
|---|---|---|
| `table_redefine` | `LatestVisible` | `var a = 1; var a = 2; print a;` prints 1: `hash_table_insert` never replaces; a later growth may make the new value appear |
| `top_return` | `ReturnStaysInside` | `return 1;` outside a function reaches `ASSERT_UNREACHABLE()` in `interpret` |
| `parser_crash` | `NullsNeverFollowed` | `= 1;` makes `parse_assignment` follow a null pointer, where "Invalid assignment target." was meant |
| `error_in_loop` | `ErrorsReported` | an error in the body of a `while` is dropped; the script goes on and exits with 0 |
| `end_of_input` | `EndOfInputIsNoFailure` | after a literal out of range the end of the input is reported as a failed allocation, because `errno` is stale |

`ErrorsPropagate` holds beside `ErrorsReported` failing because it speaks of an
error until it is reported or a `while` loop drops it. `WhileBody` drops a `return`
in the same way, so that `fun f() { while (true) return 1; } f();` never ends, and
a failing body of a `for` loop repeats for ever. `PrintValue` aborts on a function:
`stringify` has no case for it. No runs of their own show these.

## 4. What is proved

For every value of the constants, from the assumptions named in the modules
that declare them (TLC evaluates these in every run).

**HashTableProofs**: any keys, values and hash functions, any capacity above 4,
any number of insertions. `TableTypeCorrect` (no index leaves its array),
`ProbeLoopsHaveAnExit`, `ChainsStayWhole`, `LookupsAreExact`,
`LatestValueVisible`. The capacity matters: the load test compares the count
*before* the insertion with three quarters, so a table may hold one bucket more
than that, and with a capacity of at most 4 it could be full. The invariants are
not inductive alone; `TableInv` adds

* `LoadInv` and `CountInv`: the load after and during a call, and that `len`
  counts the used buckets, split during a rehash between the new array and the
  part of the old one still to be copied. Together they give the free bucket;
* `CursorInv`: what a running probe has passed, which is what makes the bucket
  it stores into reachable, and a miss a proof of absence;
* `KeysInv`: the buckets passed by the copying loop are in the new array and
  nothing else is;
* `CopyInv`: the new array shows a key, from its new home on, the buckets of it
  copied so far, in the order of the old array;
* `FreshInv`: without redefinition a key has one bucket, with its latest value.

**BindingsProofs**: with the same generality, `TableInvariant`,
`RehashKeepsOrder` and `TableImplementsBindings`, the refinement of `Bindings`.
The list of bindings of a key is what a probe from its home meets, an order of
slots that wraps. The lemmas say what that list is after a store into the free
bucket a probe ended at (one element longer, at the end), after a store through
a lookup's pointer (the first element replaced), and when the same slots are
listed from another start (a rotation). A rehash is invisible while it runs,
because callers see the old array until `RehashEnd`; `CopyInv` says that the new
array then lists a key's buckets in index order, which is the list from slot 0
instead of from the old home, hence a rotation of it. That is the reason why
`Bindings` allows rotations and no other order.

**InterpreterProofs**: any programs, number of runs and stack depth.
`ScopesAreRestored` rests on a relation between each frame and the one below it:
every step pushes a frame, pops one, replaces one or leaves the stack alone, and
three lemmas show that these shapes keep the relation; the actions are then only
classified by shape. `ErrorsReachTheTop` sorts the steps in the same way: each
passes an error on, reports it, drops it in a loop, begins a new run, or belongs to a
run that has not failed. `ArityChecked`, that the one place which starts a call comes after both
checks, is a lemma for `ScopesProofs`.

**ScopesProofs**: any set of programs whose trees are whole, any session and any
depth of recursion. `FunctionsKnowTheirScope`, `ScopingIsLexical`,
`InterpreterIsTyped` and `CallsHaveTheirOwnScopes`. `TreesAssumption` says which trees the programs are made of:
a node's children are nodes, optional ones may be NULL, and the statements of a
block or a function body are one level deeper. TLC evaluates it on the trees of the
run `scripts`; `JloxProofs` shows it of the trees `library_run` executes. `LexicalScoping` alone is far from
inductive: when a function is called, the depth of its body can only be known from
where the function object was made. `ScopeInv` therefore says of every function
object, in the table of any environment, among the operands and arguments of a
waiting visitor or as a result, that its closure is as deep as its declaration; of
every frame, that the statements it will go on with are as deep as the environment
it returns to, which `StackInv` of `InterpreterProofs` says will be restored; and
of every result, that it is of the type its receiver reads. `Depth` is a recursive
function over a heap of any size. That it exists, and does not change when the heap
grows, is proved by looking at the least counterexample (`Least`), as is the binding
of parameters to arguments in a call.

`CallsHaveTheirOwnScopes` adds `CallInv`: the frame above a waiting
`interpreter_call` is the block of its body, which holds because a statement is begun
only by the loops over lists and by `if` and `while`, never directly under a call. So
a frame's scope is the one `interpreter_call` made, younger than every environment
that existed then. That the parameters stay bound is a fact about the heap
(`BoundStays`): a definition appends, an assignment replaces, a growth rotates, and
none of these empties the list of a name.

The proof of `ScopeInv` found a slip in the model: two operators of `Objects` were CASE
expressions with arms that overlapped, whose value TLA+ leaves open although TLC
takes the first. They now decide in the order in which the C code does.

**LibraryProofs**: any texts and number of lines. `LinesAreIndependent` and
`StatusIsFaithful`, from `FlagsInv`, which says what the flags mean at each point
of the control flow and that they are clear whenever a text is read.

**ScannerProofs**: any texts and any table of keywords, which holds neither
`TOKEN_EOF` nor `TOKEN_IDENTIFIER`. `ScannerTypeOK`,
`ScannerLinesCounted`, `ScannerTokensInOrder` and `ScannerTokensKept`, from
`ScannerInv`: the list is well formed (as many cells as its capacity), the token
under way starts behind every pushed one, and `line` is one more than the number of
line ends behind the cursor. `PushFacts` says once what a push does, with and
without a growth. `ScannerTokensInOrder` is what the parser assumes of its input.
`ScannerWordsWhole` adds `WordInv`: while an identifier is read, everything from its
first character to the cursor is a letter or a digit and no letter comes before it;
between two tokens the cursor is not inside a word; a string or a number starts with
no letter; and the table of keywords is empty or complete, as it is after an earlier
line. It is what makes the
names of a program come from the words of its text.

**ParserProofs**: any list of tokens that ends with its one `TOKEN_EOF`, any
limits. `ParserTypeOK`, `ParserNullsReported`, `ParserDeclarationsAdvance` and
`ParserLimitsReported`, from `ParserInv`. A frame is related to the cursor and to
the frame below it: no frame waits from behind the cursor; the frames that must
have consumed a token by the time they are resumed have; a frame that carries a
null pointer, or a list beyond its limit, is there only after a report. Every
action pushes, pops or replaces a frame, and a lemma for each of these shapes
carries the relation on.

`ParserTreesWhole` is about the trees, which may be of any height (`Heights` is
`Nat`; the runs bound it). `Lower` is a recursive function from heights to the trees
below them; it is monotone, so its union `Expressions` and `Statements` is closed
under the constructors: finitely many children have a common height. Both facts are
proved by looking at a least counterexample, as the heap of `ScopesProofs` is.
`TreeInv` says that, unless an error was reported, the nodes a frame has collected
and the node that is returned are of the kinds its function waits for (`Collected`,
a case for each function), and that statements are as deep as the frames around them
are. A null pointer is not of any kind, so each of the places where the code does
not test for one needs `NullsReported`.

**JloxProofs**: any lines, any table of keywords, any length of session.
`TreesAreWhole`, `SessionRestoresScopes`, `SessionScopesLexically` and
`SessionReportsErrors`. The proofs of the parts are composed, not repeated: the
modules `ScannerProofs`, `ParserProofs` and `ScopesProofs` are instantiated for the
machines of `Jlox`, and their assumptions become what has to be shown at the two
places where one machine hands over to the next:

* `TokensOfLine`: what the scanner leaves is a list the parser may be given: it
  ends with its one `TOKEN_EOF`, literals are values, and identifiers are `Names`
  (from `TokensInOrder` and `WordsWhole`);
* `InterpreterAssumptions`: the trees over these tokens satisfy `TreesAssumption`,
  so what the parser leaves without an error is a program the interpreter may be
  given (from `TreesWhole`).

`JloxInv` says which of the invariants holds at which point of `library_run`:
between two lines the scanner and the parser are as new, the scanner's invariant
holds while it scans and the parser's while it parses, the statements that are
dumped and run are whole, and the interpreter's invariants hold throughout. The
instances through which `Jlox` runs the machines and those with the proofs differ in
the constants only (the parser of `Jlox` has no set of tokens, for example), and
lemmas (`ScannerNext`, `ParserNext`, `InterpreterRun`) say that their steps are the
same.

**Only model-checked**:

* liveness (`CallsReturn`, `RunsFinish`, `ScannerFinishes`, `ParserFinishes`,
  `LinesFinish`), which the prover cannot do;
* the comparisons with the two grammars (`AsGrammar`, `AcceptsOnlySentences`,
  `AcceptsSentences`): the reference is a recursive definition, and what it
  computes for every text needs an induction the prover cannot state;
* what the lines of a session mean, `ImplementsSession` and `CorrectLinesRun`: that
  the trees of the lines are the ones written down by hand is a matter of these lines. That every tree
  which reaches the interpreter is whole, whatever is typed, is proved.

## 5. What is not modelled

* **FNV-1a**: 64-bit arithmetic without state; the table is right for any hash
  function, and TLC's integers have 32 bits.
* **What the dump and the printing functions write**, and the AST printer, which
  nothing calls: formatting only.
* **`list_resize_`, `hash_fnv1`**: never called.
* **Garbage collector**: `src/gc-8.0.4` is the vendored Boehm collector, nine
  tenths of the lines of C in the repository. It is not this program's logic: the
  program uses three of its allocation functions and none of its other interfaces.
  It is assumed to return zeroed memory and to keep what can be reached. Of the
  program's own code, about two thirds of the lines are mapped; the rest are
  declarations, includes and the printing code named above.
* **A failing allocation in the interpreter**: the code does not test for it.

## 6. Plan

Components left: none that has state, and no safety invariant that could be stated
without a recursive reference is left without a proof. What would add to what is here:

1. A reference evaluation of expressions and statements, against which the stack
   machine is checked over bounded programs.
2. `Library` with the outcome of a text computed by `Jlox` in place of abstract
   texts.
