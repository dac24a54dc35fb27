------------------------ MODULE GLESShaderRenderable ------------------------
(***************************************************************************)
(* Peach::GLESShaderRenderable and its GLESShader (src/Renderer/EGL):      *)
(* the constructor reads a configuration, compiles every file of a shader  *)
(* folder in the order the file system lists them, links the program and   *)
(* makes the vertex buffer.  What the code checks ends the constructor with *)
(* an exception, and the destructor releases what was made; what it does    *)
(* not check, a program or a buffer that GL refuses to make, is met again   *)
(* in Draw(), a sequence of GL calls.                                       *)
(*                                                                         *)
(* GL keeps a program that is in use, and a shader that is attached, until *)
(* that ends, however early it is told to delete them: those are doomed.   *)
(***************************************************************************)
EXTENDS Naturals, Sequences

CONSTANT Files  \* entries the shader folder may hold

ASSUME RenderableAssumption == Files \cap {"program", "vbo"} = {}

VARIABLES
  making,    \* the constructor's progress
  folder,    \* what each entry of the folder is
  todo,      \* entries the directory_iterator has not reached
  attached,  \* shader stages attached to the program
  program,   \* m_program_id is not 0
  vbo,       \* m_vbo is not 0
  refused,   \* history: what GL refused to make, unchecked
  drawing,   \* the next call of Draw()
  located,   \* attributes the linked program has
  glObjects, \* GL's side: the program, the buffer, and shaders by their file
  doomed,    \* GL's side: objects deleted while something still needs them
  used,      \* GL's side: glUseProgram() made the program current
  bound,     \* GL's side: the GL_ARRAY_BUFFER binding
  source     \* GL's side: what each attribute reads, or that it is disabled

loadVars  == <<making, folder, todo, attached, located>>
nameVars  == <<program, vbo, refused>>
stateVars == <<used, bound, source>>
renderableVars == <<loadVars, nameVars, drawing, glObjects, doomed, stateVars>>

Stages  == {"vertex", "fragment"}
Attribs == {"a_position", "a_uv"}
\* A broken shader does not open or does not compile.  A file that is neither
\* .vert nor .frag may hold a text that compiles all the same ("other_glsl").
Entries == {"absent", "vert", "frag", "broken_vert", "broken_frag", "other", "other_glsl",
            "subdir"}

\* Mutant: the attributes are set up before the buffer is bound.
PointersFirst == <<"use", "uniforms", "a_position", "a_uv", "bind", "draw", "disable", "unbind">>

DrawCalls == <<"use", "uniforms", "bind", "a_position", "a_uv", "draw", "disable", "unbind">>

Present == {f \in Files : folder[f] # "absent"}

RenderableTypeOK ==
  /\ making \in {"none", "config", "folder", "files", "buffer", "threw", "made"}
  /\ folder \in [Files -> Entries] /\ todo \subseteq Present
  /\ attached \subseteq Stages /\ located \subseteq Attribs
  /\ program \in BOOLEAN /\ vbo \in BOOLEAN /\ used \in BOOLEAN
  /\ refused \subseteq {"program", "vbo"}
  /\ drawing \in {"idle"} \cup {DrawCalls[i] : i \in DOMAIN DrawCalls}
  /\ glObjects \subseteq {"program", "vbo"} \cup Files /\ doomed \subseteq glObjects
  /\ bound \in {"none", "vbo"} /\ source \in [Attribs -> {"disabled", "none", "vbo"}]

NothingSet == [a \in Attribs |-> "disabled"]

RenderableInit ==
  /\ making = "none" /\ folder \in [Files -> Entries] /\ todo = {}
  /\ attached = {} /\ located = {}
  /\ program = FALSE /\ vbo = FALSE /\ refused = {} /\ drawing = "idle"
  /\ glObjects = {} /\ doomed = {}
  /\ used = FALSE /\ bound = "none" /\ source = NothingSet

\* Each check of the constructor, of Load() and of the directory_iterator may
\* end it; ~GLESShader() then deletes a program that is still held.
Throw ==
  /\ making \in {"config", "folder", "files"} /\ making' = "threw"
  /\ UNCHANGED <<folder, todo, attached, located, nameVars, drawing, glObjects, doomed, stateVars>>

ReadConfig ==
  /\ making = "config" /\ making' = "folder"
  /\ UNCHANGED <<folder, todo, attached, located, nameVars, drawing, glObjects, doomed, stateVars>>

\* glCreateProgram() and glGenBuffers() make the object, or leave 0 in the
\* member, which nothing checks.
MadeOrRefused(name, made) ==
  /\ glObjects' = IF made THEN glObjects \cup {name} ELSE glObjects
  /\ refused'   = IF made THEN refused ELSE refused \cup {name}

\* Mutant: the loop takes names it was given instead of those in the folder.
ListAnyName ==
  /\ making = "folder" /\ making' = "files"
  /\ todo' = Files /\ attached' = {}
  /\ program' \in BOOLEAN /\ MadeOrRefused("program", program')
  /\ UNCHANGED <<folder, located, vbo, drawing, doomed, stateVars>>

CreateProgram ==
  /\ making = "folder" /\ making' = "files"
  /\ todo' = Present /\ attached' = {}
  /\ program' \in BOOLEAN /\ MadeOrRefused("program", program')
  /\ UNCHANGED <<folder, located, vbo, drawing, doomed, stateVars>>

\* shader_type: a file that is neither .vert nor .frag leaves it uninitialized.
ShaderTypes(entry) ==
  CASE entry \in {"vert", "broken_vert"} -> {"vertex"}
    [] entry \in {"frag", "broken_frag"} -> {"fragment"}
    [] OTHER                             -> Stages \cup {"invalid"}

\* What the text of a file allows; GL may still refuse the shader object.
Compiles(entry, type) ==
  \/ <<entry, type>> \in {<<"vert", "vertex">>, <<"frag", "fragment">>}
  \/ entry = "other_glsl" /\ type \in Stages

\* glDeleteProgram(): the shaders attached to the program go with it.  The
\* program 0 is ignored.
GlDeletesProgram ==
  CASE ~program -> UNCHANGED <<glObjects, doomed>>
    [] program /\ used  -> doomed' = doomed \cup {"program"} /\ UNCHANGED glObjects
    [] program /\ ~used -> glObjects' = glObjects \ (doomed \cup {"program"}) /\ doomed' = {}

\* Mutant: the program is forgotten without being deleted.
ForgetProgram == program' = FALSE /\ making' = "threw" /\ UNCHANGED <<glObjects, doomed>>

\* Load() fails after the program was made: it is deleted before the return.
DeleteProgram == program' = FALSE /\ making' = "threw" /\ GlDeletesProgram

\* CreateShader() compiled: glAttachShader(), which takes one shader of each
\* stage and none without a program, and glDeleteShader(), which leaves an
\* attached one to the program.
AttachShader(f, type) ==
  /\ IF program /\ type \notin attached
       THEN /\ attached' = attached \cup {type}
            /\ glObjects' = glObjects \cup {f} /\ doomed' = doomed \cup {f}
       ELSE UNCHANGED <<attached, glObjects, doomed>>
  /\ UNCHANGED <<making, program>>

\* One turn of Load's loop, CreateShader() included.
NextFile ==
  /\ making = "files"
  /\ \E f \in todo :
       /\ todo' = todo \ {f}
       /\ IF folder[f] = "subdir"
            THEN UNCHANGED <<making, attached, program, glObjects, doomed>>
            ELSE \/ \E type \in ShaderTypes(folder[f]) :
                       Compiles(folder[f], type) /\ AttachShader(f, type)
                 \/ DeleteProgram /\ UNCHANGED attached
  /\ UNCHANGED <<folder, located, vbo, refused, drawing, stateVars>>

\* The loop is over; a program without both stages does not link.  Of program 0
\* glGetProgramiv() says nothing: link_result stays uninitialized and may read
\* as success, and no attribute will be found in it.
LinkProgram ==
  /\ making = "files" /\ todo = {}
  /\ \/ /\ IF program THEN attached = Stages /\ located' \in SUBSET Attribs
                       ELSE located' = {}
        /\ making' = "buffer"
        /\ UNCHANGED <<program, glObjects, doomed>>
     \/ DeleteProgram /\ UNCHANGED located
  /\ UNCHANGED <<folder, todo, attached, vbo, refused, drawing, stateVars>>

\* glGenBuffers(), filled while it is bound; what it holds is left out.
MakeBuffer ==
  /\ making = "buffer" /\ making' = "made"
  /\ vbo' \in BOOLEAN /\ MadeOrRefused("vbo", vbo')
  /\ UNCHANGED <<folder, todo, attached, located, program, drawing, doomed, stateVars>>

Construct == ReadConfig \/ CreateProgram \/ NextFile \/ LinkProgram \/ MakeBuffer \/ Throw

\* The destructor, and the unwinding of a constructor that threw: the program,
\* then the buffer.
Destroy ==
  /\ making' = "none" /\ program' = FALSE /\ vbo' = FALSE
  /\ LET freed == IF program /\ ~used THEN doomed \cup {"program"} ELSE {}
     IN  /\ glObjects' = glObjects \ (freed \cup {"vbo"})
         /\ doomed' = (doomed \ freed) \cup (IF program /\ used THEN {"program"} ELSE {})
  /\ UNCHANGED <<folder, todo, attached, located, refused, drawing, stateVars>>

\* The context is destroyed, and everything in it.
ContextGoes ==
  /\ glObjects' = {} /\ doomed' = {}
  /\ used' = FALSE /\ bound' = "none" /\ source' = NothingSet
  /\ UNCHANGED <<loadVars, nameVars, drawing>>

(***************************************************************************)
(* Draw().  glViewport() and glClear() come before it; nothing unbinds the *)
(* program, which stays in use from the first frame on.                    *)
(***************************************************************************)
DrawCall(call) ==
  \E i \in DOMAIN DrawCalls :
    /\ DrawCalls[i] = call /\ drawing = call
    /\ drawing' = IF i < Len(DrawCalls) THEN DrawCalls[i + 1] ELSE "idle"
    /\ UNCHANGED <<loadVars, nameVars, glObjects, doomed>>

StartDraw ==
  /\ drawing = "idle" /\ drawing' = DrawCalls[1]
  /\ UNCHANGED <<loadVars, nameVars, glObjects, doomed, stateVars>>

Bind == DrawCall("use") /\ used' = program /\ UNCHANGED <<bound, source>>

SetUniforms == DrawCall("uniforms") /\ UNCHANGED stateVars

\* glBindBuffer(m_vbo): what the attributes then point at; 0 is no buffer.
Buffer == IF vbo THEN "vbo" ELSE "none"

BindBuffer ==
  \/ DrawCall("bind")   /\ bound' = Buffer /\ UNCHANGED <<used, source>>
  \/ DrawCall("unbind") /\ bound' = "none" /\ UNCHANGED <<used, source>>

\* GetAttribLocation() is not -1.
HasAttrib(a) == a \in located

\* An attribute the program does not have is left alone.
EnableAttrib(a) ==
  /\ DrawCall(a)
  /\ source' = IF HasAttrib(a) THEN [source EXCEPT ![a] = bound] ELSE source
  /\ UNCHANGED <<used, bound>>

DrawArrays == DrawCall("draw") /\ UNCHANGED stateVars

DisableAttribs ==
  /\ DrawCall("disable")
  /\ source' = [a \in Attribs |-> IF HasAttrib(a) THEN "disabled" ELSE source[a]]
  /\ UNCHANGED <<used, bound>>

Draw ==
  \/ StartDraw \/ Bind \/ SetUniforms \/ BindBuffer
  \/ (\E a \in Attribs : EnableAttrib(a)) \/ DrawArrays \/ DisableAttribs

\* What the attributes of the program read while it draws.
Reads(from) == [a \in Attribs |-> IF HasAttrib(a) THEN from ELSE "disabled"]

\* A member is 0 only if GL refused the object; the program in use is the
\* renderable's, with both stages; its attributes read the renderable's buffer
\* and nothing else.  Without the buffer they read client memory, from address
\* 0; without the program no attribute is enabled and none is read.
Drawable ==
  /\ making = "made"
  /\ program = ("program" \notin refused) /\ vbo = ("vbo" \notin refused)
  /\ IF program THEN attached = Stages ELSE located = {}
  /\ drawing \notin {"idle", "use"} => used = program
  /\ drawing = "draw" => source = Reads(IF "vbo" \in refused THEN "none" ELSE "vbo")
  /\ drawing = "idle" => bound = "none" /\ source = NothingSet

=============================================================================
