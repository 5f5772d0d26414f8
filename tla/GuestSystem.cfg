SPECIFICATION Spec
CONSTANTS
  Parts = {"binder", "parcel", "arrays", "classes", "direct", "linker", "relocs", "egl", "stubs", "cxx", "heap", "assets",
           "canvas", "paint", "shimparcel", "events", "frames"}
  \* GuestBinder: two binders, one name, two death recipients, a loop over
  \* death links in the callback of another.
  ServiceNames = {"n1"}
  Recipients = {"r1", "r2"}
  MaxBinders = 2
  MaxHeld = 2
  MaxLoops = 2
  \* GuestParcel: two transactions of up to two values.
  MaxValues = 2
  MaxCalls = 2
  \* JniArrays: two arrays, a scratch ring of five blocks.
  RingBlocks = 5
  Lengths = {0, 2}
  MaxArrays = 2
  MaxGets = 3
  \* JniClasses: two classes with natives, guest calls two deep.
  Buffers = {"a1"}
  MethodNames = {"n1", "n2"}
  Functions = {"f1", "f2"}
  NativeExports <- MCNativeExports
  MaxJniHandles = 2
  MaxDepth = 2
  \* DirectSo: a library and three it may need, one of them built in.
  Main = "main"
  Deps = {"a", "b", "c"}
  Builtin = {"c"}
  NeedsOf <- MCNeedsOf
  Size <- MCSize
  MemoryEnd = 4
  \* GuestLinker: an executable and four libraries, room for four objects.
  Exe = "main"
  LinkedLibs = {"a", "b", "c", "d"}
  SystemLibs = {"c"}
  LinksOf <- MCLinksOf
  TlsSize <- MCTlsSize
  TlsStart = 4
  MaxObjects = 4
  \* PackedRelocs: words of six bits: two entries after an address, two groups of relocations.
  WordBits = 6
  Digit = 4
  MemorySlots = 14
  RelrFiles <- MCRelrFiles
  Groups <- MCGroups
  \* EglBridge: two host handles, two mapped buffers.
  MapHeapSize = 3
  MapLimit = 2
  MapLengths = {1, 3}
  MaxEglHandles = 2
  MaxMaps = 2
  \* StubTable: two libraries and two functions, two numbers for procedures and one for imports.
  Libraries = {"gl", "egl"}
  Names = {"f", "g"}
  Exports <- MCExports
  HostProcs = {"f", "g"}
  Imports = {"i1", "i2"}
  ProcBase = 1
  ProcLimit = 3
  ImportLimit = 4
  MaxStubs = 4
  MaxHandles = 2
  \* GuestCxx: three threads at one static, two control blocks with three pointers of a kind.
  Threads = {"t1", "t2", "t3"}
  Guards = {"g1"}
  ControlBlocks = {"b1", "b2"}
  MaxRefs = 3
  \* GuestHeap: three blocks, sizes that wrap among those asked for.
  HeapWords = 64
  HeapBase = 0
  HeapSize = 12
  Unit = 2
  Page = 4
  StackSize = 2
  BitmapBytes = 1
  Requests = {0, 1, 3, 33, 63}
  MaxBlocks = 3
  \* GuestAssets: two open assets, a file that is replaced.
  AssetNames = {"f", "g", "u"}
  SafeNames = {"f", "g"}
  Sizes = {0, 2}
  ReadCounts = {1, 3}
  MaxAssets = 2
  MaxReplaced = 1
  \* ShimCanvas: two bitmaps, three canvases in two slots, five calls.
  BitmapSlots = 2
  CanvasSlots = 2
  StackLimit = 2
  MaxBitmaps = 2
  MaxCanvases = 3
  MaxCanvasCalls = 5
  \* ShimPaint: three paints in two slots, two shaders in one.
  PaintSlots = 2
  FilterSlots = 1
  ShaderSlots = 1
  MaxPaints = 3
  MaxFilters = 1
  MaxShaders = 2
  \* ShimParcel: parcels of four words.
  MaxWords = 4
  MinCapacity = 2
  MaxParcelBinders = 1
  \* ShimEvents: two motion events, one display event receiver.
  Events = {"e1", "e2"}
  Receivers = {"r1"}
  MaxX = 1
  MaxPosted = 1
  \* FrameChannel: three frames of two parts, two connections.
  FrameParts = 2
  BufferParts = 2
  MaxFrames = 3
  MaxConns = 2
INVARIANTS
  BindersAndParcels
  JniEnvironment
  Loaders
  GuestResources
  Drawing
  ShimChannels
CHECK_DEADLOCK FALSE
