SPECIFICATION AllSpec
CONSTANTS
  m1 = m1
  t2 = t2
  None = None
  Threads = {m1, t2}
  MainThread = m1
  FrameModules = {"graphics"}
  HEADLESS_FRAMES = 1
  MaxRuns <- RunsOfMain
  INTERRUPT = INTERRUPT
  EXIT = EXIT
  Shades = {"red"}
  Black = "red"
  Places = {"o"}
  Home = "o"
  Sizes = {"s"}
  MaxHandles = 1
  Ids = {1}
  Widgets = {"button", "slider"}
  MaxCommands = 3
  Names = {"a"}
  MaxTextures = 2
  MaxSprites = 2
  MaxOthers = 1
  Files = {"a", "b"}
  Changes = {"modify", "delete"}
  Watches = {1}
  MaxEvents = 2
  Clients = {m1}
  Peers = {"p", "q"}
  MaxSent = 2
  MaxChoices = 2
  MaxSlots = 1
  MaxDocuments = 2
  MaxHeight = 2
  MaxShown = 3
  Levels = {0, 1}
  Loudest = 1
  MaxSounds = 2
  MaxPlayers = 2
  Databases = {"a"}
  Scripts <- DatabaseScripts
  MaxOpened = 2
  MaxRows = 3
  ImageSizes <- PictureSizes
  Colours = {"black", "white"}
  Pasted <- PastePlaces
  Shapes <- PaintedShapes
  Bands = 1
  MaxImages = 2
  Keys = {"A"}
  KEYS <- KeyTable
  GameKeys <- GameKeyTable
  Buttons = {"left", "unknown"}
  UnknownButton = "unknown"
  Steps <- PointerSteps
  MaxFrames = 2
  Obstacles <- PlatformerWalls
  OneWay = {"ledge"}
  Slopes = {"ramp"}
  WallPlaces <- PlatformPlaces
  Starts <- PlayerStarts
  PlayerSpeeds = {0, 1}
  Gravity = 1
  HalfWidth = 1
  HalfHeight = 1
  WallHalfWidth = 2
  WallHalfHeight = 1
  GROUND_SNAP = 2
  Limit = 5
  SpritePlaces <- PlacesOfSprites
  Halves <- SpriteHalves
  Velocities <- SpriteVelocities
  Scales = {2}
  Zooms = {0, 2}
  SpriteScenes <- ScenesDrawn
  WindowHalf <- WindowMiddle
  MaxLists = 1
  MaxUpdates = 1
  MaxChanges = 2
  MapFiles <- FilesOfMaps
  Bytes = {"a", "e", "more", "x", "$"}
  Characters <- CharactersOfSubjects
  MaxLength = 2
  Replacements <- ReplacementTexts
  Continuation = "more"
INVARIANTS
  OnlyBoundTargetsArePainted
  WidgetsKeepTheirBlock
  IndicesResolve
  ChangesAreSeen
  ReceivedInOrder
  DisplaysReplaceThemselves
  PlayersFollowTheirHandle
  FillsPaintTheRegion
  InputIsReportedOnce
  TilesShowTheirPictures
  SubjectIsKept
  TemplatesParseBack
  UnknownVariablesAreErrors
  CallsKeepTheirValues
PROPERTIES
  CallbackErrorsAreThrown
  PromptsRestoreTheTerminal
  TransactionsBelongToHandles
  RidersStayOnTheirPlatform
  SpritesActAsSeen
CHECK_DEADLOCK FALSE
