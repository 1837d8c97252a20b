SPECIFICATION ConsoleSpec
CONSTANTS
  Partners = {one, two}
  Nobody = Nobody
  Platform = Platform
  Initial = Initial
  Habits = {"sign in where another was"}
INVARIANT
  WritesGoWhereShown
